------------------------- MODULE OrchestratorProofs -------------------------
(***************************************************************************)
(* Proofs about Orchestrator.tla, for every value of its constants: any    *)
(* budgets, any sets of reasons, with or without tracing failures and      *)
(* interrupts.                                                             *)
(***************************************************************************)
EXTENDS Orchestrator, TLAPS

-----------------------------------------------------------------------------
(* The tables of the kernel.                                               *)

\* The statuses that the transition table knows, spelt out.
LEMMA Statuses ==
  /\ DOMAIN NextStages =
       {"received", "validated", "triaged", "researched", "drafted",
        "qa_revision_requested", "qa_approved", "documented"}
  /\ DOMAIN AllowedTransitions = DOMAIN NextStages
  /\ WorkflowStatus = DOMAIN NextStages \cup
       {"completed", "escalated", "failed", "awaiting_human_approval"}
BY DEF NextStages, AllowedTransitions, WorkflowStatus, TerminalStatuses

\* What transition() can lead to from each status (_ALLOWED_TRANSITIONS).
LEMMA Table ==
  /\ AllowedTransitions["received"] = {"validated", "escalated", "failed"}
  /\ AllowedTransitions["validated"] = {"triaged", "escalated", "failed"}
  /\ AllowedTransitions["triaged"] = {"researched", "escalated", "failed"}
  /\ AllowedTransitions["researched"] = {"drafted", "escalated", "failed"}
  /\ AllowedTransitions["drafted"] =
       {"qa_approved", "qa_revision_requested", "escalated", "failed"}
  /\ AllowedTransitions["qa_revision_requested"] = {"drafted", "escalated", "failed"}
  /\ AllowedTransitions["qa_approved"] = {"documented", "escalated", "failed"}
  /\ AllowedTransitions["documented"] = {"completed", "escalated", "failed"}
BY DEF NextStages, AllowedTransitions

\* transition() moves a status of the table to one of its successors.
LEMMA TransitionMoves ==
  ASSUME NEW target, Transition(target)
  PROVE  /\ currentState \in DOMAIN NextStages
         /\ currentState' = target
         /\ target \in AllowedTransitions[currentState]
         /\ target \in WorkflowStatus
<1>1. currentState \in DOMAIN NextStages
  BY Statuses DEF Transition
<1>2. target \in AllowedTransitions[currentState] /\ currentState' = target
  BY DEF Transition
<1>3. target \in WorkflowStatus
  BY <1>1, <1>2, Statuses, Table
<1>4. QED
  BY <1>1, <1>2, <1>3

-----------------------------------------------------------------------------
(* Type correctness.                                                       *)

\* A run starts well typed.
LEMMA InitType == Init => TypeOK
<1> SUFFICES ASSUME Init PROVE TypeOK
  OBVIOUS
<1>1. "received" \in WorkflowStatus
  BY Statuses
<1>2. KernelTypeOK
  <2>1. delegations \in Seq([specialist : Specialists, status : {"succeeded", "failed"}])
    BY DEF Init, KernelInit
  <2>2. failureStreak \in [Specialists -> Nat]
    BY DEF Init, KernelInit
  <2>3. humanApproval \in [reason : EscalationReason \cup {NoReason}, approved : BOOLEAN]
    BY DEF Init, KernelInit, NoDecision
  <2>4. qaResult \in [decision : Decisions \cup {"none"}, draft : Nat]
    BY DEF Init, KernelInit, NoReview
  <2>5. QED
    BY <1>1, <2>1, <2>2, <2>3, <2>4 DEF Init, KernelInit, KernelTypeOK
<1>3. request \in [reason : EscalationReason \cup {NoReason}, previous : WorkflowStatus]
  BY <1>1 DEF Init, NoRequest
<1>4. QED
  BY <1>2, <1>3 DEF Init, TypeOK, Phases

\* terminate(), escalate() and fail() keep the types of what they assign.
LEMMA TerminateType ==
  ASSUME currentState \in WorkflowStatus, NEW s \in TerminalStatuses, Terminate(s)
  PROVE  currentState' \in WorkflowStatus
BY Statuses DEF Terminate, TerminalStatuses

\* Routing an output keeps the types of what it assigns, whichever way it goes.
LEMMA RouteType ==
  ASSUME TypeOK, NEW target, NEW reason \in EscalationReason \cup {NoReason},
         RouteOrEscalate(target, reason)
  PROVE  /\ currentState' \in WorkflowStatus
         /\ escalation' \in EscalationReason \cup {NoReason}
         /\ revisionCount' \in Nat
<1>1. CASE reason = NoReason /\ Transition(target) /\ UNCHANGED escalation
  BY <1>1, TransitionMoves DEF RouteOrEscalate, TypeOK, KernelTypeOK
<1>2. CASE reason # NoReason /\ Escalate(reason)
  BY <1>2, TerminateType DEF RouteOrEscalate, Escalate, TypeOK, KernelTypeOK, TerminalStatuses
<1>3. QED
  BY <1>1, <1>2 DEF RouteOrEscalate

\* Routing on a review keeps the types of what it routes.
LEMMA RouteQAType ==
  ASSUME TypeOK, NEW decision \in Decisions, NEW reason \in QAReasons,
         RouteQA(decision, reason)
  PROVE  /\ currentState' \in WorkflowStatus
         /\ escalation' \in EscalationReason \cup {NoReason}
         /\ revisionCount' \in Nat
<1>1. CASE decision = "approve" /\ RouteOrEscalate("qa_approved", NoReason)
  BY <1>1, RouteType
<1>2. CASE /\ revisionCount' = revisionCount + 1
           /\ Transition("qa_revision_requested")
           /\ UNCHANGED escalation
  BY <1>2, TransitionMoves DEF TypeOK, KernelTypeOK
<1>3. CASE Escalate("revision_limit_exceeded") /\ UNCHANGED revisionCount
  BY <1>3, TerminateType
     DEF Escalate, TypeOK, KernelTypeOK, TerminalStatuses, EscalationReason
<1>4. CASE Escalate(reason) /\ UNCHANGED revisionCount
  BY <1>4, TerminateType, RunAssumption
     DEF Escalate, TypeOK, KernelTypeOK, TerminalStatuses
<1>5. QED
  BY <1>1, <1>2, <1>3, <1>4 DEF RouteQA

\* The delegation log stays a log.
LEMMA RecordType ==
  ASSUME TypeOK, NEW s \in Specialists, NEW status \in {"succeeded", "failed"},
         RecordDelegation(s, status)
  PROVE  /\ delegations' \in Seq([specialist : Specialists, status : {"succeeded", "failed"}])
         /\ Len(delegations') = Len(delegations) + 1
BY DEF RecordDelegation, TypeOK, KernelTypeOK

\* Every step of a run keeps the types; where the thread is says whose turn it is.
LEMMA NextType == TypeOK /\ ThreadInv /\ [Next]_vars => TypeOK'
<1> SUFFICES ASSUME TypeOK, ThreadInv, [Next]_vars PROVE TypeOK'
  OBVIOUS
<1> USE DEF TypeOK, KernelTypeOK, kernelVars, outputVars, routingVars, recordVars, Phases
<1>1. CASE ScreenTicket
  BY <1>1, TransitionMoves, RunAssumption DEF ScreenTicket
<1>2. CASE StartOrchestration
  BY <1>2 DEF StartOrchestration
<1>3. CASE Gate
  <2>1. CASE AskAboutTicket
    BY <2>1, Statuses DEF AskAboutTicket, AskHuman, EscalationReason
  <2>2. CASE GateAnswers
    BY <2>2, RunAssumption DEF GateAnswers
  <2>3. CASE GateRaises
    BY <2>3 DEF GateRaises
  <2>4. CASE ApprovedTicketStarts
    BY <2>4 DEF ApprovedTicketStarts
  <2>5. QED
    BY <1>3, <2>1, <2>2, <2>3, <2>4 DEF Gate
<1>4. CASE EscalateTicket
  BY <1>4, TerminateType DEF EscalateTicket, Escalate, TerminalStatuses
<1>5. CASE ModelTurn
  <2>1. CASE InspectWorkflowState
    BY <2>1 DEF InspectWorkflowState, Turn
  <2>2. ASSUME NEW s \in Specialists, Delegate(s) PROVE TypeOK'
    BY <2>2 DEF Delegate, Turn, CountToolCall
  <2>3. ASSUME NEW s \in Specialists, RejectDelegation(s) PROVE TypeOK'
    BY <2>3 DEF RejectDelegation, Turn, CountToolCall
  <2>4. CASE FinalizeWorkflow
    <3>1. currentState' \in WorkflowStatus
      BY <2>4, TransitionMoves DEF FinalizeWorkflow, FinalizeEscalated, FinalizeDocumented
    <3>2. finalized' \in BOOLEAN
      BY <2>4, Zenon DEF FinalizeWorkflow, FinalizeEscalated, FinalizeDocumented
    <3>3. QED
      BY <2>4, <3>1, <3>2 DEF FinalizeWorkflow, Turn
  <2>5. CASE RejectFinalize
    BY <2>5 DEF RejectFinalize, Turn
  <2>6. QED
    BY <1>5, <2>1, <2>2, <2>3, <2>4, <2>5 DEF ModelTurn
<1>6. CASE SpecialistEnds
  <2> USE DEF RunnerUnchanged
  <2>1. CASE SpecialistFails
    BY <2>1 DEF SpecialistFails
  <2>2. CASE TriageReturns
    <3>1. PICK reason \in (ClassificationReasons \ RestrictedReasons) \cup {NoReason}, cut \in Cuts :
            Applied(RouteOrEscalate("triaged", reason), cut)
      BY <2>2 DEF TriageReturns
    <3>2. reason \in EscalationReason \cup {NoReason}
      BY RunAssumption
    <3>3. /\ currentState' \in WorkflowStatus
          /\ escalation' \in EscalationReason \cup {NoReason}
          /\ revisionCount' \in Nat
      BY <3>1, <3>2, RouteType DEF Applied
    <3>4. QED
      BY <2>2, <3>1, <3>3 DEF TriageReturns, HydrateOnly, Running, Specialists, Applied
  <2>3. CASE TriageAsksHuman
    BY <2>3, Statuses, RunAssumption
       DEF TriageAsksHuman, HydrateOnly, AskHuman, Running, Specialists
  <2>4. CASE TriageResumes
    <3>1. PICK cut \in Cuts \ {"early"} :
            Applied(RouteOrEscalate("triaged", IF humanApproval.approved THEN NoReason
                                               ELSE request.reason), cut)
      BY <2>4 DEF TriageResumes
    <3>2. /\ currentState' \in WorkflowStatus
          /\ escalation' \in EscalationReason \cup {NoReason}
          /\ revisionCount' \in Nat
      BY <3>1, RouteType DEF Applied
    <3>3. QED
      BY <2>4, <3>1, <3>2 DEF TriageResumes, Applied
  <2>5. CASE ResearchReturns
    <3>1. PICK reason \in {NoReason, "insufficient_evidence", "conflicting_evidence"}, cut \in Cuts :
            Applied(RouteOrEscalate("researched", reason), cut)
      BY <2>5 DEF ResearchReturns
    <3>2. /\ currentState' \in WorkflowStatus
          /\ escalation' \in EscalationReason \cup {NoReason}
          /\ revisionCount' \in Nat
      BY <3>1, RouteType DEF Applied, EscalationReason
    <3>3. QED
      BY <2>5, <3>1, <3>2 DEF ResearchReturns, HydrateOnly, Running, Specialists, Applied
  <2>6. CASE SupportReturns
    <3>1. /\ currentState' \in WorkflowStatus
          /\ escalation' \in EscalationReason \cup {NoReason}
          /\ revisionCount' \in Nat
      BY <2>6, RouteType DEF SupportReturns, Applied
    <3>2. QED
      BY <2>6, <3>1 DEF SupportReturns, HydrateSupport, Running, Specialists, Applied
  <2>7. CASE QAReturns
    <3>1. PICK decision \in Decisions, reason \in QAReasons, cut \in Cuts :
            /\ HydrateQA(decision)
            /\ Applied(RouteQA(decision, reason), cut)
      BY <2>7 DEF QAReturns
    <3>2. /\ currentState' \in WorkflowStatus
          /\ escalation' \in EscalationReason \cup {NoReason}
          /\ revisionCount' \in Nat
      BY <3>1, RouteQAType DEF Applied
    <3>3. QED
      BY <2>7, <3>1, <3>2 DEF QAReturns, HydrateQA, Running, Specialists, Applied
  <2>8. CASE DocumentationReturns
    <3>1. /\ currentState' \in WorkflowStatus
          /\ escalation' \in EscalationReason \cup {NoReason}
          /\ revisionCount' \in Nat
      BY <2>8, RouteType DEF DocumentationReturns, Applied
    <3>2. QED
      BY <2>8, <3>1 DEF DocumentationReturns, HydrateDocumentation, Running, Specialists, Applied
  <2>9. QED
    BY <1>6, <2>1, <2>2, <2>3, <2>4, <2>5, <2>6, <2>7, <2>8 DEF SpecialistEnds
<1>7. CASE RecordSuccess
  <2>1. active \in Specialists
    BY <1>7 DEF RecordSuccess, ThreadInv
  <2>2. delegations' \in Seq([specialist : Specialists, status : {"succeeded", "failed"}])
    BY <1>7, <2>1, RecordType DEF RecordSuccess
  <2>3. QED
    BY <1>7, <2>1, <2>2 DEF RecordSuccess, NoteSuccess, BackToModel
<1>8. CASE HandleFailure
  <2>1. active \in Specialists
    BY <1>8 DEF HandleFailure, ThreadInv
  <2>2. delegations' \in Seq([specialist : Specialists, status : {"succeeded", "failed"}])
    BY <1>8, <2>1, RecordType DEF HandleFailure
  <2>3. failureStreak' \in [Specialists -> Nat]
    BY <1>8, <2>1 DEF HandleFailure, NoteFailure
  <2>4. /\ currentState' \in WorkflowStatus
        /\ escalation' \in EscalationReason \cup {NoReason}
        /\ revisionCount' \in Nat
    BY <1>8, TerminateType DEF HandleFailure, Escalate, TerminalStatuses, EscalationReason
  <2>5. QED
    BY <1>8, <2>1, <2>2, <2>3, <2>4 DEF HandleFailure, BackToModel
<1>9. CASE OrchestratorStops \/ OrchestratorRaises
  BY <1>9 DEF OrchestratorStops, OrchestratorRaises
<1>10. CASE CloseRun
  BY <1>10, TerminateType DEF CloseRun, Fail, TerminalStatuses
<1>11. CASE CatchException
  BY <1>11, TerminateType DEF CatchException, Fail, TerminalStatuses
<1>12. CASE WriteArtifacts
  BY <1>12 DEF WriteArtifacts, Reply
<1>13. CASE EscapeUnwritten \/ Interrupt
  BY <1>13 DEF EscapeUnwritten, Interrupt, CutOff, Reply
<1>14. CASE UNCHANGED vars
  BY <1>14 DEF vars, runVars
<1>15. QED
  BY <1>1, <1>2, <1>3, <1>4, <1>5, <1>6, <1>7, <1>8, <1>9, <1>10, <1>11, <1>12, <1>13,
     <1>14 DEF Next, RunIsOver

-----------------------------------------------------------------------------
(* The inductive invariant.                                                *)

\* The inductive invariant holds of a new run.
LEMMA InitInv == Init => IInv
BY BudgetsAssumption
   DEF Init, KernelInit, IInv, ThreadInv, SettlingInv, ApprovalCoversDraft,
       EscalatedIffReason, StreakEndsRun, BudgetInv, UnderWay, Over, NoReason

\* Settling an unsettled run, and leaving a settled one alone.
LEMMA TerminateMoves ==
  ASSUME NEW s, Terminate(s)
  PROVE  /\ currentState \in TerminalStatuses => currentState' = currentState
         /\ currentState \notin TerminalStatuses => currentState' = s
BY DEF Terminate

\* Routing from an unsettled status ends in the target or in an escalation with a reason.
LEMMA RouteMoves ==
  ASSUME currentState \notin TerminalStatuses, NEW target, NEW reason,
         RouteOrEscalate(target, reason)
  PROVE  /\ revisionCount' = revisionCount
         /\ \/ /\ reason = NoReason
               /\ currentState' = target
               /\ target \in AllowedTransitions[currentState]
               /\ escalation' = escalation
            \/ /\ reason # NoReason
               /\ currentState' = "escalated"
               /\ escalation' = reason
BY TransitionMoves, TerminateMoves DEF RouteOrEscalate, Escalate

\* No reason to escalate is the marker for none.
LEMMA ReasonsAreReasons == NoReason \notin EscalationReason
BY DEF EscalationReason, RestrictedReasons, NoReason

\* QA's routing from a drafted run: approval only on an approve decision.
LEMMA RouteQAMoves ==
  ASSUME currentState = "drafted", NEW decision \in Decisions, NEW reason \in QAReasons,
         RouteQA(decision, reason)
  PROVE  \/ /\ decision = "approve"
            /\ currentState' = "qa_approved"
            /\ escalation' = escalation
         \/ /\ currentState' = "qa_revision_requested"
            /\ escalation' = escalation
         \/ /\ currentState' = "escalated"
            /\ escalation' \in EscalationReason
<1>1. currentState \notin TerminalStatuses
  BY DEF TerminalStatuses
<1>2. CASE decision = "approve" /\ RouteOrEscalate("qa_approved", NoReason)
  BY <1>1, <1>2, RouteMoves
<1>3. CASE Transition("qa_revision_requested") /\ UNCHANGED escalation
  BY <1>3, TransitionMoves
<1>4. CASE Escalate("revision_limit_exceeded")
  BY <1>1, <1>4, TerminateMoves DEF Escalate, EscalationReason
<1>5. CASE Escalate(reason)
  BY <1>1, <1>5, TerminateMoves, RunAssumption DEF Escalate
<1>6. QED
  BY <1>2, <1>3, <1>4, <1>5 DEF RouteQA

\* Every step of a run keeps the inductive invariant.
LEMMA NextInv == TypeOK /\ IInv /\ [Next]_vars => IInv'
<1> SUFFICES ASSUME TypeOK, IInv, [Next]_vars PROVE IInv'
  OBVIOUS
<1> USE DEF IInv, ThreadInv, SettlingInv, ApprovalCoversDraft, EscalatedIffReason,
            StreakEndsRun, BudgetInv, UnderWay, Over,
            kernelVars, outputVars, routingVars, recordVars, TerminalStatuses
<1>1. CASE ScreenTicket
  BY <1>1, TransitionMoves DEF ScreenTicket, Nobody
<1>2. CASE StartOrchestration
  BY <1>2 DEF StartOrchestration
<1>3. CASE Gate
  <2>1. CASE AskAboutTicket
    BY <2>1 DEF AskAboutTicket, AskHuman
  <2>2. CASE GateAnswers
    BY <2>2 DEF GateAnswers, Specialists
  <2>3. CASE GateRaises
    BY <2>3 DEF GateRaises, Specialists
  <2>4. CASE ApprovedTicketStarts
    BY <2>4 DEF ApprovedTicketStarts
  <2>5. QED
    BY <1>3, <2>1, <2>2, <2>3, <2>4 DEF Gate
<1>4. CASE EscalateTicket
  BY <1>4, TerminateMoves, ReasonsAreReasons
     DEF EscalateTicket, Escalate, TypeOK, EscalationReason
<1>5. CASE ModelTurn
  <2>1. CASE InspectWorkflowState
    BY <2>1 DEF InspectWorkflowState, Turn
  <2>2. ASSUME NEW s \in Specialists, Delegate(s) PROVE IInv'
    BY <2>2, BudgetsAssumption
       DEF Delegate, Turn, CountToolCall, DelegationAllowed, RequiredStates, Specialists,
           TypeOK, KernelTypeOK
  <2>3. ASSUME NEW s \in Specialists, RejectDelegation(s) PROVE IInv'
    BY <2>3 DEF RejectDelegation, Turn, CountToolCall, TypeOK, KernelTypeOK
  <2>4. CASE FinalizeWorkflow
    BY <2>4, TransitionMoves
       DEF FinalizeWorkflow, Turn, FinalizeEscalated, FinalizeDocumented
  <2>5. CASE RejectFinalize
    BY <2>5 DEF RejectFinalize, Turn
  <2>6. QED
    BY <1>5, <2>1, <2>2, <2>3, <2>4, <2>5 DEF ModelTurn
<1>6. CASE SpecialistEnds
  <2> USE DEF RunnerUnchanged
  <2>1. CASE SpecialistFails
    BY <2>1 DEF SpecialistFails, RequiredStates
  <2>2. CASE TriageReturns
    <3>1. PICK reason \in (ClassificationReasons \ RestrictedReasons) \cup {NoReason}, cut \in Cuts :
            Applied(RouteOrEscalate("triaged", reason), cut)
      BY <2>2 DEF TriageReturns
    <3>2. currentState = "validated" /\ escalation = NoReason
      BY <2>2 DEF TriageReturns, Running, RequiredStates
    <3>3. CASE cut = "early"
      BY <2>2, <3>1, <3>2, <3>3 DEF TriageReturns, HydrateOnly, Running, Specialists, Applied
    <3>4. CASE cut # "early"
      <4>1. RouteOrEscalate("triaged", reason)
        BY <3>1, <3>4 DEF Applied
      <4>2. \/ currentState' = "triaged" /\ escalation' = escalation
            \/ currentState' = "escalated" /\ escalation' # NoReason
        BY <3>2, <4>1, RouteMoves
      <4>3. QED
        BY <2>2, <3>1, <3>2, <4>2 DEF TriageReturns, HydrateOnly, Running, Specialists, Applied
    <3>5. QED
      BY <3>3, <3>4
  <2>3. CASE TriageAsksHuman
    <3>1. currentState = "validated" /\ escalation = NoReason /\ active = "triage"
      BY <2>3 DEF TriageAsksHuman, Running, RequiredStates
    <3>2. request'.reason \in RestrictedReasons /\ request'.previous = "validated"
      BY <2>3, <3>1 DEF TriageAsksHuman, AskHuman
    <3>3. QED
      BY <2>3, <3>1, <3>2 DEF TriageAsksHuman, HydrateOnly, AskHuman, Specialists, Nobody
  <2>4. CASE TriageResumes
    <3>1. PICK cut \in Cuts \ {"early"} :
            Applied(RouteOrEscalate("triaged", IF humanApproval.approved THEN NoReason
                                               ELSE request.reason), cut)
      BY <2>4 DEF TriageResumes
    <3>2. currentState = "validated" /\ escalation = NoReason
      BY <2>4 DEF TriageResumes, NoReason
    <3>3. \/ currentState' = "triaged" /\ escalation' = escalation
          \/ currentState' = "escalated" /\ escalation' # NoReason
      BY <3>1, <3>2, RouteMoves DEF Applied
    <3>4. QED
      BY <2>4, <3>1, <3>2, <3>3 DEF TriageResumes, Applied, Specialists
  <2>5. CASE ResearchReturns
    <3>1. PICK reason \in {NoReason, "insufficient_evidence", "conflicting_evidence"}, cut \in Cuts :
            Applied(RouteOrEscalate("researched", reason), cut)
      BY <2>5 DEF ResearchReturns
    <3>2. currentState = "triaged" /\ escalation = NoReason
      BY <2>5 DEF ResearchReturns, Running, RequiredStates
    <3>3. CASE cut = "early"
      BY <2>5, <3>1, <3>2, <3>3 DEF ResearchReturns, HydrateOnly, Running, Specialists, Applied
    <3>4. CASE cut # "early"
      <4>1. RouteOrEscalate("researched", reason)
        BY <3>1, <3>4 DEF Applied
      <4>2. \/ currentState' = "researched" /\ escalation' = escalation
            \/ currentState' = "escalated" /\ escalation' # NoReason
        BY <3>2, <4>1, RouteMoves
      <4>3. QED
        BY <2>5, <3>1, <3>2, <4>2 DEF ResearchReturns, HydrateOnly, Running, Specialists, Applied
    <3>5. QED
      BY <3>3, <3>4
  <2>6. CASE SupportReturns
    <3>1. PICK cut \in Cuts : Applied(RouteOrEscalate("drafted", NoReason), cut)
      BY <2>6 DEF SupportReturns
    <3>2. /\ currentState \in {"researched", "qa_revision_requested"}
          /\ escalation = NoReason
      BY <2>6 DEF SupportReturns, Running, RequiredStates
    <3>3. /\ currentState' \in {"researched", "qa_revision_requested", "drafted"}
          /\ escalation' = escalation
      BY <3>1, <3>2, RouteMoves DEF Applied
    <3>4. QED
      BY <2>6, <3>1, <3>2, <3>3
         DEF SupportReturns, HydrateSupport, Running, Specialists, Applied, TypeOK, KernelTypeOK
  <2>7. CASE QAReturns
    <3>1. PICK decision \in Decisions, reason \in QAReasons, cut \in Cuts :
            /\ HydrateQA(decision)
            /\ Applied(RouteQA(decision, reason), cut)
      BY <2>7 DEF QAReturns
    <3>2. currentState = "drafted" /\ escalation = NoReason
      BY <2>7 DEF QAReturns, Running, RequiredStates
    <3>3. CASE cut = "early"
      BY <2>7, <3>1, <3>2, <3>3 DEF QAReturns, HydrateQA, Running, Specialists, Applied
    <3>4. CASE cut # "early"
      <4>1. RouteQA(decision, reason)
        BY <3>1, <3>4 DEF Applied
      <4>2. \/ /\ decision = "approve"
               /\ currentState' = "qa_approved"
               /\ escalation' = escalation
            \/ currentState' = "qa_revision_requested" /\ escalation' = escalation
            \/ currentState' = "escalated" /\ escalation' # NoReason
        BY <3>2, <4>1, RouteQAMoves, ReasonsAreReasons
      <4>3. QED
        BY <2>7, <3>1, <3>2, <4>2 DEF QAReturns, HydrateQA, Running, Specialists, Applied
    <3>5. QED
      BY <3>3, <3>4
  <2>8. CASE DocumentationReturns
    <3>1. PICK cut \in Cuts : Applied(RouteOrEscalate("documented", NoReason), cut)
      BY <2>8 DEF DocumentationReturns
    <3>2. currentState = "qa_approved" /\ escalation = NoReason
      BY <2>8 DEF DocumentationReturns, Running, RequiredStates
    <3>3. currentState' \in {"qa_approved", "documented"} /\ escalation' = escalation
      BY <3>1, <3>2, RouteMoves DEF Applied
    <3>4. QED
      BY <2>8, <3>1, <3>2, <3>3
         DEF DocumentationReturns, HydrateDocumentation, Running, Specialists, Applied
  <2>9. QED
    BY <1>6, <2>1, <2>2, <2>3, <2>4, <2>5, <2>6, <2>7, <2>8 DEF SpecialistEnds
<1>7. CASE RecordSuccess
  <2>1. active \in Specialists /\ active # Nobody
    BY <1>7 DEF RecordSuccess, Specialists, Nobody
  <2>2. Len(delegations') = Len(delegations) + 1
    BY <1>7, <2>1, RecordType DEF RecordSuccess
  <2>3. BudgetInv'
    BY <1>7, <2>1, <2>2, RecordType DEF RecordSuccess, BackToModel, TypeOK, KernelTypeOK
  <2>4. StreakEndsRun'
    BY <1>7, <2>1, BudgetsAssumption DEF RecordSuccess, NoteSuccess, TypeOK, KernelTypeOK
  <2>5. QED
    BY <1>7, <2>3, <2>4 DEF RecordSuccess, BackToModel
<1>8. CASE HandleFailure
  <2>1. active \in Specialists /\ active # Nobody
    BY <1>8 DEF HandleFailure, Specialists, Nobody
  <2>2. Len(delegations') \in {Len(delegations), Len(delegations) + 1}
    BY <1>8, <2>1, RecordType DEF HandleFailure
  <2>3. BudgetInv'
    BY <1>8, <2>1, <2>2, BudgetsAssumption
       DEF HandleFailure, BackToModel, TypeOK, KernelTypeOK
  <2>4. currentState \notin {"completed", "failed"}
    BY <1>8 DEF HandleFailure
  <2>5. CASE UNCHANGED <<routingVars, failureStreak>>
    BY <1>8, <2>3, <2>5 DEF HandleFailure, BackToModel
  <2>6. CASE /\ NoteFailure(active)
             /\ FailsTooOften(active)
             /\ Escalate("agent_execution_failure")
    <3>1. currentState' = "escalated" /\ escalation' # NoReason
      BY <2>4, <2>6, TerminateMoves DEF Escalate, NoReason
    <3>2. QED
      BY <1>8, <2>3, <3>1 DEF HandleFailure, BackToModel
  <2>7. CASE /\ NoteFailure(active)
             /\ ~FailsTooOften(active)
             /\ UNCHANGED routingVars
    <3>1. StreakEndsRun'
      BY <2>1, <2>7, BudgetsAssumption DEF NoteFailure, FailsTooOften, TypeOK, KernelTypeOK
    <3>2. QED
      BY <1>8, <2>3, <2>7, <3>1 DEF HandleFailure, BackToModel
  <2>8. QED
    BY <1>8, <2>5, <2>6, <2>7 DEF HandleFailure
<1>9. CASE OrchestratorStops \/ OrchestratorRaises
  BY <1>9 DEF OrchestratorStops, OrchestratorRaises
<1>10. CASE CloseRun
  BY <1>10, TerminateMoves DEF CloseRun, Fail
<1>11. CASE CatchException
  BY <1>11, TerminateMoves DEF CatchException, Fail
<1>12. CASE WriteArtifacts
  BY <1>12 DEF WriteArtifacts, Reply
<1>13. CASE EscapeUnwritten \/ Interrupt
  BY <1>13 DEF EscapeUnwritten, Interrupt, CutOff, Reply
<1>14. CASE UNCHANGED vars
  BY <1>14 DEF vars, runVars
<1>15. QED
  BY <1>1, <1>2, <1>3, <1>4, <1>5, <1>6, <1>7, <1>8, <1>9, <1>10, <1>11, <1>12, <1>13,
     <1>14 DEF Next, RunIsOver

\* The kernel's variables keep their types and the invariant holds throughout a run.
THEOREM Invariance == Spec => [](TypeOK /\ IInv)
<1>1. Init => TypeOK /\ IInv
  BY InitType, InitInv
<1>2. TypeOK /\ IInv /\ [Next]_vars => (TypeOK /\ IInv)'
  BY NextType, NextInv DEF IInv
<1>3. QED
  BY <1>1, <1>2, PTL DEF Spec

-----------------------------------------------------------------------------
(* What follows from it.                                                   *)

\* Type correctness of every run.
THEOREM TypeCorrect == Spec => []TypeOK
BY Invariance, PTL

\* No reply carries a draft that QA did not approve: write_run_artifacts reads the draft of
\* a completed run, and completion is only reached through that draft's approval.
THEOREM PublishedDrafts == Spec => []PublishedDraftWasApproved
<1>1. IInv => PublishedDraftWasApproved
  BY DEF IInv, SettlingInv, ApprovalCoversDraft, PublishedDraftWasApproved
<1>2. QED
  BY <1>1, Invariance, PTL

\* An approval always covers the current draft, and the article is about it.
THEOREM ApprovedDrafts == Spec => []ApprovalCoversDraft
<1>1. IInv => ApprovalCoversDraft
  BY DEF IInv
<1>2. QED
  BY <1>1, Invariance, PTL

\* A run is escalated if and only if it has a reason to be.
THEOREM EscalationReasons == Spec => []EscalatedIffReason
<1>1. IInv => EscalatedIffReason
  BY DEF IInv
<1>2. QED
  BY <1>1, Invariance, PTL

\* A specialist that failed too often has settled its run.
THEOREM FailureStreaks == Spec => []StreakEndsRun
<1>1. IInv => StreakEndsRun
  BY DEF IInv
<1>2. QED
  BY <1>1, Invariance, PTL

\* However the model spends its turns, no more specialists run than the budget has calls.
THEOREM DelegationBudget == Spec => []BudgetBoundsDelegations
<1>1. TypeOK /\ IInv => BudgetBoundsDelegations
  BY BudgetsAssumption
     DEF TypeOK, KernelTypeOK, IInv, BudgetInv, UnderWay, BudgetBoundsDelegations
<1>2. QED
  BY <1>1, Invariance, PTL

\* The step that settles a run is the last to change its status or its outputs: the thread
\* may still record a failed delegation, finalize or fail, but terminate() keeps the first
\* status, and no specialist is admitted.
LEMMA SettledStays ==
  TypeOK /\ IInv /\ [Next]_vars /\ currentState \in TerminalStatuses => Outcome' = Outcome
<1> SUFFICES ASSUME TypeOK, IInv, [Next]_vars, currentState \in TerminalStatuses
             PROVE  Outcome' = Outcome
  OBVIOUS
<1> USE DEF Outcome, IInv, ThreadInv, SettlingInv, kernelVars, outputVars, routingVars, recordVars,
            TerminalStatuses
<1>1. phase \notin {"screening", "screened", "awaiting", "decided", "specialist"}
  BY DEF EscalatedIffReason, NoReason
<1>2. CASE ScreenTicket \/ StartOrchestration \/ Gate \/ EscalateTicket \/ SpecialistEnds
  BY <1>1, <1>2
     DEF ScreenTicket, StartOrchestration, Gate, AskAboutTicket, GateAnswers, GateRaises,
         ApprovedTicketStarts, EscalateTicket, SpecialistEnds, SpecialistFails, Running,
         TriageReturns, TriageAsksHuman, TriageResumes, ResearchReturns, SupportReturns,
         QAReturns, DocumentationReturns
<1>3. CASE ModelTurn
  <2>1. CASE FinalizeWorkflow
    BY <2>1 DEF FinalizeWorkflow, FinalizeEscalated, FinalizeDocumented
  <2>2. CASE InspectWorkflowState \/ RejectFinalize
    BY <2>2 DEF InspectWorkflowState, RejectFinalize
  <2>3. CASE \E s \in Specialists : Delegate(s) \/ RejectDelegation(s)
    BY <2>3 DEF Delegate, RejectDelegation
  <2>4. QED
    BY <1>3, <2>1, <2>2, <2>3 DEF ModelTurn
<1>4. CASE RecordSuccess
  BY <1>4 DEF RecordSuccess
<1>5. CASE HandleFailure
  BY <1>5, TerminateMoves DEF HandleFailure, Escalate
<1>6. CASE CloseRun
  BY <1>6 DEF CloseRun
<1>7. CASE CatchException
  BY <1>7, TerminateMoves DEF CatchException, Fail
<1>8. CASE OrchestratorStops \/ OrchestratorRaises \/ WriteArtifacts \/ EscapeUnwritten \/ Interrupt
  BY <1>8 DEF OrchestratorStops, OrchestratorRaises, WriteArtifacts, EscapeUnwritten, Interrupt,
              CutOff
<1>9. CASE UNCHANGED vars
  BY <1>9 DEF vars, runVars
<1>10. QED
  BY <1>2, <1>3, <1>4, <1>5, <1>6, <1>7, <1>8, <1>9 DEF Next, RunIsOver

\* A settled run stays as it settled.
THEOREM Settlement == Spec => SettledIsFinal
<1>1. TypeOK /\ IInv /\ [Next]_vars => [(currentState \in TerminalStatuses) => Outcome' = Outcome]_vars
  BY SettledStays
<1>2. QED
  BY <1>1, Invariance, PTL DEF Spec, SettledIsFinal

-----------------------------------------------------------------------------
(* The human gate and the revision limit, whatever fails.                  *)

\* A new run has escalated nothing.
LEMMA AskedInit == Init => AskedInv
BY DEF Init, KernelInit, AskedInv, RestrictedEscalationAskedHumanOrQA

\* A review that does not escalate is not routed to a restricted reason.
LEMMA RouteQAUnrestricted ==
  ASSUME currentState = "drafted", NEW decision \in Decisions \ {"escalate"}, NEW reason,
         RouteQA(decision, reason)
  PROVE  currentState' # "escalated" \/ escalation' \notin RestrictedReasons
<1>1. currentState \notin TerminalStatuses
  BY DEF TerminalStatuses
<1>2. CASE RouteOrEscalate("qa_approved", NoReason)
  BY <1>1, <1>2, RouteMoves
<1>3. CASE Transition("qa_revision_requested")
  BY <1>3, TransitionMoves
<1>4. CASE Escalate("revision_limit_exceeded")
  BY <1>4 DEF Escalate, RestrictedReasons
<1>5. QED
  BY <1>2, <1>3, <1>4 DEF RouteQA

\* Every step keeps the question, its answer and the reason together.
LEMMA AskedStep ==
  ASSUME TypeOK, IInv, AskedInv, [Next]_vars
  PROVE  AskedInv'
<1> USE DEF AskedInv, RestrictedEscalationAskedHumanOrQA, IInv, ThreadInv, kernelVars,
            outputVars, routingVars, recordVars, TerminalStatuses
<1>1. CASE ScreenTicket
  BY <1>1, TransitionMoves DEF ScreenTicket
<1>2. CASE StartOrchestration
  BY <1>2 DEF StartOrchestration
<1>3. CASE Gate
  <2>1. CASE AskAboutTicket
    BY <2>1 DEF AskAboutTicket, AskHuman
  <2>2. CASE GateAnswers
    BY <2>2 DEF GateAnswers
  <2>3. CASE GateRaises \/ ApprovedTicketStarts
    BY <2>3 DEF GateRaises, ApprovedTicketStarts
  <2>4. QED
    BY <1>3, <2>1, <2>2, <2>3 DEF Gate
<1>4. CASE EscalateTicket
  BY <1>4 DEF EscalateTicket, Escalate
<1>5. CASE ModelTurn
  <2>1. CASE InspectWorkflowState \/ RejectFinalize
    BY <2>1 DEF InspectWorkflowState, RejectFinalize, Turn
  <2>2. CASE \E s \in Specialists : Delegate(s) \/ RejectDelegation(s)
    BY <2>2 DEF Delegate, RejectDelegation, Turn
  <2>3. CASE FinalizeWorkflow
    BY <2>3, TransitionMoves
       DEF FinalizeWorkflow, Turn, FinalizeEscalated, FinalizeDocumented
  <2>4. QED
    BY <1>5, <2>1, <2>2, <2>3 DEF ModelTurn
<1>6. CASE SpecialistEnds
  <2> USE DEF RunnerUnchanged
  <2>1. CASE SpecialistFails
    BY <2>1 DEF SpecialistFails
  <2>2. CASE TriageReturns
    <3>1. PICK reason \in (ClassificationReasons \ RestrictedReasons) \cup {NoReason}, cut \in Cuts :
            Applied(RouteOrEscalate("triaged", reason), cut)
      BY <2>2 DEF TriageReturns
    <3>2. currentState = "validated"
      BY <2>2 DEF TriageReturns, Running, RequiredStates
    <3>3. currentState' # "escalated" \/ escalation' = reason
      BY <3>1, <3>2, RouteMoves DEF Applied
    <3>4. reason \notin RestrictedReasons
      BY DEF RestrictedReasons, NoReason
    <3>5. QED
      BY <2>2, <3>1, <3>3, <3>4 DEF TriageReturns, Applied
  <2>3. CASE TriageAsksHuman
    BY <2>3 DEF TriageAsksHuman, AskHuman, Running, Nobody
  <2>4. CASE TriageResumes
    <3>1. PICK cut \in Cuts \ {"early"} :
            Applied(RouteOrEscalate("triaged", IF humanApproval.approved THEN NoReason
                                               ELSE request.reason), cut)
      BY <2>4 DEF TriageResumes
    <3>2. currentState = "validated" /\ phase = "decided"
      BY <2>4 DEF TriageResumes
    <3>3. currentState' # "escalated" \/ escalation' = humanApproval.reason
      BY <3>1, <3>2, RouteMoves DEF Applied
    <3>4. QED
      BY <2>4, <3>1, <3>3 DEF TriageResumes, Applied
  <2>5. CASE ResearchReturns
    <3>1. PICK reason \in {NoReason, "insufficient_evidence", "conflicting_evidence"}, cut \in Cuts :
            Applied(RouteOrEscalate("researched", reason), cut)
      BY <2>5 DEF ResearchReturns
    <3>2. currentState = "triaged"
      BY <2>5 DEF ResearchReturns, Running, RequiredStates
    <3>3. currentState' # "escalated" \/ escalation' = reason
      BY <3>1, <3>2, RouteMoves DEF Applied
    <3>4. reason \notin RestrictedReasons
      BY DEF RestrictedReasons, NoReason
    <3>5. QED
      BY <2>5, <3>1, <3>3, <3>4 DEF ResearchReturns, Applied
  <2>6. CASE SupportReturns
    <3>1. PICK cut \in Cuts : Applied(RouteOrEscalate("drafted", NoReason), cut)
      BY <2>6 DEF SupportReturns
    <3>2. currentState \in {"researched", "qa_revision_requested"}
      BY <2>6 DEF SupportReturns, Running, RequiredStates
    <3>3. currentState' # "escalated"
      BY <3>1, <3>2, RouteMoves DEF Applied
    <3>4. QED
      BY <2>6, <3>1, <3>3 DEF SupportReturns, Applied
  <2>7. CASE QAReturns
    <3>1. PICK decision \in Decisions, reason \in QAReasons, cut \in Cuts :
            /\ HydrateQA(decision)
            /\ Applied(RouteQA(decision, reason), cut)
      BY <2>7 DEF QAReturns
    <3>2. currentState = "drafted"
      BY <2>7 DEF QAReturns, Running, RequiredStates
    <3>3. \/ qaResult'.decision = "escalate"
          \/ currentState' # "escalated"
          \/ escalation' \notin RestrictedReasons
      BY <3>1, <3>2, RouteQAUnrestricted DEF Applied, HydrateQA
    <3>4. QED
      BY <2>7, <3>1, <3>3 DEF QAReturns, Applied
  <2>8. CASE DocumentationReturns
    <3>1. PICK cut \in Cuts : Applied(RouteOrEscalate("documented", NoReason), cut)
      BY <2>8 DEF DocumentationReturns
    <3>2. currentState = "qa_approved"
      BY <2>8 DEF DocumentationReturns, Running, RequiredStates
    <3>3. currentState' # "escalated"
      BY <3>1, <3>2, RouteMoves DEF Applied
    <3>4. QED
      BY <2>8, <3>1, <3>3 DEF DocumentationReturns, Applied
  <2>9. QED
    BY <1>6, <2>1, <2>2, <2>3, <2>4, <2>5, <2>6, <2>7, <2>8 DEF SpecialistEnds
<1>7. CASE RecordSuccess
  BY <1>7 DEF RecordSuccess, BackToModel
<1>8. CASE HandleFailure
  BY <1>8 DEF HandleFailure, Escalate, BackToModel, RestrictedReasons
<1>9. CASE CloseRun
  BY <1>9, TerminateMoves DEF CloseRun, Fail
<1>10. CASE CatchException
  BY <1>10, TerminateMoves DEF CatchException, Fail
<1>11. CASE OrchestratorStops \/ OrchestratorRaises \/ WriteArtifacts \/ EscapeUnwritten \/ Interrupt
  BY <1>11 DEF OrchestratorStops, OrchestratorRaises, WriteArtifacts, EscapeUnwritten, Interrupt,
              CutOff
<1>12. CASE UNCHANGED vars
  BY <1>12 DEF vars, runVars
<1>13. QED
  BY <1>1, <1>2, <1>3, <1>4, <1>5, <1>6, <1>7, <1>8, <1>9, <1>10, <1>11, <1>12
     DEF Next, RunIsOver

\* No part of the code but QA escalates for a restricted reason without having asked the
\* operator about that very reason (_handle_prescreen_escalation, apply_triage).
THEOREM RestrictedEscalations == Spec => []RestrictedEscalationAskedHumanOrQA
<1>1. AskedInv => RestrictedEscalationAskedHumanOrQA
  BY DEF AskedInv
<1>2. TypeOK /\ IInv /\ AskedInv /\ [Next]_vars => AskedInv'
  BY AskedStep
<1>3. QED
  BY <1>1, <1>2, AskedInit, Invariance, PTL DEF Spec

\* The revision count moves only when QA asks for a revision it may still ask for.
LEMMA RevisionsCount ==
  ASSUME TypeOK, [Next]_vars
  PROVE  \/ revisionCount' = revisionCount
         \/ revisionCount < MaxRevisions /\ revisionCount' = revisionCount + 1
<1> USE DEF kernelVars, outputVars, routingVars, recordVars
<1>1. CASE QAReturns
  <2>1. PICK decision \in Decisions, reason \in QAReasons, cut \in Cuts :
          Applied(RouteQA(decision, reason), cut)
    BY <1>1 DEF QAReturns
  <2>2. CASE cut = "early"
    BY <2>1, <2>2 DEF Applied
  <2>3. CASE cut # "early"
    <3>1. RouteQA(decision, reason)
      BY <2>1, <2>3 DEF Applied
    <3>2. QED
      BY <3>1 DEF RouteQA, RouteOrEscalate
  <2>4. QED
    BY <2>2, <2>3
<1>2. CASE SpecialistEnds /\ ~QAReturns
  BY <1>2 DEF SpecialistEnds, SpecialistFails, TriageReturns, TriageAsksHuman, TriageResumes,
              ResearchReturns, SupportReturns, DocumentationReturns, RouteOrEscalate, Applied
<1>3. CASE ModelTurn
  BY <1>3 DEF ModelTurn, InspectWorkflowState, Delegate, RejectDelegation, FinalizeWorkflow,
              RejectFinalize
<1>4. CASE \/ ScreenTicket \/ StartOrchestration \/ Gate \/ EscalateTicket \/ RecordSuccess
           \/ HandleFailure \/ CloseRun \/ CatchException
  BY <1>4 DEF ScreenTicket, StartOrchestration, Gate, AskAboutTicket, GateAnswers, GateRaises,
              ApprovedTicketStarts, EscalateTicket, RecordSuccess, HandleFailure, CloseRun,
              CatchException
<1>5. CASE OrchestratorStops \/ OrchestratorRaises \/ WriteArtifacts \/ EscapeUnwritten \/ Interrupt
  BY <1>5 DEF OrchestratorStops, OrchestratorRaises, WriteArtifacts, EscapeUnwritten, Interrupt,
              CutOff
<1>6. CASE UNCHANGED vars
  BY <1>6 DEF vars, runVars
<1>7. QED
  BY <1>1, <1>2, <1>3, <1>4, <1>5, <1>6 DEF Next, RunIsOver

\* The revision limit holds even of a run whose tracing fails, in which drafts and
\* revisions fall out of step (apply_qa, max_agent_revisions).
THEOREM RevisionLimit == Spec => [](revisionCount <= MaxRevisions)
<1>1. Init => revisionCount <= MaxRevisions
  BY BudgetsAssumption DEF Init, KernelInit
<1>2. TypeOK /\ revisionCount <= MaxRevisions /\ [Next]_vars => (revisionCount <= MaxRevisions)'
  BY RevisionsCount, BudgetsAssumption DEF TypeOK, KernelTypeOK
<1>3. QED
  BY <1>1, <1>2, Invariance, PTL DEF Spec
=============================================================================
