-------------------------- MODULE UndisturbedProofs --------------------------
(***************************************************************************)
(* What holds of Orchestrator.tla only while tracing does not raise; TLC   *)
(* refutes each of these theorems on a small instance with IOFaults.       *)
(* SafeGate is weaker than ~IOFaults: losing the operator's answer takes a *)
(* failing trace and a restricted reason at triage.                        *)
(***************************************************************************)
EXTENDS OrchestratorProofs, FiniteSetTheorems

\* No denial can be lost between the operator and the run.
SafeGate == ~IOFaults \/ ClassificationReasons \cap RestrictedReasons = {}

-----------------------------------------------------------------------------
(* The human gate.                                                         *)

\* A new run has asked nothing.
LEMMA GateInit == Init => GateInv
BY DEF Init, KernelInit, GateInv, Worked, NoReason, RestrictedReasons

\* Restricted reasons are reasons, so a request about one is no NoRequest.
LEMMA RequestsAreRequests ==
  ASSUME NEW r, r.reason \in RestrictedReasons
  PROVE  r # NoRequest
BY DEF RestrictedReasons, NoRequest, NoReason

\* With a safe gate, every step respects the operator's answer.
LEMMA GateStep ==
  ASSUME TypeOK, IInv, GateInv, SafeGate, [Next]_vars
  PROVE  GateInv'
<1> USE DEF GateInv, IInv, ThreadInv, kernelVars, outputVars, routingVars, recordVars,
            TerminalStatuses, Worked
<1>1. CASE ScreenTicket
  BY <1>1, TransitionMoves DEF ScreenTicket
<1>2. CASE StartOrchestration
  BY <1>2, ReasonsAreReasons DEF StartOrchestration, EscalationReason
<1>3. CASE Gate
  <2>1. CASE AskAboutTicket
    BY <2>1 DEF AskAboutTicket, AskHuman
  <2>2. CASE GateAnswers
    <3>1. PICK approved \in Answers, cut \in Cuts \ {"early"} :
            /\ humanApproval' = [reason |-> request.reason, approved |-> approved]
            /\ currentState' = request.previous
            /\ phase' = IF cut = "none" THEN "decided"
                        ELSE IF active = Nobody THEN "caught" ELSE "raised"
      BY <2>2 DEF GateAnswers
    <3>2. phase' \in {"decided", "caught"}
      BY <2>2, <3>1 DEF GateAnswers, Cuts, SafeGate
    <3>3. request # NoRequest
      BY <2>2, RequestsAreRequests DEF GateAnswers
    <3>4. QED
      BY <2>2, <3>1, <3>2, <3>3 DEF GateAnswers
  <2>3. CASE GateRaises
    BY <2>3 DEF GateRaises, SafeGate
  <2>4. CASE ApprovedTicketStarts
    BY <2>4 DEF ApprovedTicketStarts, TypeOK, KernelTypeOK
  <2>5. QED
    BY <1>3, <2>1, <2>2, <2>3, <2>4 DEF Gate
<1>4. CASE EscalateTicket
  BY <1>4, TerminateMoves DEF EscalateTicket, Escalate
<1>5. CASE ModelTurn
  <2>1. CASE InspectWorkflowState \/ RejectFinalize
    BY <2>1 DEF InspectWorkflowState, RejectFinalize, Turn
  <2>2. CASE \E s \in Specialists : Delegate(s) \/ RejectDelegation(s)
    BY <2>2 DEF Delegate, RejectDelegation, Turn
  <2>3. CASE FinalizeWorkflow
    BY <2>3, TransitionMoves
       DEF FinalizeWorkflow, Turn, FinalizeEscalated, FinalizeDocumented
  <2>4. QED
    BY <1>5, <2>1, <2>2, <2>3 DEF ModelTurn
<1>6. CASE SpecialistEnds
  <2> USE DEF RunnerUnchanged
  <2>1. CASE TriageAsksHuman
    BY <2>1 DEF TriageAsksHuman, AskHuman
  <2>2. CASE TriageResumes
    <3>1. PICK cut \in Cuts \ {"early"} :
            Applied(RouteOrEscalate("triaged", IF humanApproval.approved THEN NoReason
                                               ELSE request.reason), cut)
      BY <2>2 DEF TriageResumes
    <3>2. CASE humanApproval.approved
      BY <2>2, <3>1, <3>2 DEF TriageResumes, Applied, TypeOK, KernelTypeOK
    <3>3. CASE ~humanApproval.approved
      <4>1. currentState' = "escalated"
        BY <2>2, <3>1, <3>3, RouteMoves DEF TriageResumes, Applied, RestrictedReasons, NoReason
      <4>2. QED
        BY <2>2, <3>1, <4>1 DEF TriageResumes, Applied
    <3>4. QED
      BY <3>2, <3>3
  <2>3. CASE \/ SpecialistFails \/ TriageReturns \/ ResearchReturns \/ SupportReturns
            \/ QAReturns \/ DocumentationReturns
    <3>1. phase = "specialist" /\ phase' \in {"applied", "raised"}
      BY <2>3 DEF SpecialistFails, TriageReturns, ResearchReturns, SupportReturns, QAReturns,
                  DocumentationReturns, Running, Applied
    <3>2. UNCHANGED <<screening, request, humanApproval>>
      BY <2>3 DEF SpecialistFails, TriageReturns, ResearchReturns, SupportReturns, QAReturns,
                  DocumentationReturns, Applied
    <3>3. currentState \notin TerminalStatuses
      BY <3>1 DEF RequiredStates, Specialists
    <3>4. QED
      BY <3>1, <3>2, <3>3
  <2>4. QED
    BY <1>6, <2>1, <2>2, <2>3 DEF SpecialistEnds
<1>7. CASE RecordSuccess
  BY <1>7 DEF RecordSuccess, BackToModel
<1>8. CASE HandleFailure
  BY <1>8, TerminateMoves DEF HandleFailure, Escalate, BackToModel
<1>9. CASE CloseRun
  BY <1>9, TerminateMoves DEF CloseRun, Fail
<1>10. CASE CatchException
  BY <1>10, TerminateMoves DEF CatchException, Fail
<1>11. CASE OrchestratorStops \/ OrchestratorRaises \/ WriteArtifacts \/ EscapeUnwritten \/ Interrupt
  BY <1>11 DEF OrchestratorStops, OrchestratorRaises, WriteArtifacts, EscapeUnwritten, Interrupt,
              CutOff
<1>12. CASE UNCHANGED vars
  BY <1>12 DEF vars, runVars
<1>13. QED
  BY <1>1, <1>2, <1>3, <1>4, <1>5, <1>6, <1>7, <1>8, <1>9, <1>10, <1>11, <1>12
     DEF Next, RunIsOver

\* No restricted ticket is worked on without the operator's yes to that very question
\* (_handle_prescreen_escalation, apply_triage).
THEOREM RestrictedWork ==
  ASSUME SafeGate
  PROVE  Spec => []RestrictedWorkIsApproved
<1>1. SafeGate /\ TypeOK /\ IInv /\ GateInv /\ [Next]_vars => GateInv'
  BY GateStep
<1>2. GateInv => RestrictedWorkIsApproved
  BY DEF GateInv, RestrictedWorkIsApproved, Worked, TerminalStatuses
<1>3. QED
  BY <1>1, <1>2, GateInit, Invariance, SafeGate, PTL DEF Spec

-----------------------------------------------------------------------------
(* The revision loop, and the reason of an escalation.                     *)

\* A new run has no draft and no revision.
LEMMA UndisturbedInit == Init => UndisturbedInv
BY BudgetsAssumption DEF Init, KernelInit, UndisturbedInv

\* Tracing that does not raise cuts no handler short.
LEMMA NoCuts ==
  ASSUME ~IOFaults
  PROVE  Cuts = {"none"}
BY DEF Cuts

\* QA's three routes, with the revision count.
LEMMA RouteQACounts ==
  ASSUME TypeOK, currentState = "drafted", NEW decision, NEW reason, RouteQA(decision, reason)
  PROVE  \/ /\ currentState' \in {"qa_approved", "escalated"}
            /\ revisionCount' = revisionCount
         \/ /\ currentState' = "qa_revision_requested"
            /\ revisionCount < MaxRevisions
            /\ revisionCount' = revisionCount + 1
BY TransitionMoves, TerminateMoves, RouteMoves
   DEF RouteQA, Escalate, TerminalStatuses

\* Without tracing failures, every step keeps drafts and revisions in step.
LEMMA UndisturbedStep ==
  ASSUME TypeOK, IInv, UndisturbedInv, ~IOFaults, [Next]_vars
  PROVE  UndisturbedInv'
<1> USE DEF UndisturbedInv, IInv, ThreadInv, kernelVars, outputVars, routingVars, recordVars,
            TerminalStatuses
<1>0. revisionCount \in Nat /\ supportDraft \in Nat /\ MaxRevisions \in Nat
  BY BudgetsAssumption DEF TypeOK, KernelTypeOK
<1>1. CASE ScreenTicket
  BY <1>1, TransitionMoves DEF ScreenTicket
<1>2. CASE StartOrchestration
  BY <1>2 DEF StartOrchestration
<1>3. CASE Gate
  <2>1. CASE AskAboutTicket
    BY <2>1 DEF AskAboutTicket, AskHuman
  <2>2. CASE GateAnswers
    BY <2>2 DEF GateAnswers, Cuts
  <2>3. CASE GateRaises \/ ApprovedTicketStarts
    BY <2>3 DEF GateRaises, ApprovedTicketStarts
  <2>4. QED
    BY <1>3, <2>1, <2>2, <2>3 DEF Gate
<1>4. CASE EscalateTicket
  BY <1>4, TerminateMoves DEF EscalateTicket, Escalate
<1>5. CASE ModelTurn
  <2>1. CASE InspectWorkflowState \/ RejectFinalize
    BY <2>1 DEF InspectWorkflowState, RejectFinalize, Turn
  <2>2. CASE \E s \in Specialists : Delegate(s) \/ RejectDelegation(s)
    BY <2>2 DEF Delegate, RejectDelegation, Turn
  <2>3. CASE FinalizeWorkflow
    BY <2>3, TransitionMoves
       DEF FinalizeWorkflow, Turn, FinalizeEscalated, FinalizeDocumented
  <2>4. QED
    BY <1>5, <2>1, <2>2, <2>3 DEF ModelTurn
<1>6. CASE SpecialistEnds
  <2> USE DEF RunnerUnchanged
  <2>1. CASE SpecialistFails
    BY <2>1 DEF SpecialistFails, SettlingInv
  <2>2. CASE TriageReturns
    <3>1. PICK reason \in (ClassificationReasons \ RestrictedReasons) \cup {NoReason} :
            RouteOrEscalate("triaged", reason) /\ phase' = "applied"
      BY <2>2, NoCuts DEF TriageReturns, Applied
    <3>2. currentState = "validated"
      BY <2>2 DEF TriageReturns, Running, RequiredStates
    <3>3. currentState' \in {"triaged", "escalated"} /\ revisionCount' = revisionCount
      BY <3>1, <3>2, RouteMoves
    <3>4. QED
      BY <2>2, <3>1, <3>2, <3>3 DEF TriageReturns, HydrateOnly
  <2>3. CASE TriageAsksHuman
    BY <2>3 DEF TriageAsksHuman, HydrateOnly, AskHuman, Running, RequiredStates
  <2>4. CASE TriageResumes
    <3>1. /\ RouteOrEscalate("triaged", IF humanApproval.approved THEN NoReason ELSE request.reason)
          /\ phase' = "applied"
      BY <2>4, NoCuts DEF TriageResumes, Applied
    <3>2. currentState = "validated"
      BY <2>4 DEF TriageResumes
    <3>3. currentState' \in {"triaged", "escalated"} /\ revisionCount' = revisionCount
      BY <3>1, <3>2, RouteMoves
    <3>4. QED
      BY <2>4, <3>1, <3>2, <3>3 DEF TriageResumes
  <2>5. CASE ResearchReturns
    <3>1. PICK reason \in {NoReason, "insufficient_evidence", "conflicting_evidence"} :
            RouteOrEscalate("researched", reason) /\ phase' = "applied"
      BY <2>5, NoCuts DEF ResearchReturns, Applied
    <3>2. currentState = "triaged"
      BY <2>5 DEF ResearchReturns, Running, RequiredStates
    <3>3. currentState' \in {"researched", "escalated"} /\ revisionCount' = revisionCount
      BY <3>1, <3>2, RouteMoves
    <3>4. QED
      BY <2>5, <3>1, <3>2, <3>3 DEF ResearchReturns, HydrateOnly
  <2>6. CASE SupportReturns
    <3>1. RouteOrEscalate("drafted", NoReason) /\ phase' = "applied"
      BY <2>6, NoCuts DEF SupportReturns, Applied
    <3>2. currentState \in {"researched", "qa_revision_requested"}
      BY <2>6 DEF SupportReturns, Running, RequiredStates
    <3>3. currentState' = "drafted" /\ revisionCount' = revisionCount
      BY <3>1, <3>2, RouteMoves
    <3>4. QED
      BY <1>0, <2>6, <3>1, <3>2, <3>3 DEF SupportReturns, HydrateSupport
  <2>7. CASE QAReturns
    <3>1. PICK decision \in Decisions, reason \in QAReasons :
            HydrateQA(decision) /\ RouteQA(decision, reason) /\ phase' = "applied"
      BY <2>7, NoCuts DEF QAReturns, Applied
    <3>2. currentState = "drafted"
      BY <2>7 DEF QAReturns, Running, RequiredStates
    <3>3. QED
      BY <1>0, <3>1, <3>2, RouteQACounts DEF HydrateQA
  <2>8. CASE DocumentationReturns
    <3>1. RouteOrEscalate("documented", NoReason) /\ phase' = "applied"
      BY <2>8, NoCuts DEF DocumentationReturns, Applied
    <3>2. currentState = "qa_approved"
      BY <2>8 DEF DocumentationReturns, Running, RequiredStates
    <3>3. currentState' = "documented" /\ revisionCount' = revisionCount
      BY <3>1, <3>2, RouteMoves
    <3>4. QED
      BY <2>8, <3>1, <3>3 DEF DocumentationReturns, HydrateDocumentation
  <2>9. QED
    BY <1>6, <2>1, <2>2, <2>3, <2>4, <2>5, <2>6, <2>7, <2>8 DEF SpecialistEnds
<1>7. CASE RecordSuccess
  BY <1>7 DEF RecordSuccess, BackToModel
<1>8. CASE HandleFailure
  BY <1>8, TerminateMoves DEF HandleFailure, Escalate, BackToModel
<1>9. CASE CloseRun
  BY <1>9, TerminateMoves DEF CloseRun, Fail
<1>10. CASE CatchException
  BY <1>10, TerminateMoves DEF CatchException, Fail
<1>11. CASE OrchestratorStops \/ OrchestratorRaises \/ WriteArtifacts \/ EscapeUnwritten \/ Interrupt
  BY <1>11 DEF OrchestratorStops, OrchestratorRaises, WriteArtifacts, EscapeUnwritten, Interrupt,
              CutOff
<1>12. CASE UNCHANGED vars
  BY <1>12 DEF vars, runVars
<1>13. QED
  BY <1>1, <1>2, <1>3, <1>4, <1>5, <1>6, <1>7, <1>8, <1>9, <1>10, <1>11, <1>12
     DEF Next, RunIsOver

\* The two invariants of an undisturbed run.
LEMMA Undisturbed ==
  ASSUME ~IOFaults
  PROVE  Spec => [](TypeOK /\ IInv /\ UndisturbedInv)
<1>1. ~IOFaults /\ TypeOK /\ IInv /\ UndisturbedInv /\ [Next]_vars => UndisturbedInv'
  BY UndisturbedStep
<1>2. QED
  BY <1>1, UndisturbedInit, Invariance, PTL DEF Spec

\* The revision loop is bounded and each redraft answers one request (apply_qa).
THEOREM RevisionLoop ==
  ASSUME ~IOFaults
  PROVE  Spec => []DraftsMatchRevisions
<1>1. UndisturbedInv => DraftsMatchRevisions
  BY DEF UndisturbedInv, DraftsMatchRevisions
<1>2. QED
  BY <1>1, Undisturbed, PTL

\* Escalate is only reached by a run without a reason.
LEMMA ReasonStays ==
  ASSUME TypeOK, IInv, UndisturbedInv, [Next]_vars, escalation # NoReason
  PROVE  escalation' = escalation
<1> USE DEF IInv, SettlingInv, UndisturbedInv, kernelVars, outputVars, routingVars, recordVars
<1>1. phase \notin {"screening", "screened", "awaiting", "decided", "specialist", "raised"}
  OBVIOUS
<1>2. CASE ScreenTicket \/ StartOrchestration \/ Gate \/ EscalateTicket \/ SpecialistEnds \/ HandleFailure
  BY <1>1, <1>2
     DEF ScreenTicket, StartOrchestration, Gate, AskAboutTicket, GateAnswers, GateRaises,
         ApprovedTicketStarts, EscalateTicket, SpecialistEnds, SpecialistFails, Running,
         TriageReturns, TriageAsksHuman, TriageResumes, ResearchReturns, SupportReturns,
         QAReturns, DocumentationReturns, HandleFailure
<1>3. CASE ModelTurn
  BY <1>3 DEF ModelTurn, InspectWorkflowState, Delegate, RejectDelegation, FinalizeWorkflow,
              RejectFinalize
<1>4. CASE RecordSuccess \/ CloseRun \/ CatchException
  BY <1>4 DEF RecordSuccess, CloseRun, CatchException
<1>5. CASE OrchestratorStops \/ OrchestratorRaises \/ WriteArtifacts \/ EscapeUnwritten \/ Interrupt
  BY <1>5 DEF OrchestratorStops, OrchestratorRaises, WriteArtifacts, EscapeUnwritten, Interrupt,
              CutOff
<1>6. CASE UNCHANGED vars
  BY <1>6 DEF vars, runVars
<1>7. QED
  BY <1>2, <1>3, <1>4, <1>5, <1>6 DEF Next, RunIsOver

\* The reason a run was escalated for is never replaced (escalate).
THEOREM ReasonKept ==
  ASSUME ~IOFaults
  PROVE  Spec => ReasonIsFinal
<1>1. TypeOK /\ IInv /\ UndisturbedInv /\ [Next]_vars
        => [escalation # NoReason => escalation' = escalation]_vars
  BY ReasonStays
<1>2. QED
  BY <1>1, Undisturbed, PTL DEF Spec, ReasonIsFinal

-----------------------------------------------------------------------------
(* The delegation log.                                                     *)

\* The successes of a log are finitely many, and the place of none is past their number.
LEMMA PlacesBounded ==
  ASSUME TypeOK
  PROVE  /\ IsFiniteSet(Succeeded)
         /\ Cardinality(Succeeded) \in Nat
         /\ \A i : Place(i) \in Nat /\ Place(i) <= Cardinality(Succeeded)
<1>1. /\ Len(delegations) \in Nat
      /\ DOMAIN delegations = 1 .. Len(delegations)
  BY DEF TypeOK, KernelTypeOK
<1>2. IsFiniteSet(1 .. Len(delegations))
  BY <1>1, FS_Interval
<1>3. IsFiniteSet(Succeeded) /\ Cardinality(Succeeded) \in Nat
  BY <1>1, <1>2, FS_Subset, FS_CardinalityType DEF Succeeded
<1>4. ASSUME NEW i
      PROVE  Place(i) \in Nat /\ Place(i) <= Cardinality(Succeeded)
  <2>1. {j \in Succeeded : j <= i} \subseteq Succeeded
    OBVIOUS
  <2>2. QED
    BY <1>3, <2>1, FS_Subset, FS_CardinalityType DEF Place
<1>5. QED
  BY <1>3, <1>4

\* Recording a delegation leaves the entries before it, and their places, as they were.
LEMMA PlacesStay ==
  ASSUME TypeOK, NEW s \in Specialists, NEW status \in {"succeeded", "failed"},
         RecordDelegation(s, status)
  PROVE  /\ Succeeded' = IF status = "succeeded" THEN Succeeded \cup {Len(delegations) + 1}
                         ELSE Succeeded
         /\ Len(delegations) + 1 \notin Succeeded
         /\ delegations'[Len(delegations) + 1].specialist = s
         /\ \A i \in Succeeded :
              delegations'[i] = delegations[i] /\ Place(i)' = Place(i)
<1> DEFINE entry == [specialist |-> s, status |-> status]
           new   == Len(delegations) + 1
<1>1. /\ delegations \in Seq([specialist : Specialists, status : {"succeeded", "failed"}])
      /\ delegations' = Append(delegations, entry)
      /\ entry \in [specialist : Specialists, status : {"succeeded", "failed"}]
  BY DEF TypeOK, KernelTypeOK, RecordDelegation
<1>2. /\ Len(delegations) \in Nat
      /\ DOMAIN delegations = 1 .. Len(delegations)
      /\ DOMAIN delegations' = 1 .. new
      /\ delegations'[new] = entry
      /\ \A i \in 1 .. Len(delegations) : delegations'[i] = delegations[i]
  BY <1>1
<1>3. Succeeded' = {i \in 1 .. new : delegations'[i].status = "succeeded"}
  BY <1>2 DEF Succeeded
<1>4. Succeeded' = IF status = "succeeded" THEN Succeeded \cup {new} ELSE Succeeded
  BY <1>2, <1>3 DEF Succeeded
<1>5. new \notin Succeeded
  BY <1>2 DEF Succeeded
<1>6. ASSUME NEW i \in Succeeded
      PROVE  delegations'[i] = delegations[i] /\ Place(i)' = Place(i)
  <2>1. i \in 1 .. Len(delegations)
    BY <1>2 DEF Succeeded
  <2>2. {j \in Succeeded' : j <= i} = {j \in Succeeded : j <= i}
    BY <1>2, <1>4, <2>1 DEF Succeeded
  <2>3. QED
    BY <1>2, <2>1, <2>2 DEF Place
<1>7. QED
  BY <1>2, <1>4, <1>5, <1>6

\* A recorded success takes the next place.
LEMMA SuccessTakesNextPlace ==
  ASSUME TypeOK, NEW s \in Specialists, RecordDelegation(s, "succeeded"),
         NEW n, n = Len(delegations) + 1
  PROVE  /\ Cardinality(Succeeded)' = Cardinality(Succeeded) + 1
         /\ Place(n)' = Cardinality(Succeeded) + 1
<1>1. Succeeded' = Succeeded \cup {n} /\ n \notin Succeeded
  BY PlacesStay
<1>2. Cardinality(Succeeded') = Cardinality(Succeeded) + 1
  BY <1>1, PlacesBounded, FS_AddElement
<1>3. \A j \in Succeeded' : j <= n
  <2>1. \A j \in Succeeded : j \in 1 .. Len(delegations)
    BY DEF Succeeded, TypeOK, KernelTypeOK
  <2>2. Len(delegations) \in Nat
    BY DEF TypeOK, KernelTypeOK
  <2>3. QED
    BY <1>1, <2>1, <2>2
<1>4. {j \in Succeeded' : j <= n} = Succeeded'
  BY <1>3
<1>5. QED
  BY <1>2, <1>4 DEF Place

\* A new run has logged nothing.
LEMMA LogInit == Init => LogInv
<1> SUFFICES ASSUME Init PROVE LogInv
  OBVIOUS
<1>1. Succeeded = {}
  BY DEF Init, KernelInit, Succeeded
<1>2. Cardinality(Succeeded) = 0
  BY <1>1, FS_EmptySet
<1>3. QED
  BY <1>1, <1>2 DEF Init, KernelInit, LogInv, Done

\* What belongs in a place before the last does not depend on how many revisions follow.
LEMMA StagesStay ==
  ASSUME TypeOK, NEW k \in Nat, k < FullLength, revisionCount' \in Nat,
         revisionCount <= revisionCount'
  PROVE  Stage(k)' = Stage(k)
BY DEF TypeOK, KernelTypeOK, Stage, FullLength

\* Where the log stands is not touched by a step that neither records nor routes past a
\* place of the pipeline.
LEMMA LogStands ==
  ASSUME LogInv, UNCHANGED <<revisionCount, delegations>>, phase' # "applied",
         phase \notin {"applied", "escaped"},
         \/ currentState' = currentState
         \/ {currentState, currentState'} \subseteq {"received", "validated", "awaiting_human_approval"}
         \/ currentState = "documented" /\ currentState' = "completed"
  PROVE  LogInv'
BY DEF LogInv, Done, Succeeded, Place, Stage, FullLength

\* Out of the pipeline the log need not be in order any more.
LEMMA LogLeft ==
  ASSUME currentState' \in {"escalated", "failed"}
  PROVE  LogInv'
BY DEF LogInv

\* Drafts stand in the odd places from the third on, reviews in the even ones.
LEMMA Parity ==
  ASSUME NEW r \in Nat
  PROVE  (3 + 2 * r) % 2 = 1 /\ (4 + 2 * r) % 2 = 0
OBVIOUS

\* Each specialist's result moves the run on by the place that is the specialist's.
LEMMA LogRoutes ==
  ASSUME TypeOK, UndisturbedInv, LogInv, phase \notin {"applied", "escaped"}, phase' = "applied",
         UNCHANGED <<delegations, active>>,
         \/ /\ active = "triage" /\ currentState = "validated" /\ currentState' = "triaged"
            /\ revisionCount' = revisionCount
         \/ /\ active = "research" /\ currentState = "triaged" /\ currentState' = "researched"
            /\ revisionCount' = revisionCount
         \/ /\ active = "support" /\ currentState \in {"researched", "qa_revision_requested"}
            /\ currentState' = "drafted" /\ revisionCount' = revisionCount
         \/ /\ active = "qa" /\ currentState = "drafted" /\ currentState' = "qa_approved"
            /\ revisionCount' = revisionCount
         \/ /\ active = "qa" /\ currentState = "drafted"
            /\ currentState' = "qa_revision_requested" /\ revisionCount' = revisionCount + 1
         \/ /\ active = "documentation" /\ currentState = "qa_approved"
            /\ currentState' = "documented" /\ revisionCount' = revisionCount
  PROVE  LogInv'
<1> DEFINE count == Cardinality(Succeeded)
<1>1. /\ Succeeded' = Succeeded
      /\ Done = count
      /\ Done' = count + 1
      /\ count \in Nat
      /\ revisionCount \in Nat
      /\ \A i \in Succeeded : Place(i)' = Place(i) /\ Place(i) \in Nat /\ Place(i) <= count
  <2>1. Succeeded' = Succeeded
    BY DEF Succeeded
  <2>2. ASSUME NEW i PROVE Place(i)' = Place(i)
    BY <2>1 DEF Place
  <2>3. Done = count /\ Done' = count + 1
    BY <2>1, PlacesBounded DEF Done
  <2>4. QED
    BY <2>1, <2>2, <2>3, PlacesBounded DEF TypeOK, KernelTypeOK
<1>2. /\ count < FullLength
      /\ revisionCount' \in Nat /\ revisionCount <= revisionCount'
  BY <1>1 DEF LogInv, FullLength
<1>3. \A i \in Succeeded : delegations'[i].specialist = Stage(Place(i))'
  <2>1. ASSUME NEW i \in Succeeded
        PROVE  delegations'[i].specialist = Stage(Place(i))'
    <3>1. PICK k \in Nat : k = Place(i) /\ k < FullLength
      BY <1>1, <1>2 DEF FullLength
    <3>2. Stage(k)' = Stage(k)
      BY <1>2, <3>1, StagesStay
    <3>3. delegations[i].specialist = Stage(k)
      BY <3>1 DEF LogInv
    <3>4. Place(i)' = k
      BY <1>1, <3>1
    <3>5. QED
      BY <3>2, <3>3, <3>4 DEF Stage
  <2>2. QED
    BY <2>1
<1>4. /\ currentState' = "triaged" => Done' = 1
      /\ currentState' = "researched" => Done' = 2 /\ revisionCount' = 0
      /\ currentState' = "qa_revision_requested" => Done' = 2 + 2 * revisionCount'
      /\ currentState' = "drafted" => Done' = 3 + 2 * revisionCount'
      /\ currentState' = "qa_approved" => Done' = 4 + 2 * revisionCount'
      /\ currentState' = "documented" => Done' = FullLength'
  <2>1. /\ currentState \in {"validated", "triaged", "researched"} => revisionCount = 0
        /\ currentState = "validated" => Done = 0
        /\ currentState = "triaged" => Done = 1
        /\ currentState \in {"researched", "qa_revision_requested"} => Done = 2 + 2 * revisionCount
        /\ currentState = "drafted" => Done = 3 + 2 * revisionCount
        /\ currentState = "qa_approved" => Done = 4 + 2 * revisionCount
    BY DEF LogInv, UndisturbedInv
  <2>2. QED
    BY <1>1, <2>1 DEF FullLength
<1>5. active' = Stage(Done)'
  <2>1. CASE active \in {"triage", "research", "documentation"}
    BY <1>1, <1>2, <1>4, <2>1 DEF Stage, FullLength
  <2>2. CASE active = "support"
    BY <1>1, <1>2, <1>4, <2>2, Parity DEF Stage, FullLength
  <2>3. CASE active = "qa"
    <3>1. Done' = 4 + 2 * revisionCount
      BY <1>1, <2>3 DEF LogInv
    <3>2. Done' % 2 = 0 /\ Done' < FullLength' /\ Done' > 2
      BY <1>1, <1>2, <3>1, Parity DEF FullLength
    <3>3. QED
      BY <1>1, <2>3, <3>2 DEF Stage
  <2>4. QED
    BY <2>1, <2>2, <2>3
<1>6. \A i \in Succeeded' : delegations'[i].specialist = Stage(Place(i))'
  BY <1>1, <1>3
<1>7. currentState' \in {"triaged", "researched", "drafted", "qa_approved",
                         "qa_revision_requested", "documented"}
  OBVIOUS
<1>8. QED
  BY <1>4, <1>5, <1>6, <1>7 DEF LogInv

\* Recording the success moves it from the thread into the log.
LEMMA LogRecords ==
  ASSUME TypeOK, IInv, LogInv, RecordSuccess
  PROVE  LogInv'
<1>1. /\ phase = "applied" /\ phase' = "orchestrating"
      /\ active \in Specialists
      /\ RecordDelegation(active, "succeeded")
      /\ UNCHANGED <<currentState, revisionCount>>
  BY DEF RecordSuccess, BackToModel, routingVars, IInv, ThreadInv
<1>2. PICK n : n = Len(delegations) + 1
  OBVIOUS
<1>3. /\ Cardinality(Succeeded)' = Cardinality(Succeeded) + 1
      /\ Place(n)' = Cardinality(Succeeded) + 1
  BY <1>1, <1>2, SuccessTakesNextPlace
<1>4. /\ Succeeded' = Succeeded \cup {n}
      /\ delegations'[n].specialist = active
      /\ \A i \in Succeeded : delegations'[i] = delegations[i] /\ Place(i)' = Place(i)
  BY <1>1, <1>2, PlacesStay
<1>5. Done' = Done /\ Done = Cardinality(Succeeded) + 1
  BY <1>1, <1>3, PlacesBounded DEF Done
<1>6. CASE currentState \in {"escalated", "failed"}
  BY <1>1, <1>6 DEF LogInv
<1>7. CASE currentState \notin {"escalated", "failed"}
  <2>1. \A k : Stage(k)' = Stage(k)
    BY <1>1 DEF Stage, FullLength
  <2>2. \A i \in Succeeded : delegations[i].specialist = Stage(Place(i))
    BY <1>1, <1>7 DEF LogInv
  <2>3. active = Stage(Done)
    BY <1>1, <1>7 DEF LogInv
  <2>4. ASSUME NEW i \in Succeeded'
        PROVE  delegations'[i].specialist = Stage(Place(i))'
    <3>1. CASE i \in Succeeded
      <4>1. Stage(Place(i))' = Stage(Place(i))
        BY <1>4, <2>1, <3>1
      <4>2. QED
        BY <1>4, <2>2, <3>1, <4>1
    <3>2. CASE i = n
      <4>1. Stage(Place(i))' = Stage(Done)
        BY <1>3, <1>5, <2>1, <3>2
      <4>2. QED
        BY <1>4, <2>3, <3>2, <4>1
    <3>3. QED
      BY <1>4, <3>1, <3>2
  <2>5. FullLength' = FullLength
    BY <1>1 DEF FullLength
  <2>6. QED
    BY <1>1, <1>5, <2>4, <2>5 DEF LogInv
<1>8. QED
  BY <1>6, <1>7

\* A failure is recorded beside the successes, without taking a place among them.
LEMMA LogPasses ==
  ASSUME TypeOK, IInv, LogInv, ~IOFaults, HandleFailure
  PROVE  LogInv'
<1>1. /\ phase = "raised" /\ phase' = "orchestrating"
      /\ active \in Specialists
      /\ RecordDelegation(active, "failed")
      /\ \/ Escalate("agent_execution_failure")
         \/ UNCHANGED <<currentState, revisionCount>>
  BY DEF HandleFailure, BackToModel, routingVars, IInv, ThreadInv
<1>2. CASE Escalate("agent_execution_failure")
  <2>1. currentState \notin {"completed", "failed"}
    BY <1>1 DEF IInv, SettlingInv
  <2>2. currentState' = "escalated"
    BY <1>2, <2>1, TerminateMoves DEF Escalate, TerminalStatuses
  <2>3. QED
    BY <2>2, LogLeft
<1>3. CASE UNCHANGED <<currentState, revisionCount>>
  <2>1. /\ Succeeded' = Succeeded
        /\ \A i \in Succeeded : delegations'[i] = delegations[i] /\ Place(i)' = Place(i)
    BY <1>1, PlacesStay
  <2>2. Done' = Done /\ FullLength' = FullLength /\ \A k : Stage(k)' = Stage(k)
    BY <1>1, <1>3, <2>1 DEF Done, FullLength, Stage
  <2>3. \A i \in Succeeded : Stage(Place(i))' = Stage(Place(i))
    BY <2>1, <2>2
  <2>4. QED
    BY <1>1, <1>3, <2>1, <2>2, <2>3 DEF LogInv
<1>4. QED
  BY <1>1, <1>2, <1>3

\* Without tracing failures, every step keeps the log in step with the pipeline.
LEMMA LogStep ==
  ASSUME TypeOK, IInv, UndisturbedInv, LogInv, ~IOFaults, [Next]_vars
  PROVE  LogInv'
<1> USE DEF IInv, ThreadInv, kernelVars, outputVars, routingVars, recordVars, TerminalStatuses
<1>1. CASE ScreenTicket
  BY <1>1, TransitionMoves, LogStands DEF ScreenTicket
<1>2. CASE StartOrchestration
  BY <1>2, LogStands DEF StartOrchestration
<1>3. CASE Gate
  <2>1. CASE AskAboutTicket
    BY <2>1, LogStands DEF AskAboutTicket, AskHuman
  <2>2. CASE GateAnswers
    BY <2>2, LogStands DEF GateAnswers
  <2>3. CASE GateRaises \/ ApprovedTicketStarts
    BY <2>3, LogStands DEF GateRaises, ApprovedTicketStarts
  <2>4. QED
    BY <1>3, <2>1, <2>2, <2>3 DEF Gate
<1>4. CASE EscalateTicket
  BY <1>4, TerminateMoves, LogLeft DEF EscalateTicket, Escalate
<1>5. CASE ModelTurn
  <2>1. CASE InspectWorkflowState \/ RejectFinalize
    BY <2>1, LogStands DEF InspectWorkflowState, RejectFinalize, Turn
  <2>2. CASE \E s \in Specialists : Delegate(s) \/ RejectDelegation(s)
    BY <2>2, LogStands DEF Delegate, RejectDelegation, Turn
  <2>3. CASE FinalizeWorkflow
    BY <2>3, TransitionMoves, LogStands
       DEF FinalizeWorkflow, Turn, FinalizeEscalated, FinalizeDocumented
  <2>4. QED
    BY <1>5, <2>1, <2>2, <2>3 DEF ModelTurn
<1>6. CASE SpecialistEnds
  <2> USE DEF RunnerUnchanged
  <2>1. CASE SpecialistFails
    BY <2>1, LogStands DEF SpecialistFails
  <2>2. CASE TriageReturns
    <3>1. PICK reason \in (ClassificationReasons \ RestrictedReasons) \cup {NoReason} :
            RouteOrEscalate("triaged", reason) /\ phase' = "applied"
      BY <2>2, NoCuts DEF TriageReturns, Applied
    <3>2. currentState = "validated" /\ active = "triage" /\ phase = "specialist"
      BY <2>2 DEF TriageReturns, Running, RequiredStates
    <3>3. currentState' \in {"triaged", "escalated"} /\ revisionCount' = revisionCount
      BY <3>1, <3>2, RouteMoves
    <3>4. UNCHANGED <<delegations, active>>
      BY <2>2 DEF TriageReturns
    <3>5. QED
      BY <3>1, <3>2, <3>3, <3>4, LogRoutes, LogLeft
  <2>3. CASE TriageAsksHuman
    BY <2>3, LogStands DEF TriageAsksHuman, AskHuman, Running, RequiredStates
  <2>4. CASE TriageResumes
    <3>1. /\ RouteOrEscalate("triaged", IF humanApproval.approved THEN NoReason ELSE request.reason)
          /\ phase' = "applied"
      BY <2>4, NoCuts DEF TriageResumes, Applied
    <3>2. currentState = "validated" /\ active = "triage" /\ phase = "decided"
      BY <2>4 DEF TriageResumes
    <3>3. currentState' \in {"triaged", "escalated"} /\ revisionCount' = revisionCount
      BY <3>1, <3>2, RouteMoves
    <3>4. UNCHANGED <<delegations, active>>
      BY <2>4 DEF TriageResumes
    <3>5. QED
      BY <3>1, <3>2, <3>3, <3>4, LogRoutes, LogLeft
  <2>5. CASE ResearchReturns
    <3>1. PICK reason \in {NoReason, "insufficient_evidence", "conflicting_evidence"} :
            RouteOrEscalate("researched", reason) /\ phase' = "applied"
      BY <2>5, NoCuts DEF ResearchReturns, Applied
    <3>2. currentState = "triaged" /\ active = "research" /\ phase = "specialist"
      BY <2>5 DEF ResearchReturns, Running, RequiredStates
    <3>3. currentState' \in {"researched", "escalated"} /\ revisionCount' = revisionCount
      BY <3>1, <3>2, RouteMoves
    <3>4. UNCHANGED <<delegations, active>>
      BY <2>5 DEF ResearchReturns
    <3>5. QED
      BY <3>1, <3>2, <3>3, <3>4, LogRoutes, LogLeft
  <2>6. CASE SupportReturns
    <3>1. RouteOrEscalate("drafted", NoReason) /\ phase' = "applied"
      BY <2>6, NoCuts DEF SupportReturns, Applied
    <3>2. /\ currentState \in {"researched", "qa_revision_requested"}
          /\ active = "support" /\ phase = "specialist"
      BY <2>6 DEF SupportReturns, Running, RequiredStates
    <3>3. currentState' = "drafted" /\ revisionCount' = revisionCount
      BY <3>1, <3>2, RouteMoves
    <3>4. UNCHANGED <<delegations, active>>
      BY <2>6 DEF SupportReturns
    <3>5. QED
      BY <3>1, <3>2, <3>3, <3>4, LogRoutes
  <2>7. CASE QAReturns
    <3>1. PICK decision \in Decisions, reason \in QAReasons :
            RouteQA(decision, reason) /\ phase' = "applied"
      BY <2>7, NoCuts DEF QAReturns, Applied
    <3>2. currentState = "drafted" /\ active = "qa" /\ phase = "specialist"
      BY <2>7 DEF QAReturns, Running, RequiredStates
    <3>3. UNCHANGED <<delegations, active>>
      BY <2>7 DEF QAReturns
    <3>4. \/ currentState' \in {"qa_approved", "escalated"} /\ revisionCount' = revisionCount
          \/ currentState' = "qa_revision_requested" /\ revisionCount' = revisionCount + 1
      BY <3>1, <3>2, RouteQACounts
    <3>5. QED
      BY <3>1, <3>2, <3>3, <3>4, LogRoutes, LogLeft
  <2>8. CASE DocumentationReturns
    <3>1. RouteOrEscalate("documented", NoReason) /\ phase' = "applied"
      BY <2>8, NoCuts DEF DocumentationReturns, Applied
    <3>2. currentState = "qa_approved" /\ active = "documentation" /\ phase = "specialist"
      BY <2>8 DEF DocumentationReturns, Running, RequiredStates
    <3>3. currentState' = "documented" /\ revisionCount' = revisionCount
      BY <3>1, <3>2, RouteMoves
    <3>4. UNCHANGED <<delegations, active>>
      BY <2>8 DEF DocumentationReturns
    <3>5. QED
      BY <3>1, <3>2, <3>3, <3>4, LogRoutes
  <2>9. QED
    BY <1>6, <2>1, <2>2, <2>3, <2>4, <2>5, <2>6, <2>7, <2>8 DEF SpecialistEnds
<1>7. CASE RecordSuccess
  BY <1>7, LogRecords
<1>8. CASE HandleFailure
  BY <1>8, LogPasses
<1>9. CASE CloseRun
  BY <1>9, TerminateMoves, LogStands, LogLeft DEF CloseRun, Fail
<1>10. CASE CatchException
  BY <1>10, TerminateMoves, LogStands, LogLeft DEF CatchException, Fail
<1>11. CASE OrchestratorStops \/ OrchestratorRaises \/ WriteArtifacts \/ EscapeUnwritten
  BY <1>11, LogStands
     DEF OrchestratorStops, OrchestratorRaises, WriteArtifacts, EscapeUnwritten, CutOff
<1>12. CASE Interrupt
  <2>1. phase = "applied" => currentState # "completed"
    BY DEF SettlingInv
  <2>2. CASE phase = "applied"
    BY <1>12, <2>1, <2>2 DEF Interrupt, CutOff, LogInv
  <2>3. CASE phase # "applied"
    BY <1>12, <2>3, LogStands DEF Interrupt, CutOff, Over
  <2>4. QED
    BY <2>2, <2>3
<1>13. CASE UNCHANGED vars
  BY <1>13 DEF vars, runVars, LogInv, Done, Succeeded, Place, Stage, FullLength
<1>14. QED
  BY <1>1, <1>2, <1>3, <1>4, <1>5, <1>6, <1>7, <1>8, <1>9, <1>10, <1>11, <1>12, <1>13
     DEF Next, RunIsOver

\* The log a completed run reports reads as the pipeline, each revision's draft and review
\* in place, whatever failed and was refused between them (_delegate, record_delegation).
THEOREM DelegationLog ==
  ASSUME ~IOFaults
  PROVE  Spec => []DelegationLogInOrder
<1>1. ~IOFaults /\ TypeOK /\ IInv /\ UndisturbedInv /\ LogInv /\ [Next]_vars => LogInv'
  BY LogStep
<1>2. TypeOK /\ IInv /\ LogInv => DelegationLogInOrder
  <2> SUFFICES ASSUME TypeOK, IInv, LogInv, currentState = "completed"
               PROVE  /\ Cardinality(Succeeded) = FullLength
                      /\ \A i \in Succeeded : delegations[i].specialist = Stage(Place(i))
    BY DEF DelegationLogInOrder
  <2>1. phase # "applied"
    BY DEF IInv, SettlingInv
  <2>2. Done = FullLength /\ Cardinality(Succeeded) = Done
    BY <2>1, PlacesBounded DEF LogInv, Done
  <2>3. QED
    BY <2>2 DEF LogInv
<1>3. QED
  BY <1>1, <1>2, LogInit, Undisturbed, PTL DEF Spec
=============================================================================
