--------------------------- MODULE LifecycleProofs ---------------------------
(***************************************************************************)
(* Orchestrator.tla implements TicketLifecycle.tla: under the refinement   *)
(* mapping of Orchestrator!Lifecycle, a run starts as a ticket starts, and *)
(* each of its steps is a step of the ticket's lifecycle or a stutter.     *)
(***************************************************************************)
EXTENDS OrchestratorProofs

\* A fresh run is a fresh ticket.
LEMMA InitRefines == Init => Lifecycle!Init
BY DEF Init, KernelInit, Lifecycle!Init, NoReview, TerminalStatuses

\* The mapped variables of a step that keeps the concrete ones; a reply whose files are not
\* complete does not count yet.
LEMMA Stutters ==
  ASSUME UNCHANGED <<currentState, supportDraft, qaResult, written>>,
         written => published' = published
  PROVE  UNCHANGED Lifecycle!lifecycleVars
BY DEF Lifecycle!lifecycleVars

\* Work in the abstract is any step inside an open run, its drafting, review or routing.
LEMMA Works ==
  ASSUME currentState \notin TerminalStatuses \cup {"awaiting_human_approval"},
         \/ supportDraft' = supportDraft + 1 /\ qaResult' = qaResult
         \/ /\ supportDraft' = supportDraft
            /\ \/ qaResult' = qaResult
               \/ \E d \in Decisions : qaResult' = [decision |-> d, draft |-> supportDraft],
         currentState' \notin {"completed", "failed"},
         UNCHANGED <<written, published>>
  PROVE  Lifecycle!Work
BY DEF Lifecycle!Work, TerminalStatuses

\* Routing leaves an unsettled run open or escalated.
LEMMA Routed ==
  ASSUME currentState \notin TerminalStatuses, NEW target, NEW reason,
         target \notin {"completed", "failed"},
         RouteOrEscalate(target, reason)
  PROVE  currentState' \notin {"completed", "failed"}
BY RouteMoves

\* Each step of a run is a step of its lifecycle, or leaves the lifecycle alone.
LEMMA StepRefines ==
  TypeOK /\ IInv /\ [Next]_vars => [Lifecycle!Next]_(Lifecycle!lifecycleVars)
<1> SUFFICES ASSUME TypeOK, IInv, [Next]_vars
             PROVE  Lifecycle!Next \/ UNCHANGED Lifecycle!lifecycleVars
  OBVIOUS
<1> USE DEF IInv, ThreadInv, kernelVars, outputVars, routingVars, recordVars
<1>1. CASE ScreenTicket
  BY <1>1, TransitionMoves, Works DEF ScreenTicket, Lifecycle!Next, TerminalStatuses
<1>2. CASE StartOrchestration \/ GateRaises \/ ApprovedTicketStarts
  BY <1>2, Stutters DEF StartOrchestration, GateRaises, ApprovedTicketStarts
<1>3. CASE AskAboutTicket
  BY <1>3, Works DEF AskAboutTicket, AskHuman, Lifecycle!Next, TerminalStatuses
<1>4. CASE GateAnswers
  BY <1>4 DEF GateAnswers, Lifecycle!Next, Lifecycle!Resume, TerminalStatuses
<1>5. CASE EscalateTicket
  <2>1. currentState = "validated"
    BY <1>5 DEF EscalateTicket
  <2>2. currentState' = "escalated"
    BY <1>5, <2>1, TerminateMoves DEF EscalateTicket, Escalate, TerminalStatuses
  <2>3. QED
    BY <1>5, <2>1, <2>2, Works DEF EscalateTicket, Lifecycle!Next, TerminalStatuses
<1>6. CASE ModelTurn
  <2>1. CASE InspectWorkflowState \/ RejectFinalize
    BY <2>1, Stutters DEF InspectWorkflowState, RejectFinalize
  <2>2. CASE \E s \in Specialists : Delegate(s) \/ RejectDelegation(s)
    BY <2>2, Stutters DEF Delegate, RejectDelegation
  <2>3. CASE FinalizeWorkflow
    <3>1. CASE FinalizeEscalated
      BY <2>3, <3>1, Stutters DEF FinalizeWorkflow, FinalizeEscalated
    <3>2. CASE \E raised \in BOOLEAN : FinalizeDocumented(raised)
      <4>1. currentState = "documented" /\ currentState' = "completed"
        BY <3>2, TransitionMoves DEF FinalizeDocumented
      <4>2. supportDraft # 0 /\ qaResult = [decision |-> "approve", draft |-> supportDraft]
        BY <4>1 DEF ApprovalCoversDraft
      <4>3. QED
        BY <2>3, <4>1, <4>2
           DEF FinalizeWorkflow, Lifecycle!Next, Lifecycle!Complete, TerminalStatuses, TypeOK,
               KernelTypeOK
    <3>3. QED
      BY <2>3, <3>1, <3>2 DEF FinalizeWorkflow
  <2>4. QED
    BY <1>6, <2>1, <2>2, <2>3 DEF ModelTurn
<1>7. CASE SpecialistEnds
  <2>1. currentState \notin TerminalStatuses \cup {"awaiting_human_approval"}
    BY <1>7 DEF SpecialistEnds, SpecialistFails, Running, TriageReturns, TriageAsksHuman,
                TriageResumes, ResearchReturns, SupportReturns, QAReturns, DocumentationReturns,
                RequiredStates, TerminalStatuses, Specialists
  <2>2. currentState' \notin {"completed", "failed"}
    <3>1. CASE SpecialistFails \/ TriageAsksHuman
      BY <2>1, <3>1 DEF SpecialistFails, TriageAsksHuman, AskHuman, TerminalStatuses
    <3>2. CASE TriageReturns \/ TriageResumes
      BY <2>1, <3>2, Routed DEF TriageReturns, TriageResumes, Applied, TerminalStatuses
    <3>3. CASE ResearchReturns
      BY <2>1, <3>3, Routed DEF ResearchReturns, Applied, TerminalStatuses
    <3>4. CASE SupportReturns \/ DocumentationReturns
      BY <2>1, <3>4, Routed DEF SupportReturns, DocumentationReturns, Applied, TerminalStatuses
    <3>5. CASE QAReturns
      <4>1. currentState = "drafted"
        BY <3>5 DEF QAReturns, Running, RequiredStates
      <4>2. QED
        BY <3>5, <4>1, RouteQAMoves DEF QAReturns, Applied
    <3>6. QED
      BY <1>7, <3>1, <3>2, <3>3, <3>4, <3>5 DEF SpecialistEnds
  <2>3. UNCHANGED <<written, published>>
    BY <1>7 DEF SpecialistEnds, SpecialistFails, TriageReturns, TriageAsksHuman, TriageResumes,
                ResearchReturns, SupportReturns, QAReturns, DocumentationReturns, RunnerUnchanged
  <2>4. \/ supportDraft' = supportDraft + 1 /\ qaResult' = qaResult
        \/ /\ supportDraft' = supportDraft
           /\ \/ qaResult' = qaResult
              \/ \E d \in Decisions : qaResult' = [decision |-> d, draft |-> supportDraft]
    BY <1>7 DEF SpecialistEnds, SpecialistFails, TriageReturns, TriageAsksHuman, TriageResumes,
                ResearchReturns, SupportReturns, QAReturns, DocumentationReturns,
                HydrateOnly, HydrateSupport, HydrateQA, HydrateDocumentation
  <2>5. QED
    BY <2>1, <2>2, <2>3, <2>4, Works DEF Lifecycle!Next
<1>8. CASE RecordSuccess \/ OrchestratorStops \/ OrchestratorRaises \/ EscapeUnwritten \/ Interrupt
  BY <1>8, Stutters
     DEF RecordSuccess, OrchestratorStops, OrchestratorRaises, EscapeUnwritten, Interrupt,
         CutOff, SettlingInv, Over
<1>9. CASE HandleFailure
  <2>1. UNCHANGED <<supportDraft, qaResult, written, published>>
    BY <1>9 DEF HandleFailure
  <2>2. currentState' = currentState \/ Terminate("escalated")
    BY <1>9 DEF HandleFailure, Escalate
  <2>3. \/ currentState' = currentState
        \/ currentState \notin TerminalStatuses /\ currentState' = "escalated"
    BY <2>2, TerminateMoves
  <2>4. QED
    BY <2>1, <2>3, Stutters DEF Lifecycle!Next, Lifecycle!GiveUp, TerminalStatuses
<1>10. CASE CloseRun \/ CatchException
  <2>1. UNCHANGED <<supportDraft, qaResult, written, published>>
    BY <1>10 DEF CloseRun, CatchException
  <2>2. currentState' = currentState \/ Terminate("failed")
    BY <1>10 DEF CloseRun, CatchException, Fail
  <2>3. \/ currentState' = currentState
        \/ currentState \notin TerminalStatuses /\ currentState' = "failed"
    BY <2>2, TerminateMoves
  <2>4. QED
    BY <2>1, <2>3, Stutters DEF Lifecycle!Next, Lifecycle!GiveUp, TerminalStatuses
<1>11. CASE WriteArtifacts
  <2>1. currentState \in TerminalStatuses /\ ~written /\ published = 0
    BY <1>11 DEF WriteArtifacts, SettlingInv, Over
  <2>2. currentState = "completed" =>
          qaResult = [decision |-> "approve", draft |-> supportDraft]
    BY DEF ApprovalCoversDraft
  <2>3. QED
    BY <1>11, <2>1, <2>2
       DEF WriteArtifacts, Reply, Lifecycle!Next, Lifecycle!Reply, Lifecycle!Settled,
           TerminalStatuses
<1>12. CASE UNCHANGED vars
  BY <1>12, Stutters DEF vars, runVars
<1>13. QED
  BY <1>1, <1>2, <1>3, <1>4, <1>5, <1>6, <1>7, <1>8, <1>9, <1>10, <1>11, <1>12
     DEF Next, Gate, RunIsOver

\* A run is a lifecycle of its ticket: it settles once, and replies once, with a draft only
\* if review vetted it.
THEOREM Refinement == Spec => ImplementsLifecycle
<1>1. Init => Lifecycle!Init
  BY InitRefines
<1>2. TypeOK /\ IInv /\ [Next]_vars => [Lifecycle!Next]_(Lifecycle!lifecycleVars)
  BY StepRefines
<1>3. QED
  BY <1>1, <1>2, Invariance, PTL DEF Spec, ImplementsLifecycle, Lifecycle!Spec

-----------------------------------------------------------------------------
(* What an implementation of the lifecycle inherits.                       *)

\* The lifecycle's own argument, in which nothing of the orchestrator is used: a ticket
\* completes on a vetted draft, and the reply is made of that.
LEMMA RepliesAreVetted == Lifecycle!Spec => []Lifecycle!ReplyInv
<1>1. Lifecycle!Init => Lifecycle!ReplyInv
  BY DEF Lifecycle!Init, Lifecycle!ReplyInv, Lifecycle!ReplyIsVetted
<1>2. Lifecycle!ReplyInv /\ [Lifecycle!Next]_(Lifecycle!lifecycleVars) => Lifecycle!ReplyInv'
  <2> USE DEF Lifecycle!ReplyInv, Lifecycle!ReplyIsVetted, Lifecycle!Settled
  <2> SUFFICES ASSUME Lifecycle!ReplyInv, [Lifecycle!Next]_(Lifecycle!lifecycleVars)
               PROVE  Lifecycle!ReplyInv'
    OBVIOUS
  <2>1. CASE Lifecycle!Work
    BY <2>1 DEF Lifecycle!Work
  <2>2. CASE Lifecycle!Resume \/ Lifecycle!GiveUp
    BY <2>2 DEF Lifecycle!Resume, Lifecycle!GiveUp
  <2>3. CASE Lifecycle!Complete
    BY <2>3 DEF Lifecycle!Complete
  <2>4. CASE Lifecycle!Reply
    BY <2>4 DEF Lifecycle!Reply
  <2>5. CASE UNCHANGED Lifecycle!lifecycleVars
    BY <2>5 DEF Lifecycle!lifecycleVars
  <2> QED BY <2>1, <2>2, <2>3, <2>4, <2>5 DEF Lifecycle!Next
<1> QED BY <1>1, <1>2, PTL DEF Lifecycle!Spec

\* Nor does anything follow the end: the lifecycle works on open tickets only.
LEMMA LifecycleEnds == Lifecycle!Spec => Lifecycle!SettledAndRepliedOnce
<1>1. [Lifecycle!Next]_(Lifecycle!lifecycleVars) => [Lifecycle!EndsOnce]_(Lifecycle!lifecycleVars)
  BY DEF Lifecycle!Next, Lifecycle!Work, Lifecycle!Resume, Lifecycle!Complete, Lifecycle!GiveUp,
         Lifecycle!Reply, Lifecycle!EndsOnce, Lifecycle!Settled, Lifecycle!lifecycleVars
<1> QED BY <1>1, PTL DEF Lifecycle!Spec, Lifecycle!SettledAndRepliedOnce

\* So the customer of a run gets the vetted draft of a completed ticket or the hand-off text,
\* as the lifecycle promises (write_run_artifacts).
THEOREM CustomersGetVettedReplies == Spec => []Lifecycle!ReplyIsVetted
<1>1. Lifecycle!ReplyInv => Lifecycle!ReplyIsVetted
  BY DEF Lifecycle!ReplyInv
<1> QED BY <1>1, Refinement, RepliesAreVetted, PTL DEF ImplementsLifecycle

\* And gets one answer, which nothing the run still does takes back.
THEOREM OneAnswer == Spec => Lifecycle!SettledAndRepliedOnce
BY Refinement, LifecycleEnds, PTL DEF ImplementsLifecycle
=============================================================================
