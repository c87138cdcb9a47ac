---------------------------- MODULE Orchestrator ----------------------------
(***************************************************************************)
(* The run of one ticket: OrchestratorAgent.run (agents/                   *)
(* orchestrator_agent.py) with the delegation tools it gives its agent     *)
(* (tools/orchestration_tools.py), over the kernel of WorkflowKernel.tla.  *)
(*                                                                         *)
(* A run is one thread.  `phase` says where it is: inside which call, and  *)
(* to which handler that call returns or raises.  What is outside the      *)
(* program is a nondeterministic choice: the ticket, what the models       *)
(* decide, whether a specialist produces a result, the operator's answer.  *)
(* With IOFaults every write to the trace or the terminal may raise too,   *)
(* and with Interrupts the user may press Ctrl-C.                          *)
(***************************************************************************)
EXTENDS WorkflowKernel

CONSTANTS
  MaxTurns,               \* bound: tool calls the orchestrator model makes before
                          \* smolagents' max_steps ends its loop
  ScreeningReasons,       \* what SafetyScreener.screen_ticket can escalate for
  ClassificationReasons,  \* what a classification can make apply_triage escalate for
  QAReasons,              \* what the QA workspace can give as its escalation reason
  Answers,                \* what the approval gate can answer: {FALSE} when unattended
  IOFaults,
  Interrupts

ASSUME RunAssumption ==
  /\ MaxTurns \in Nat
  /\ ScreeningReasons \subseteq EscalationReason
  /\ ClassificationReasons \subseteq EscalationReason
  /\ QAReasons \subseteq EscalationReason
  /\ Answers \subseteq BOOLEAN
  /\ IOFaults \in BOOLEAN
  /\ Interrupts \in BOOLEAN

VARIABLES
  phase,      \* where the run's thread is
  active,     \* the specialist being delegated to, or Nobody
  turns,      \* tool calls made by the orchestrator model
  screening,  \* the reason the ticket was screened for, or NoReason
  request,    \* the open approval request and the status it suspends
  written,    \* write_run_artifacts has finished
  published   \* customer_response.md: the draft it carries, 0 for the hand-off text

runVars == <<phase, active, turns, screening, request, written, published>>

vars == <<kernelVars, runVars>>

Nobody    == "nobody"
NoRequest == [reason |-> NoReason, previous |-> "received"]

Phases ==
  {"screening", "screened", "awaiting", "decided", "orchestrating", "specialist",
   "applied", "raised", "closing", "caught", "writing", "returned", "escaped"}

Over == {"returned", "escaped"}

\* Where a handler's tracing may cut it short: not at all, before it has routed the
\* run, or after.
Cuts == IF IOFaults THEN {"none", "early", "late"} ELSE {"none"}

Init ==
  /\ KernelInit
  /\ phase     = "screening"
  /\ active    = Nobody
  /\ turns     = 0
  /\ screening = NoReason
  /\ request   = NoRequest
  /\ written   = FALSE
  /\ published = 0

-----------------------------------------------------------------------------
(* Screening and the human gate.                                           *)

ScreenTicket ==
  /\ phase = "screening"
  /\ \E reason \in ScreeningReasons \cup {NoReason}, cut \in Cuts \ {"early"} :
       /\ screening' = reason
       /\ Transition("validated")
       /\ phase' = IF cut = "none" THEN "screened" ELSE "caught"
  /\ UNCHANGED <<escalation, humanApproval, outputVars, revisionCount, recordVars,
                 toolCallCount, finalized, errorSummary, active, turns, request,
                 written, published>>

AskHuman(reason) ==
  /\ currentState' = "awaiting_human_approval"
  /\ request' = [reason |-> reason, previous |-> currentState]
  /\ phase' = "awaiting"

\* A clear ticket goes to the orchestrator, a restricted one to the gate first.
StartOrchestration ==
  /\ phase = "screened"
  /\ screening = NoReason
  /\ phase' = "orchestrating"
  /\ UNCHANGED <<kernelVars, active, turns, screening, request, written, published>>

AskAboutTicket ==
  /\ phase = "screened"
  /\ screening \in RestrictedReasons
  /\ AskHuman(screening)
  /\ UNCHANGED <<escalation, humanApproval, outputVars, revisionCount, recordVars,
                 toolCallCount, finalized, errorSummary, active, turns, screening,
                 written, published>>

\* request_human_approval restores the suspended status before it traces the answer.
\* Ctrl-C or end of input at the prompt is an answer: a denial.
GateAnswers ==
  /\ phase = "awaiting"
  /\ \E approved \in Answers, cut \in Cuts \ {"early"} :
       /\ humanApproval' = [reason |-> request.reason, approved |-> approved]
       /\ currentState' = request.previous
       /\ phase' = IF cut = "none" THEN "decided"
                   ELSE IF active = Nobody THEN "caught" ELSE "raised"
  /\ UNCHANGED <<escalation, outputVars, revisionCount, recordVars, toolCallCount,
                 finalized, errorSummary, active, turns, screening, request, written,
                 published>>

\* Mutation: a gate that raises is taken for one that denied.
BrokenGateDenies ==
  /\ IOFaults
  /\ phase = "awaiting"
  /\ currentState' = request.previous
  /\ phase' = "decided"
  /\ UNCHANGED <<escalation, humanApproval, outputVars, revisionCount, recordVars,
                 toolCallCount, finalized, errorSummary, active, turns, screening, request,
                 written, published>>

\* The gate itself raises: the terminal cannot show the ticket.
GateRaises ==
  /\ IOFaults
  /\ phase = "awaiting"
  /\ phase' = IF active = Nobody THEN "caught" ELSE "raised"
  /\ UNCHANGED <<kernelVars, active, turns, screening, request, written, published>>

\* Mutation: the operator's answer is not looked at.
AnsweredTicketStarts ==
  /\ phase = "decided"
  /\ active = Nobody
  /\ phase' = "orchestrating"
  /\ UNCHANGED <<kernelVars, active, turns, screening, request, written, published>>

ApprovedTicketStarts ==
  /\ phase = "decided"
  /\ active = Nobody
  /\ humanApproval.approved
  /\ phase' = "orchestrating"
  /\ UNCHANGED <<kernelVars, active, turns, screening, request, written, published>>

\* A screened ticket that nobody approved escalates and finalizes at once.
EscalateTicket ==
  /\ \/ phase = "screened" /\ screening \notin RestrictedReasons \cup {NoReason}
     \/ phase = "decided" /\ active = Nobody /\ ~humanApproval.approved
  /\ Escalate(screening)
  /\ \E cut \in Cuts \ {"early"} :
       /\ finalized' = (cut = "none")
       /\ phase' = IF cut = "none" THEN "closing" ELSE "caught"
  /\ UNCHANGED <<humanApproval, outputVars, revisionCount, recordVars, toolCallCount,
                 errorSummary, active, turns, screening, request, written, published>>

-----------------------------------------------------------------------------
(* One turn of the orchestrator model: a tool call.                        *)

Turn ==
  /\ phase = "orchestrating"
  /\ turns < MaxTurns
  /\ turns' = turns + 1

InspectWorkflowState ==
  /\ Turn
  /\ UNCHANGED <<kernelVars, phase, active, screening, request, written, published>>

\* _delegate up to its call of the specialist.
Delegate(s) ==
  /\ Turn
  /\ CountToolCall
  /\ DelegationAllowed(s)
  /\ phase' = "specialist"
  /\ active' = s
  /\ UNCHANGED <<routingVars, humanApproval, outputVars, recordVars, finalized,
                 errorSummary, screening, request, written, published>>

\* A refusal is reported back to the model as a tool result; no streak is touched.
RejectDelegation(s) ==
  /\ Turn
  /\ CountToolCall
  /\ ~DelegationAllowed(s)
  /\ UNCHANGED <<routingVars, humanApproval, outputVars, recordVars, finalized,
                 errorSummary, phase, active, screening, request, written, published>>

FinalizeWorkflow ==
  /\ Turn
  /\ \/ FinalizeEscalated
     \/ \E cut \in Cuts \ {"early"} : FinalizeDocumented(cut = "late")
  /\ UNCHANGED <<escalation, humanApproval, outputVars, revisionCount, recordVars,
                 toolCallCount, errorSummary, phase, active, screening, request,
                 written, published>>

RejectFinalize ==
  /\ Turn
  /\ currentState \notin {"escalated", "documented"}
  /\ UNCHANGED <<kernelVars, phase, active, screening, request, written, published>>

-----------------------------------------------------------------------------
(* The specialist runs.  Its own tools and workspace are not in this       *)
(* module: it returns a result, or raises because it submitted none.       *)

Running(s) == phase = "specialist" /\ active = s

\* What a runner leaves alone whatever it returns.
RunnerUnchanged ==
  UNCHANGED <<humanApproval, recordVars, toolCallCount, finalized, errorSummary, active,
              turns, screening, written, published>>

\* Routing, unless tracing raised before it; and where the runner then goes.
Applied(Route, cut) ==
  /\ IF cut = "early" THEN UNCHANGED routingVars ELSE Route
  /\ phase' = IF cut = "none" THEN "applied" ELSE "raised"
  /\ UNCHANGED request

SpecialistFails ==
  /\ phase = "specialist"
  /\ phase' = "raised"
  /\ UNCHANGED <<routingVars, outputVars, request>>
  /\ RunnerUnchanged

TriageReturns ==
  /\ Running("triage")
  /\ HydrateOnly("triage")
  /\ \E reason \in (ClassificationReasons \ RestrictedReasons) \cup {NoReason}, cut \in Cuts :
       Applied(RouteOrEscalate("triaged", reason), cut)
  /\ RunnerUnchanged

\* apply_triage's own use of the gate, for a restricted reason.
TriageAsksHuman ==
  /\ Running("triage")
  /\ HydrateOnly("triage")
  /\ \E reason \in ClassificationReasons \cap RestrictedReasons : AskHuman(reason)
  /\ UNCHANGED <<escalation, revisionCount>>
  /\ RunnerUnchanged

TriageResumes ==
  /\ phase = "decided"
  /\ active = "triage"
  /\ \E cut \in Cuts \ {"early"} :
       Applied(RouteOrEscalate("triaged", IF humanApproval.approved THEN NoReason
                                          ELSE request.reason), cut)
  /\ UNCHANGED outputVars
  /\ RunnerUnchanged

\* Evidence that is missing outranks evidence that disagrees.
ResearchReturns ==
  /\ Running("research")
  /\ HydrateOnly("research")
  /\ \E insufficient, conflicting \in BOOLEAN, cut \in Cuts :
       Applied(RouteOrEscalate("researched",
                 IF insufficient THEN "insufficient_evidence"
                 ELSE IF conflicting THEN "conflicting_evidence" ELSE NoReason), cut)
  /\ RunnerUnchanged

SupportReturns ==
  /\ Running("support")
  /\ HydrateSupport
  /\ \E cut \in Cuts : Applied(RouteOrEscalate("drafted", NoReason), cut)
  /\ RunnerUnchanged

QAReturns ==
  /\ Running("qa")
  /\ \E decision \in Decisions, reason \in QAReasons, cut \in Cuts :
       /\ HydrateQA(decision)
       /\ Applied(RouteQA(decision, reason), cut)
  /\ RunnerUnchanged

DocumentationReturns ==
  /\ Running("documentation")
  /\ HydrateDocumentation
  /\ \E cut \in Cuts : Applied(RouteOrEscalate("documented", NoReason), cut)
  /\ RunnerUnchanged

-----------------------------------------------------------------------------
(* The rest of _delegate: recording what came back.                        *)

BackToModel ==
  /\ phase' = "orchestrating"
  /\ active' = Nobody

RecordSuccess ==
  /\ phase = "applied"
  /\ NoteSuccess(active)
  /\ RecordDelegation(active, "succeeded")
  /\ BackToModel
  /\ UNCHANGED <<routingVars, humanApproval, outputVars, toolCallCount, finalized,
                 errorSummary, turns, screening, request, written, published>>

\* Mutation: the limit is off by one.
FailsOnceMore(s) == failureStreak[s] + 1 > MaxDelegationFailures

FailsTooOften(s) == failureStreak[s] + 1 >= MaxDelegationFailures

\* _handle_delegation_failure: the streak that reaches its limit escalates.  Raising in
\* its own tracing it loses the record ("early") or the streak ("late"); smolagents
\* reports that exception to the model like any other tool error.
HandleFailure ==
  /\ phase = "raised"
  /\ \/ /\ IOFaults
        /\ UNCHANGED <<routingVars, recordVars>>
     \/ /\ IOFaults
        /\ RecordDelegation(active, "failed")
        /\ UNCHANGED <<routingVars, failureStreak>>
     \/ /\ RecordDelegation(active, "failed")
        /\ NoteFailure(active)
        /\ IF FailsTooOften(active)
           THEN Escalate("agent_execution_failure") /\ UNCHANGED revisionCount
           ELSE UNCHANGED routingVars
  /\ BackToModel
  /\ UNCHANGED <<humanApproval, outputVars, toolCallCount, finalized, errorSummary,
                 turns, screening, request, written, published>>

-----------------------------------------------------------------------------
(* The end of the run.                                                     *)

\* The model gives its final answer, or smolagents stops it at max_steps.
OrchestratorStops ==
  /\ phase = "orchestrating"
  /\ phase' = "closing"
  /\ UNCHANGED <<kernelVars, active, turns, screening, request, written, published>>

\* The model provider, or the tracing around the agent, raises out of run_agent.
OrchestratorRaises ==
  /\ phase = "orchestrating"
  /\ phase' = "caught"
  /\ UNCHANGED <<kernelVars, active, turns, screening, request, written, published>>

\* Mutation: an agent that stopped early leaves the run where it was.
CloseUnsettled ==
  /\ phase = "closing"
  /\ phase' = "writing"
  /\ UNCHANGED <<kernelVars, active, turns, screening, request, written, published>>

CloseRun ==
  /\ phase = "closing"
  /\ IF ~finalized /\ currentState \notin TerminalStatuses
     THEN Fail("did_not_finalize")
     ELSE UNCHANGED <<currentState, errorSummary>>
  /\ phase' = "writing"
  /\ UNCHANGED <<escalation, humanApproval, outputVars, revisionCount, recordVars,
                 toolCallCount, finalized, active, turns, screening, request, written,
                 published>>

\* Mutation: the handler tries the orchestrator again instead of failing the run.
RetryAfterException ==
  /\ phase = "caught"
  /\ phase' = "orchestrating"
  /\ UNCHANGED <<kernelVars, active, turns, screening, request, written, published>>

\* run()'s exception handlers, which fail the run whatever it had reached.
CatchException ==
  /\ phase = "caught"
  /\ Fail("exception")
  /\ phase' = "writing"
  /\ UNCHANGED <<escalation, humanApproval, outputVars, revisionCount, recordVars,
                 toolCallCount, finalized, active, turns, screening, request, written,
                 published>>

\* Mutation: the draft is published whatever became of the run.
ReplyWithAnyDraft == supportDraft

Reply == IF currentState = "completed" THEN supportDraft ELSE 0

\* The final insight may raise after the artifacts are complete.
WriteArtifacts ==
  /\ phase = "writing"
  /\ written' = TRUE
  /\ published' = Reply
  /\ \E cut \in Cuts \ {"early"} :
       phase' = IF cut = "none" THEN "returned" ELSE "escaped"
  /\ UNCHANGED <<kernelVars, active, turns, screening, request>>

\* The files are written one by one: the reply may be among them when the writing is cut off.
CutOff ==
  /\ phase' = "escaped"
  /\ published' \in IF phase = "writing" THEN {published, Reply} ELSE {published}
  /\ UNCHANGED <<kernelVars, active, turns, screening, request, written>>

\* Nothing catches what the handlers' own logging or write_run_artifacts raises.
EscapeUnwritten ==
  /\ IOFaults
  /\ phase \in {"caught", "writing"}
  /\ CutOff

\* KeyboardInterrupt is no Exception: it passes every handler.  The prompt of the gate
\* turns it into a denial.
Interrupt ==
  /\ Interrupts
  /\ phase \notin Over \cup {"awaiting"}
  /\ CutOff

RunIsOver == phase \in Over /\ UNCHANGED vars

-----------------------------------------------------------------------------
Gate == AskAboutTicket \/ GateAnswers \/ GateRaises \/ ApprovedTicketStarts

ModelTurn ==
  \/ InspectWorkflowState
  \/ \E s \in Specialists : Delegate(s) \/ RejectDelegation(s)
  \/ FinalizeWorkflow
  \/ RejectFinalize

SpecialistEnds ==
  \/ SpecialistFails
  \/ TriageReturns
  \/ TriageAsksHuman
  \/ TriageResumes
  \/ ResearchReturns
  \/ SupportReturns
  \/ QAReturns
  \/ DocumentationReturns

Next ==
  \/ ScreenTicket
  \/ StartOrchestration
  \/ Gate
  \/ EscalateTicket
  \/ ModelTurn
  \/ SpecialistEnds
  \/ RecordSuccess
  \/ HandleFailure
  \/ OrchestratorStops
  \/ OrchestratorRaises
  \/ CloseRun
  \/ CatchException
  \/ WriteArtifacts
  \/ EscapeUnwritten
  \/ Interrupt
  \/ RunIsOver

\* One thread: whenever the program can take a step it takes one.  Model calls and the
\* specialists end because smolagents bounds their steps, and the gate assumes an
\* operator who answers.
Spec == Init /\ [][Next]_vars

FairSpec == Spec /\ WF_vars(Next)
-----------------------------------------------------------------------------
(* Properties.                                                             *)

\* Every variable of a run has the type its code gives it.
TypeOK ==
  /\ KernelTypeOK
  /\ phase \in Phases
  /\ active \in Specialists \cup {Nobody}
  /\ turns \in Nat
  /\ screening \in EscalationReason \cup {NoReason}
  /\ request \in [reason : EscalationReason \cup {NoReason}, previous : WorkflowStatus]
  /\ written \in BOOLEAN
  /\ published \in Nat

\* customer_response.md carries a draft only for a completed run, and then the very draft
\* QA last reviewed and approved and the article was written from -- after any number of
\* revisions, failed delegations, tracing failures and interrupts (write_run_artifacts,
\* apply_qa, apply_support).
PublishedDraftWasApproved ==
  published # 0 =>
    /\ currentState = "completed"
    /\ qaResult = [decision |-> "approve", draft |-> published]
    /\ article = published

\* Past approval the draft cannot change under it: in every status after qa_approved the
\* standing QA result approves the current draft, and the article is about that draft.
ApprovalCoversDraft ==
  /\ currentState \in {"qa_approved", "documented", "completed"} =>
       supportDraft # 0 /\ qaResult = [decision |-> "approve", draft |-> supportDraft]
  /\ currentState \in {"documented", "completed"} => article = supportDraft

\* The statuses in which automated handling has gone past triage.
Worked ==
  {"triaged", "researched", "drafted", "qa_revision_requested", "qa_approved",
   "documented", "completed"}

\* A ticket screened as a restricted action, or one whose triage opened the gate, gets no
\* further than triage unless the gate's last answer, to that very question, was yes.
RestrictedWorkIsApproved ==
  (screening \in RestrictedReasons \/ request # NoRequest) /\ currentState \in Worked =>
    /\ request # NoRequest
    /\ humanApproval = [reason |-> request.reason, approved |-> TRUE]

\* Outside QA no run escalates for a restricted reason unless the operator's answer to that
\* very question is on record, whatever becomes of the prompt or is raised before and after
\* it (request_human_approval, _handle_prescreen_escalation, apply_triage).
RestrictedEscalationAskedHumanOrQA ==
  currentState = "escalated" /\ escalation \in RestrictedReasons =>
    humanApproval.reason = escalation \/ qaResult.decision = "escalate"

\* A run is escalated exactly when a reason for it stands in its record, however many
\* failures, late exceptions or repeated escalations it went through.
EscalatedIffReason == (currentState = "escalated") <=> (escalation # NoReason)

\* A specialist whose streak has reached the limit never leaves the run unsettled: nothing
\* can delegate to it, or to anyone, again (_handle_delegation_failure).
StreakEndsRun ==
  (\E s \in Specialists : failureStreak[s] >= MaxDelegationFailures) =>
    currentState \in TerminalStatuses

\* The budget bounds the specialists that run, refusals included in the count
\* (count_tool_call): the delegation log is never longer than it.
BudgetBoundsDelegations == Len(delegations) <= MaxToolCalls

Outcome == <<currentState, outputVars, revisionCount>>

\* Once completed, escalated or failed, a run stays so, and no specialist's output is
\* hydrated any more, whatever the orchestrator model calls and whatever fails later.
SettledIsFinal == [][(currentState \in TerminalStatuses) => Outcome' = Outcome]_vars

\* The reason a run was escalated for is the one its artifacts report: "Terminate the run
\* for human review, preserving the specific reason" (escalate).
ReasonIsFinal == [][escalation # NoReason => escalation' = escalation]_vars

\* QA's revision loop is bounded, and each draft after the first answers one revision
\* request (apply_qa, apply_support).
DraftsMatchRevisions ==
  /\ revisionCount <= MaxRevisions
  /\ supportDraft <= revisionCount + 1

\* Of the delegation log, the successes; the place of each among them; and the specialist
\* that belongs in a place of the pipeline.
Succeeded == {i \in DOMAIN delegations : delegations[i].status = "succeeded"}

Place(i) == Cardinality({j \in Succeeded : j <= i})

FullLength == 5 + 2 * revisionCount

Stage(place) ==
  CASE place = 1          -> "triage"
    [] place = 2          -> "research"
    [] place = FullLength -> "documentation"
    [] OTHER              -> IF place % 2 = 1 THEN "support" ELSE "qa"

\* The delegation log a completed run reports reads as the pipeline: triage, research,
\* then drafting and review once per revision more, then documentation, and nothing twice.
DelegationLogInOrder ==
  currentState = "completed" =>
    /\ Cardinality(Succeeded) = FullLength
    /\ \A i \in Succeeded : delegations[i].specialist = Stage(Place(i))

\* Every run of an undisturbed program reaches a settled status and returns with its
\* artifacts written, whatever the models do (run: "always write artifacts").
RunSettles ==
  <>[](phase = "returned" /\ written /\ currentState \in TerminalStatuses)

\* With failing traces and a failing disk a run still ends, if only in an exception.
RunEnds == <>[](phase \in Over)

\* What is left of a run: tool calls the model may still make, each worth the five steps
\* that the longest handling of one takes, and how far the thread is from the end.
Distance ==
  [screening |-> 9, screened |-> 8, specialist |-> 7, awaiting |-> 6, decided |-> 5,
   applied |-> 4, raised |-> 4, orchestrating |-> 3, closing |-> 2, caught |-> 2,
   writing |-> 1, returned |-> 0, escaped |-> 0]

Remaining == 5 * (MaxTurns - turns) + Distance[phase]

\* No step of a run goes round in a circle: whatever fails, is retried or interrupted, each
\* one brings the run nearer its end (run, _delegate, _handle_delegation_failure).
EveryStepSpends == [][Remaining' < Remaining]_vars

\* The run as its abstract lifecycle.
Lifecycle ==
  INSTANCE TicketLifecycle WITH
    status  <- IF currentState \in TerminalStatuses THEN currentState
               ELSE IF currentState = "awaiting_human_approval" THEN "held" ELSE "open",
    draft   <- supportDraft,
    vetted  <- IF qaResult.decision = "approve" THEN qaResult.draft ELSE 0,
    replied <- written,
    reply   <- IF written THEN published ELSE 0

\* Each step of a run is a step of the lifecycle of its ticket, or does not show in it.
ImplementsLifecycle == Lifecycle!Spec

-----------------------------------------------------------------------------
(* The inductive invariant behind the safety properties.                   *)

\* What each point of the run's thread knows of the kernel's state.
ThreadInv ==
  /\ phase = "screening" => currentState = "received" /\ active = Nobody
  /\ phase = "screened" => currentState = "validated" /\ active = Nobody
  /\ phase = "awaiting" =>
       /\ currentState = "awaiting_human_approval"
       /\ request.previous = "validated"
  /\ phase = "decided" => currentState = "validated"
  /\ phase \in {"awaiting", "decided"} =>
       /\ request.reason \in RestrictedReasons
       /\ active \in {"triage", Nobody}
       /\ active = Nobody => screening \in RestrictedReasons
  /\ phase = "specialist" => active \in Specialists /\ currentState \in RequiredStates[active]
  /\ phase \in {"applied", "raised"} => active \in Specialists
  /\ phase = "orchestrating" => active = Nobody
  /\ phase = "writing" => currentState \in TerminalStatuses

\* Until a run has settled nothing has been published; a run inside a call has not
\* completed or failed, and before its first routing has not escalated.
SettlingInv ==
  /\ phase \notin Over => ~written /\ published = 0
  /\ published # 0 => currentState = "completed" /\ published = supportDraft
  /\ written \/ finalized => currentState \in TerminalStatuses
  /\ phase \in {"screening", "screened", "awaiting", "decided", "specialist", "applied", "raised"} =>
       currentState \notin {"completed", "failed"}
  /\ phase \in {"screening", "screened", "awaiting", "decided", "specialist"} =>
       escalation = NoReason
  /\ currentState = "drafted" => supportDraft # 0

\* A specialist under way has been paid for but not yet logged.
UnderWay == IF active = Nobody THEN 0 ELSE 1

BudgetInv ==
  /\ Len(delegations) + UnderWay <= toolCallCount
  /\ Len(delegations) + UnderWay <= MaxToolCalls

IInv ==
  /\ ThreadInv
  /\ SettlingInv
  /\ ApprovalCoversDraft
  /\ EscalatedIffReason
  /\ StreakEndsRun
  /\ BudgetInv

\* Further, a run whose restricted question is open or answered: past the gate it is under
\* automated handling only with the operator's yes to that question.
GateInv ==
  /\ phase \in {"screening", "screened"} => request = NoRequest
  /\ phase = "decided" => request # NoRequest /\ humanApproval.reason = request.reason
  /\ phase \in {"awaiting", "decided"} =>
       active = Nobody \/ ClassificationReasons \cap RestrictedReasons # {}
  /\ currentState \in Worked \/ phase \in {"orchestrating", "specialist", "applied", "raised"} =>
       \/ currentState \in TerminalStatuses \ {"completed"}
       \/ screening \notin RestrictedReasons /\ request = NoRequest
       \/ /\ request # NoRequest
          /\ humanApproval = [reason |-> request.reason, approved |-> TRUE]

\* And, of a run whose tracing never fails: a failing delegation finds no reason in the
\* record yet, and there is a draft exactly once drafting has been routed.
UndisturbedInv ==
  /\ phase = "raised" => escalation = NoReason
  /\ revisionCount <= MaxRevisions
  /\ supportDraft <= revisionCount + 1
  /\ currentState \in {"received", "validated", "awaiting_human_approval", "triaged", "researched"} =>
       supportDraft = 0 /\ revisionCount = 0
  /\ currentState = "qa_revision_requested" => supportDraft <= revisionCount

\* And its log: while the run is neither escalated nor failed, the successes so far --
\* with the one about to be recorded -- fill the places of the pipeline up to its status.
\* Ctrl-C may lose the one about to be recorded, but never that of a completed run.
Done == Cardinality(Succeeded) + (IF phase = "applied" THEN 1 ELSE 0)

LogInv ==
  /\ currentState \notin {"escalated", "failed"}
  /\ phase = "escaped" => currentState = "completed"
  =>
    /\ currentState \in {"received", "validated", "awaiting_human_approval"} => Done = 0
    /\ currentState = "triaged" => Done = 1
    /\ currentState \in {"researched", "qa_revision_requested"} => Done = 2 + 2 * revisionCount
    /\ currentState = "drafted" => Done = 3 + 2 * revisionCount
    /\ currentState = "qa_approved" => Done = 4 + 2 * revisionCount
    /\ currentState \in {"documented", "completed"} => Done = FullLength
    /\ \A i \in Succeeded : delegations[i].specialist = Stage(Place(i))
    /\ phase = "applied" => active = Stage(Done)

\* What the end of a run knows: a returned run has written its artifacts, and without
\* failing traces or Ctrl-C there is no other end.
EndInv ==
  /\ phase = "returned" => written
  /\ phase = "escaped" => IOFaults \/ Interrupts

-----------------------------------------------------------------------------
(* Claims of the documentation that the code does not meet; each is the    *)
(* property of a run that TLC refutes.                                     *)

\* README: financial authorization, policy exception and account compromise "fire the
\* single human-in-the-loop gate".
RestrictedEscalationAskedHuman ==
  currentState = "escalated" /\ escalation \in RestrictedReasons =>
    humanApproval.reason = escalation

\* What the code does meet, RestrictedEscalationAskedHumanOrQA, rests on this: between the
\* gate's answer and its use the thread knows what was asked.
AskedInv ==
  /\ RestrictedEscalationAskedHumanOrQA
  /\ phase = "decided" => humanApproval.reason = request.reason
  /\ phase \in {"awaiting", "decided"} /\ active = Nobody => request.reason = screening

\* orchestrator_agent.py: "Artifacts are written in a `finally` block".
ArtifactsWhateverEndsTheRun == phase = "escaped" => written
=============================================================================
