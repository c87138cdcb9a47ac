--------------------------- MODULE WorkflowKernel ---------------------------
(***************************************************************************)
(* The deterministic kernel of SupportScout (workflow/kernel.py).  It owns *)
(* the state of one run: the workflow status, the outputs the specialists  *)
(* hand over, escalation, the human decision and the three budgets.  The   *)
(* orchestrator agent chooses what to try, the kernel decides whether the  *)
(* choice is legal.                                                        *)
(*                                                                         *)
(* This module declares the kernel's state and its methods as actions.     *)
(* Orchestrator.tla composes them into the run of one ticket.              *)
(***************************************************************************)
EXTENDS Integers, Sequences, FiniteSets

CONSTANTS
  MaxRevisions,          \* Settings.max_agent_revisions
  MaxToolCalls,          \* Settings.max_total_tool_calls
  MaxDelegationFailures  \* Settings.max_delegation_failures

ASSUME BudgetsAssumption ==
  /\ MaxRevisions \in Nat
  /\ MaxToolCalls \in Nat
  /\ MaxDelegationFailures \in Nat \ {0}

VARIABLES
  currentState,    \* WorkflowState.current_state
  escalation,      \* WorkflowState.escalation.reason_code, NoReason while not required
  humanApproval,   \* WorkflowState.human_approval
  products,        \* the specialists whose output has been hydrated
  supportDraft,    \* WorkflowState.support_draft: 0, or which draft of this run it is
  qaResult,        \* WorkflowState.qa_result, with the draft it was given to review
  article,         \* WorkflowState.article: 0, or the draft it was written from
  revisionCount,   \* WorkflowState.revision_count
  failureStreak,   \* WorkflowKernel.delegation_failure_counts
  toolCallCount,   \* WorkflowKernel.tool_call_count
  delegations,     \* WorkflowState.delegations
  finalized,       \* WorkflowKernel.finalized
  errorSummary     \* WorkflowState.error_summary

kernelVars ==
  <<currentState, escalation, humanApproval, products, supportDraft, qaResult, article,
    revisionCount, failureStreak, toolCallCount, delegations, finalized, errorSummary>>

outputVars   == <<products, supportDraft, qaResult, article>>
routingVars  == <<currentState, escalation, revisionCount>>
recordVars   == <<failureStreak, delegations>>

-----------------------------------------------------------------------------
(* Vocabulary.                                                             *)

Specialists == {"triage", "research", "support", "qa", "documentation"}

TerminalStatuses == {"completed", "escalated", "failed"}

RestrictedReasons ==
  {"financial_authorization", "policy_exception", "account_compromise"}

EscalationReason == RestrictedReasons \cup
  {"sensitive_data", "unsupported_domain", "low_confidence", "insufficient_evidence",
   "conflicting_evidence", "revision_limit_exceeded", "outside_authority", "qa_failure",
   "human_rejected", "execution_budget_exceeded", "agent_execution_failure"}

NoReason == "none"

NextStages ==
  [received              |-> {"validated"},
   validated             |-> {"triaged"},
   triaged               |-> {"researched"},
   researched            |-> {"drafted"},
   drafted               |-> {"qa_approved", "qa_revision_requested"},
   qa_revision_requested |-> {"drafted"},
   qa_approved           |-> {"documented"},
   documented            |-> {"completed"}]

\* escalate() and fail() assign these two directly; no caller asks transition() for them.
AllowedTransitions ==
  [s \in DOMAIN NextStages |-> NextStages[s] \cup {"escalated", "failed"}]

WorkflowStatus ==
  DOMAIN NextStages \cup TerminalStatuses \cup {"awaiting_human_approval"}

\* Mutation: approval may be revisited by another draft.
RequiredStatesReopened ==
  [triage        |-> {"validated"},
   research      |-> {"triaged"},
   support       |-> {"researched", "qa_revision_requested", "qa_approved"},
   qa            |-> {"drafted"},
   documentation |-> {"qa_approved"}]

RequiredStates ==
  [triage        |-> {"validated"},
   research      |-> {"triaged"},
   support       |-> {"researched", "qa_revision_requested"},
   qa            |-> {"drafted"},
   documentation |-> {"qa_approved"}]

Decisions == {"approve", "revise", "escalate"}

NoReview   == [decision |-> "none", draft |-> 0]
NoDecision == [reason |-> NoReason, approved |-> FALSE]

-----------------------------------------------------------------------------
(* Status changes.                                                         *)

KernelInit ==
  /\ currentState  = "received"
  /\ escalation    = NoReason
  /\ humanApproval = NoDecision
  /\ products      = {}
  /\ supportDraft  = 0
  /\ qaResult      = NoReview
  /\ article       = 0
  /\ revisionCount = 0
  /\ failureStreak = [s \in Specialists |-> 0]
  /\ toolCallCount = 0
  /\ delegations   = << >>
  /\ finalized     = FALSE
  /\ errorSummary  = "none"

Transition(target) ==
  /\ currentState \in DOMAIN AllowedTransitions
  /\ target \in AllowedTransitions[currentState]
  /\ currentState' = target

\* Mutation: a settled run can be settled again.
TerminateAgain(status) == currentState' = status

Terminate(status) ==
  currentState' = IF currentState \in TerminalStatuses THEN currentState ELSE status

\* Mutation: the status moves, the reason is lost.
EscalateSilently(reason) ==
  /\ Terminate("escalated")
  /\ UNCHANGED escalation

\* The reason is overwritten even when the run has already settled.
Escalate(reason) ==
  /\ escalation' = reason
  /\ Terminate("escalated")

Fail(category) ==
  /\ errorSummary' = category
  /\ Terminate("failed")

-----------------------------------------------------------------------------
(* Delegation bookkeeping.                                                 *)

CountToolCall == toolCallCount' = toolCallCount + 1

\* Mutations: no status check; a budget checked before it is counted.
DelegationInBudget(s) == toolCallCount + 1 <= MaxToolCalls
DelegationOverBudget(s) ==
  /\ toolCallCount <= MaxToolCalls
  /\ currentState \in RequiredStates[s]

\* count_tool_call raises past the budget, require_state_for in any other state.
DelegationAllowed(s) ==
  /\ toolCallCount + 1 <= MaxToolCalls
  /\ currentState \in RequiredStates[s]

\* Mutation: a failed delegation is logged like a successful one.
RecordSucceeded(s, status) ==
  delegations' = Append(delegations, [specialist |-> s, status |-> "succeeded"])

RecordDelegation(s, status) ==
  delegations' = Append(delegations, [specialist |-> s, status |-> status])

NoteFailure(s) == failureStreak' = [failureStreak EXCEPT ![s] = @ + 1]
\* Mutation: a success forgives one failure more than there was.
NoteSuccessBelowZero(s) == failureStreak' = [failureStreak EXCEPT ![s] = @ - 1]
NoteSuccess(s) == failureStreak' = [failureStreak EXCEPT ![s] = 0]

-----------------------------------------------------------------------------
(* apply_*: hydrating an output (Hydrate...) and then routing the run on   *)
(* it (Route...).  They are two operators because tracing runs in between  *)
(* and may raise.                                                          *)

HydrateOnly(s) ==
  /\ products' = products \cup {s}
  /\ UNCHANGED <<supportDraft, qaResult, article>>

HydrateSupport ==
  /\ products' = products \cup {"support"}
  /\ supportDraft' = supportDraft + 1
  /\ UNCHANGED <<qaResult, article>>

HydrateQA(decision) ==
  /\ products' = products \cup {"qa"}
  /\ qaResult' = [decision |-> decision, draft |-> supportDraft]
  /\ UNCHANGED <<supportDraft, article>>

HydrateDocumentation ==
  /\ products' = products \cup {"documentation"}
  /\ article' = supportDraft
  /\ UNCHANGED <<supportDraft, qaResult>>

\* Move on to target, or escalate when there is a reason to.
RouteOrEscalate(target, reason) ==
  /\ \/ /\ reason = NoReason
        /\ Transition(target)
        /\ UNCHANGED escalation
     \/ /\ reason # NoReason
        /\ Escalate(reason)
  /\ UNCHANGED revisionCount

\* Mutation: one revision too many.
RouteQAOneMore(decision, reason) ==
  \/ /\ decision = "approve"
     /\ RouteOrEscalate("qa_approved", NoReason)
  \/ /\ decision = "revise"
     /\ revisionCount <= MaxRevisions
     /\ revisionCount' = revisionCount + 1
     /\ Transition("qa_revision_requested")
     /\ UNCHANGED escalation
  \/ /\ decision = "escalate"
     /\ Escalate(reason)
     /\ UNCHANGED revisionCount

\* reason is the workspace's escalation reason, and matters only when QA escalates.
RouteQA(decision, reason) ==
  \/ /\ decision = "approve"
     /\ RouteOrEscalate("qa_approved", NoReason)
  \/ /\ decision = "revise"
     /\ revisionCount < MaxRevisions
     /\ revisionCount' = revisionCount + 1
     /\ Transition("qa_revision_requested")
     /\ UNCHANGED escalation
  \/ /\ decision = "revise"
     /\ revisionCount >= MaxRevisions
     /\ Escalate("revision_limit_exceeded")
     /\ UNCHANGED revisionCount
  \/ /\ decision = "escalate"
     /\ Escalate(reason)
     /\ UNCHANGED revisionCount

\* An escalated run finalizes in place, a documented and complete one completes.
FinalizeEscalated ==
  /\ currentState = "escalated"
  /\ finalized' = TRUE
  /\ UNCHANGED currentState

\* finalized is set after the transition has been traced: a raising trace skips it.
FinalizeDocumented(raised) ==
  /\ currentState = "documented"
  /\ {"triage", "support", "qa", "documentation"} \subseteq products
  /\ Transition("completed")
  /\ finalized' = (finalized \/ ~raised)

-----------------------------------------------------------------------------
(* The types of the kernel's state.                                        *)

KernelTypeOK ==
  /\ currentState \in WorkflowStatus
  /\ escalation \in EscalationReason \cup {NoReason}
  /\ humanApproval \in [reason : EscalationReason \cup {NoReason}, approved : BOOLEAN]
  /\ products \subseteq Specialists
  /\ supportDraft \in Nat
  /\ qaResult \in [decision : Decisions \cup {"none"}, draft : Nat]
  /\ article \in Nat
  /\ revisionCount \in Nat
  /\ failureStreak \in [Specialists -> Nat]
  /\ toolCallCount \in Nat
  /\ delegations \in Seq([specialist : Specialists, status : {"succeeded", "failed"}])
  /\ finalized \in BOOLEAN
  /\ errorSummary \in {"none", "did_not_finalize", "exception"}
=============================================================================
