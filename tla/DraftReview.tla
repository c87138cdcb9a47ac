----------------------------- MODULE DraftReview -----------------------------
(***************************************************************************)
(* Drafting and review of one ticket: the Support Agent and the QA Agent,  *)
(* each with its workspace, take turns over the shared evidence registry,  *)
(* and the kernel routes the run on what they submit (the support and QA   *)
(* runners of orchestrator_agent.py).  Orchestrator.tla leaves open what   *)
(* a specialist hands over; this module is where it comes from.            *)
(*                                                                         *)
(* The orchestrator may rest between two delegations for ever.  An agent   *)
(* may stop at any time; without a submission its runner raises.           *)
(***************************************************************************)
EXTENDS SupportTools, QATools

CONSTANTS
  MaxRevisions,  \* Settings.max_agent_revisions
  Pages          \* the pages research may retrieve, as [url, hash]

ASSUME ReviewAssumption == MaxRevisions \in Nat

VARIABLES
  currentState,   \* WorkflowState.current_state
  escalation,     \* WorkflowState.escalation.reason_code
  revisionCount,  \* WorkflowState.revision_count
  supportDraft,   \* WorkflowState.support_draft
  qaResult,       \* WorkflowState.qa_result
  running,        \* the specialist at work, or "nobody"
  brief           \* the revision instructions the drafting agent was given

vars ==
  <<registryVars, serviceVars, supportVars, qaVars, currentState, escalation, revisionCount,
    supportDraft, qaResult, running, brief>>

\* The kernel's routing; its other state plays no part here.
Kernel ==
  INSTANCE WorkflowKernel WITH
    MaxToolCalls <- 0, MaxDelegationFailures <- 1, humanApproval <- "none",
    products <- {}, supportDraft <- 0, qaResult <- "none", article <- 0,
    failureStreak <- 0, toolCallCount <- 0, delegations <- << >>, finalized <- FALSE,
    errorSummary <- "none"

routing == <<currentState, escalation, revisionCount>>
handed  == <<supportDraft, qaResult>>

Init ==
  /\ RegistryInit
  /\ ServiceInit
  /\ draft = NoDraft /\ answer = NoAnswer
  /\ reviewed = NoDraft
  /\ checks = [c \in RequiredChecks |-> "unrun"]
  /\ instructions = {}
  /\ result = NoResult
  /\ currentState = "triaged"
  /\ escalation = "none"
  /\ revisionCount = 0
  /\ supportDraft = NoDraft
  /\ qaResult = NoResult
  /\ running = "research"
  /\ brief = {}

-----------------------------------------------------------------------------
(* Research, as far as it reaches the registry.  A run with no public      *)
(* evidence is escalated by apply_research and never gets here.            *)

FetchPage(page) ==
  /\ running = "research"
  /\ RegisterPublic(page)
  /\ UNCHANGED <<operational, serviceVars, supportVars, qaVars, routing, handed, running, brief>>

ResearchEnds ==
  /\ running = "research"
  /\ public # << >>
  /\ Kernel!Transition("researched")
  /\ running' = "nobody"
  /\ UNCHANGED <<registryVars, serviceVars, supportVars, qaVars, escalation, revisionCount, handed, brief>>

-----------------------------------------------------------------------------
(* Drafting.                                                               *)

\* Mutation: the runner passes on the reason of the previous review.
BeginDraftFromReason ==
  /\ running = "nobody"
  /\ currentState \in Kernel!RequiredStates["support"]
  /\ ResetSupport
  /\ brief' = {qaResult.reason}
  /\ running' = "support"
  /\ UNCHANGED <<registryVars, serviceVars, qaVars, routing, handed>>

\* The runner passes on the instructions of the previous review, if there was one.
BeginDraft ==
  /\ running = "nobody"
  /\ currentState \in Kernel!RequiredStates["support"]
  /\ ResetSupport
  /\ brief' = qaResult.instructions
  /\ running' = "support"
  /\ UNCHANGED <<registryVars, serviceVars, qaVars, routing, handed>>

DraftingStep ==
  /\ running = "support"
  /\ SupportToolCall
  /\ UNCHANGED <<qaVars, routing, handed, running, brief>>

DeliverDraft ==
  /\ running = "support"
  /\ draft # NoDraft
  /\ supportDraft' = draft
  /\ Kernel!Transition("drafted")
  /\ answer' = NoAnswer
  /\ running' = "nobody"
  /\ UNCHANGED <<registryVars, serviceVars, draft, qaVars, escalation, revisionCount, qaResult, brief>>

-----------------------------------------------------------------------------
(* Review.                                                                 *)

BeginReview ==
  /\ running = "nobody"
  /\ currentState \in Kernel!RequiredStates["qa"]
  /\ ResetQA(supportDraft)
  /\ running' = "qa"
  /\ UNCHANGED <<registryVars, serviceVars, supportVars, routing, handed, brief>>

ReviewStep ==
  /\ running = "qa"
  /\ QAToolCall
  /\ UNCHANGED <<serviceVars, supportVars, routing, handed, running, brief>>

DeliverReview ==
  /\ running = "qa"
  /\ result # NoResult
  /\ qaResult' = result
  /\ Kernel!RouteQA(result.decision, result.reason)
  /\ running' = "nobody"
  /\ UNCHANGED <<registryVars, serviceVars, supportVars, qaVars, supportDraft, brief>>

\* The model provider fails, or the agent ends its turn having submitted nothing.
AgentRaises ==
  /\ running \in {"support", "qa"}
  /\ running' = "nobody"
  /\ UNCHANGED <<registryVars, serviceVars, supportVars, qaVars, routing, handed, brief>>

\* The database is reseeded while the ticket is worked on.
ReseedMeanwhile ==
  /\ Reseed
  /\ UNCHANGED <<registryVars, supportVars, qaVars, routing, handed, running, brief>>

Rest == running = "nobody" /\ UNCHANGED vars

Next ==
  \/ \E page \in Pages : FetchPage(page)
  \/ ResearchEnds
  \/ BeginDraft
  \/ DraftingStep
  \/ DeliverDraft
  \/ BeginReview
  \/ ReviewStep
  \/ DeliverReview
  \/ AgentRaises
  \/ ReseedMeanwhile
  \/ Rest

Spec == Init /\ [][Next]_vars

-----------------------------------------------------------------------------
(* Properties.                                                             *)

Outcomes == {"unrun", "passed", "failed"}

Results ==
  [decision : {"none", "approve", "revise", "escalate"}, instructions : SUBSET Objections,
   reason : {"none", "sensitive_data", "financial_authorization", "insufficient_evidence",
             "qa_failure"}]

Drafts == {NoDraft} \cup [cites : SUBSET Citable, text : Texts]

\* Every variable of drafting and review has the type its code gives it.
TypeOK ==
  /\ public \in Seq(Pages)
  /\ operational \in Seq([record : Records, available : BOOLEAN])
  /\ rows \in {{}, DOMAIN Holds} /\ reseeds \in Nat
  /\ {draft, reviewed, supportDraft} \subseteq Drafts
  /\ answer.kind \in {"none", "found", "absent", "outage"}
  /\ checks \in [RequiredChecks -> Outcomes]
  /\ {instructions, brief} \subseteq SUBSET Objections
  /\ {result, qaResult} \subseteq Results
  /\ currentState \in {"triaged", "researched", "drafted", "qa_revision_requested",
                       "qa_approved", "escalated"}
  /\ escalation \in Kernel!EscalationReason \cup {"none"}
  /\ revisionCount \in Nat
  /\ running \in {"research", "nobody", "support", "qa"}

\* The draft of an approved run is the one that was checked and has no fault the checks
\* look for: each citation was issued, steps cite something, a statement of the customer's
\* status cites an operational record, nothing restricted, nothing sensitive -- after any
\* number of revisions, reruns of checks and agents that failed half way.
ApprovedDraftIsGrounded ==
  currentState = "qa_approved" =>
    /\ supportDraft # NoDraft
    /\ \A c \in RequiredChecks : Passes(c, supportDraft)

\* What goes out to the customer keeps to the agents' authority and to what they could
\* know: no sentence of an approved reply says that we acted, unless to deny it, that
\* something restricted was done, unless hedged, or how the customer's order stands
\* without an operational record that was issued -- whichever checks ran, in whatever order
\* and over however many drafts.
ApprovedReplyKeepsToItsAuthority ==
  currentState = "qa_approved" =>
    \A s \in supportDraft.text.reply :
      /\ "acts" \in s => "negated" \in s
      /\ "outcome" \in s => {"negated", "hedged"} \cap s # {}
      /\ "status" \in s /\ {"missing", "advisory", "general"} \cap s = {} =>
           OperationalIds \cap supportDraft.cites # {}

\* An absence on record is a finding about the customer's record, never about our own
\* infrastructure: the service does not have it, or its database was being reseeded.
AbsenceIsReal ==
  \A i \in DOMAIN operational :
    /\ operational[i].available => \E r \in DOMAIN Holds : Holds[r] = operational[i].record
    /\ ~operational[i].available /\ operational[i].record \in DOMAIN Holds => reseeds > 0

\* A record, under whatever spelling it was asked for, has one identifier, and so has a
\* page, by whatever URL it was reached.
OneIdPerRecord ==
  /\ \A i, j \in DOMAIN operational :
       Folded[operational[i].record] = Folded[operational[j].record] => i = j
  /\ \A i, j \in DOMAIN public :
       public[i].hash = public[j].hash \/ public[i].url = public[j].url => i = j

\* submit_support_draft "enforces the same citation rule QA will apply", so that no draft
\* reaches review that check_evidence_grounding is bound to fail: it never does.
GroundingNeverFails == checks["grounding"] # "failed"

\* QA's first decision is final, and so is Support's first draft: until the agent is
\* started again, neither changes, whatever tools it goes on to call.
SubmissionsStand ==
  [][/\ running = "qa" /\ result # NoResult => result' = result
     /\ running = "support" /\ draft # NoDraft => draft' = draft]_vars

\* The worst fault of a draft, as escalation reasons rank faults.
FaultOf(d) ==
  IF ~Passes("sensitive", d) THEN "sensitive_data"
  ELSE IF ~Passes("restricted", d) THEN "financial_authorization"
  ELSE IF ~Passes("operational", d) THEN "insufficient_evidence"
  ELSE "qa_failure"

\* An escalation by QA names the worst fault its draft really has, and is a plain
\* qa_failure only for a draft without one; the limit is blamed only once it is reached.
EscalationNamesTheFault ==
  currentState = "escalated" =>
    IF qaResult.decision = "revise"
    THEN escalation = "revision_limit_exceeded" /\ revisionCount = MaxRevisions
    ELSE escalation = FaultOf(supportDraft)

\* A draft is never sent back over its operational grounding when every check passes it:
\* such a revision could not be answered (qa_tools, "Unwinnable revisions").
RevisionIsAchievable ==
  /\ currentState = "qa_revision_requested"
  /\ \A c \in RequiredChecks : Passes(c, supportDraft)
  => "operational" \notin qaResult.instructions

-----------------------------------------------------------------------------
(* The inductive invariant behind the safety properties of drafts and evidence. *)

\* Who is at work, and on what.
TurnInv ==
  /\ running = "research" => currentState = "triaged"
  /\ running = "support" => currentState \in Kernel!RequiredStates["support"]
  /\ running = "qa" => currentState = "drafted" /\ reviewed = supportDraft
  /\ currentState \notin {"triaged", "researched"} => supportDraft # NoDraft
  /\ currentState # "triaged" => public # << >>

\* A passed check still holds of the draft, and an approval has all four behind it.
ChecksInv ==
  running = "qa" =>
    /\ \A c \in RequiredChecks : checks[c] = "passed" => Passes(c, reviewed)
    /\ result.decision = "approve" => \A c \in RequiredChecks : checks[c] = "passed"

\* A draft was grounded when it was submitted, and what it cites does not go away.
CitesInv ==
  \A d \in {draft, reviewed, supportDraft} : d # NoDraft => Grounded(d)

\* A database without its rows is being reseeded.
ServiceInv == rows = DOMAIN Holds \/ reseeds > 0

IInv ==
  /\ TurnInv
  /\ ChecksInv
  /\ CitesInv
  /\ ApprovedDraftIsGrounded
  /\ GroundingNeverFails
  /\ OneIdPerRecord
  /\ ServiceInv
  /\ AbsenceIsReal

-----------------------------------------------------------------------------
(* The inductive invariant behind EscalationNamesTheFault and                *)
(* RevisionIsAchievable, given the one above.                              *)

\* A failed check, a derived reason and a revision tell the truth about the draft.
VerdictInv ==
  /\ revisionCount <= MaxRevisions
  /\ running = "qa" =>
       /\ \A c \in RequiredChecks : checks[c] = "failed" => ~Passes(c, reviewed)
       /\ result.decision = "escalate" => result.reason = FaultOf(reviewed)
       /\ result.decision = "revise" /\ FaultOf(reviewed) = "qa_failure" =>
            "operational" \notin result.instructions
  /\ EscalationNamesTheFault
  /\ RevisionIsAchievable

-----------------------------------------------------------------------------
(* How far the first claim below holds, and what it rests on.              *)

\* A record of the registry that is also known under another spelling.
HasTwoSpellings(record) ==
  \E r \in Records : r # record /\ Folded[r] = Folded[record]

\* A lookup that learned something returns an identifier that can be cited, unless a record
\* of the registry has two spellings; then it may return none.
LookupIsCitableOrRespelt ==
  answer.kind \in {"found", "absent"} =>
    \/ answer.id \in OperationalIds
    \/ answer.id = NoId /\ \E i \in DOMAIN operational : HasTwoSpellings(operational[i].record)

\* The identifier it returns is never another record's.
LookupsNameTheirRecord ==
  [][\A asked \in Records :
       LookUp(asked) /\ answer'.id # NoId =>
         \E i \in DOMAIN operational' :
           /\ answer'.id = <<"OP", i>>
           /\ operational'[i].record = IF asked \in rows THEN Holds[asked] ELSE asked]_vars

\* What an identifier stands for is settled when it is issued: nothing is removed from the
\* registry, renumbered or replaced, so an old citation never comes to mean something else.
EvidenceIsKept ==
  [][/\ \A i \in DOMAIN public : i \in DOMAIN public' /\ public'[i] = public[i]
     /\ \A i \in DOMAIN operational :
          i \in DOMAIN operational' /\ operational'[i] = operational[i]]_vars

-----------------------------------------------------------------------------
(* Claims of the documentation that the code does not meet.                *)

\* _existing_operational_id: "the agent still needs an identifier it can cite".
EveryLookupIsCitable == answer.kind \in {"found", "absent"} => answer.id \in OperationalIds

\* spec.md, US-4: QA "calls request_support_revision with specific instructions, and
\* returns revise.  The orchestrator delegates to support again with those instructions".
RevisionIsInstructed == running = "support" /\ revisionCount > 0 => brief # {}
=============================================================================
