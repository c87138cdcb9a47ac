------------------------------- MODULE QATools -------------------------------
(***************************************************************************)
(* The QA Agent's tools (tools/qa_tools.py): four deterministic checks of  *)
(* the draft under review, instructions for a revision, and one decision,  *)
(* which the tool takes only if the checks allow it.                       *)
(*                                                                         *)
(* Instructions and issues are free text; what the code reads off them is  *)
(* whether there are any and whether one objects to operational grounding. *)
(* A refused call changes nothing and is a stuttering step.                *)
(***************************************************************************)
EXTENDS EvidenceRegistry

VARIABLES
  reviewed,      \* QAWorkspace.draft
  checks,        \* QAWorkspace.checks: the outcome each check had when it last ran
  instructions,  \* QAWorkspace.revision_instructions: the kinds of objection in it
  result         \* QAWorkspace.result

qaVars == <<reviewed, checks, instructions, result>>

RequiredChecks == {"grounding", "restricted", "sensitive", "operational"}

Objections == {"editorial", "operational"}

NoResult == [decision |-> "none", instructions |-> {}, reason |-> "none"]

\* Mutation: the workspace keeps the outcomes of the last review.
ResetDraftOnly(d) ==
  /\ reviewed'     = d
  /\ instructions' = {}
  /\ result'       = NoResult
  /\ UNCHANGED checks

ResetQA(d) ==
  /\ reviewed'     = d
  /\ checks'       = [c \in RequiredChecks |-> "unrun"]
  /\ instructions' = {}
  /\ result'       = NoResult

\* The rule of each check; no OP- identifier means no customer-specific statement.
Passes(c, d) ==
  CASE c = "grounding"   -> Grounded(d)
    [] c = "restricted"  -> ~ContainsRestrictedClaim(d.text)
    [] c = "sensitive"   -> d.text.exposes = {}
    [] c = "operational" -> /\ OperationalCites(d) \subseteq OperationalIds
                            /\ FindOperationalClaims(d.text) # {} => OperationalCites(d) # {}

RunCheck(c) ==
  /\ checks' = [checks EXCEPT ![c] = IF Passes(c, reviewed) THEN "passed" ELSE "failed"]
  /\ UNCHANGED <<registryVars, reviewed, instructions, result>>

RequestRevision(objections) ==
  /\ result = NoResult
  /\ objections # {}
  /\ instructions' = objections
  /\ UNCHANGED <<registryVars, reviewed, checks, result>>

Blocking == {c \in RequiredChecks : checks[c] = "failed"}

\* Mutation: any failed check reads as a failure of QA.
ReasonIsAlwaysQA == "qa_failure"

EscalationReasonFor ==
  IF "sensitive" \in Blocking THEN "sensitive_data"
  ELSE IF "restricted" \in Blocking THEN "financial_authorization"
  ELSE IF Blocking \cap {"operational", "grounding"} # {} THEN "insufficient_evidence"
  ELSE "qa_failure"

\* A revision must be achievable: it may not object to operational grounding when no
\* check found anything to repair.
ContradictsChecks(objections) ==
  /\ Blocking = {}
  /\ checks["operational"] = "passed"
  /\ "operational" \in objections

\* Mutation: only the issues are searched for the objection, not the instructions.
SubmitOverlooking(decision, issues) ==
  /\ result = NoResult
  /\ \A c \in RequiredChecks : checks[c] # "unrun"
  /\ decision = "approve" => Blocking = {}
  /\ decision = "revise" =>
       /\ issues \cup instructions # {}
       /\ ~ContradictsChecks(issues)
  /\ result' = [decision |-> decision, instructions |-> instructions,
                reason |-> IF decision = "escalate" THEN EscalationReasonFor ELSE "none"]
  /\ UNCHANGED <<registryVars, reviewed, checks, instructions>>

\* Issues end up in the artifacts only; a revision hands on nothing but instructions.
SubmitDecision(decision, issues) ==
  /\ result = NoResult
  /\ \A c \in RequiredChecks : checks[c] # "unrun"
  /\ decision = "approve" => Blocking = {}
  /\ decision = "revise" =>
       /\ issues \cup instructions # {}
       /\ ~ContradictsChecks(issues \cup instructions)
  /\ result' = [decision |-> decision, instructions |-> instructions,
                reason |-> IF decision = "escalate" THEN EscalationReasonFor ELSE "none"]
  /\ UNCHANGED <<registryVars, reviewed, checks, instructions>>

QAToolCall ==
  \/ \E c \in RequiredChecks : RunCheck(c)
  \/ \E objections \in SUBSET Objections : RequestRevision(objections)
  \/ \E decision \in {"approve", "revise", "escalate"}, issues \in SUBSET Objections :
       SubmitDecision(decision, issues)
=============================================================================
