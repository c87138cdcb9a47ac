--------------------------- MODULE SafetyScreening ---------------------------
(***************************************************************************)
(* The deterministic rules that outrank every model: the screening of a    *)
(* ticket before any model sees it and of its classification after triage  *)
(* (safety_rules.py), and the offline evaluation that predicts a run's     *)
(* outcome from the two (evaluation_runner.py).  Of a message the rules    *)
(* see which of their vocabularies it has a term of.                       *)
(***************************************************************************)
EXTENDS Integers, Sequences, FiniteSetsExt

NoReason == "none"

Vocabularies ==
  {"sensitive", "injection intent", "instructions", "compromise", "account", "exception",
   "policy", "money", "authorization", "unsupported"}

\* What a customer writes, with its counts of sentiment terms (triage_tools.py).
Messages ==
  [terms : SUBSET Vocabularies, negative : Nat, positive : Nat, intensifiers : Nat]

\* The vocabularies a rule wants a term of.
Needs == [
  sensitive_data          |-> {"sensitive"},
  outside_authority       |-> {"injection intent", "instructions"},
  account_compromise      |-> {"compromise", "account"},
  policy_exception        |-> {"exception", "policy"},
  financial_authorization |-> {"money", "authorization"},
  unsupported_domain      |-> {"unsupported"}]

\* Mutation: credentials are looked for after the rules an operator may waive.
RulesByFrequency == <<
  "financial_authorization", "policy_exception", "account_compromise",
  "outside_authority", "sensitive_data", "unsupported_domain" >>

\* The rules, by their reasons, in the order they are tried.
Rules == <<
  "sensitive_data", "outside_authority", "account_compromise", "policy_exception",
  "financial_authorization", "unsupported_domain" >>

Matching(terms) == {i \in DOMAIN Rules : Needs[Rules[i]] \subseteq terms}

\* The first rule that matches gives the reason; the others are not looked at.
ScreenTicket(message) ==
  LET matching == Matching(message.terms)
  IN  IF matching = {} THEN NoReason ELSE Rules[Min(matching)]

RequiresHumanApproval(reason) ==
  reason \in {"account_compromise", "policy_exception", "financial_authorization"}

SupportDomains == {"order_tracking_delivery", "returns_refunds", "account_checkout"}

\* A classification, and whether its confidence reaches the threshold.
Classifications ==
  [domain : SupportDomains \cup {"unsupported", "uncertain"}, confident : BOOLEAN]

\* Mutation: the domain is handed on where the reason's code belongs.
ScreenClassificationByDomain(classification) ==
  IF classification.domain \in {"unsupported", "uncertain"} THEN classification.domain
  ELSE IF ~classification.confident THEN "low_confidence"
  ELSE NoReason

ScreenClassification(classification) ==
  IF classification.domain = "unsupported" THEN "unsupported_domain"
  ELSE IF classification.domain = "uncertain" \/ ~classification.confident THEN "low_confidence"
  ELSE NoReason

EvidenceReasons == {"insufficient_evidence", "conflicting_evidence"}

\* The reason a case of the curated evaluation is expected to escalate for.  Its tags say
\* what research found, and whether it is about QA's protection.
EvaluateCase(message, classification, tags) ==
  LET screened   == ScreenTicket(message)
      classified == ScreenClassification(classification)
  IN  IF "qa_protection" \in tags THEN "financial_authorization"
      ELSE IF screened # NoReason THEN screened
      ELSE IF classified # NoReason THEN classified
      ELSE IF "insufficient_evidence" \in tags THEN "insufficient_evidence"
      ELSE IF "conflicting_evidence" \in tags THEN "conflicting_evidence"
      ELSE NoReason
=============================================================================
