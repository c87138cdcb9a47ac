----------------------------- MODULE ContentRules -----------------------------
(***************************************************************************)
(* What content_validation.py finds in the text of a draft.  A text is     *)
(* judged sentence by sentence: of a sentence the rules see which of their *)
(* patterns match it.                                                      *)
(***************************************************************************)

\* A sentence may say that we did or will do something restricted, that it was done, that
\* we looked something up, or how this customer's order stands; and it may carry the marks
\* that excuse such a statement: a negation, a hedge, a not-found phrase, and for a status
\* also the hedges and the framing of general advice.
Traits ==
  {"acts", "outcome", "inspection", "status"} \cup
  {"negated", "hedged", "missing", "advisory", "general"}

Sentences == SUBSET Traits

\* The fields of a draft that matter apart: its steps, its reply to the customer, the rest
\* of its text, and the credentials it shows or asks for.
DraftTexts ==
  [steps : BOOLEAN, reply : SUBSET Sentences, notes : SUBSET Sentences,
   exposes : SUBSET {"sensitive data", "secret request"}]

\* Mutation: a hedge excuses a claim of having acted, too.
ClaimsUnlessHedged(s) ==
  /\ {"acts", "outcome", "inspection"} \cap s # {}
  /\ {"negated", "hedged"} \cap s = {}
  /\ "missing" \in s => {"acts", "outcome"} \cap s # {}

\* The first pattern that matches decides, also when it is excused.
IsRestrictedClaim(s) ==
  IF "acts" \in s THEN "negated" \notin s
  ELSE IF "outcome" \in s THEN {"negated", "hedged"} \cap s = {}
  ELSE "inspection" \in s /\ {"negated", "hedged", "missing"} \cap s = {}

ContainsRestrictedClaim(text) == \E s \in text.reply \cup text.notes : IsRestrictedClaim(s)

\* Only the reply is searched: it is what the customer gets.
FindOperationalClaims(text) ==
  {s \in text.reply : "status" \in s /\ {"missing", "advisory", "general"} \cap s = {}}
=============================================================================
