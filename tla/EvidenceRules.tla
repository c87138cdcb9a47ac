---------------------------- MODULE EvidenceRules ----------------------------
(***************************************************************************)
(* What evidence_rules.py reads off the pages of a run: whether a page is  *)
(* about the ticket's domain, whether the pages are enough, and whether    *)
(* two of them disagree.  Of a page's text the rules see how many terms of *)
(* the domain it has, whether it speaks of another trade, how long it is,  *)
(* and, for each mention of a topic, the words in front of it.             *)
(***************************************************************************)
EXTENDS Naturals, FiniteSetsExt

CONSTANTS
  MinimumCharacters,  \* MINIMUM_SUFFICIENT_CHARACTERS
  MinimumMatches,     \* MINIMUM_RELEVANCE_MATCHES
  Topics              \* CONFLICT_TOPICS

ASSUME EvidenceRulesAssumption ==
  /\ MinimumCharacters \in Nat
  /\ MinimumMatches \in Nat

\* A mention of a topic: whether a hedge, and whether a negation, stands in front of it.
Mentions == [hedged : BOOLEAN, negated : BOOLEAN]

\* Every domain that gets past triage has a vocabulary.
Relevant(page) ==
  page.matches >= IF page.offDomain THEN MinimumMatches + 1 ELSE MinimumMatches

\* The window for hedges is wider than the one for negations, and is looked at first.
Reading(mention) ==
  IF mention.hedged THEN "hedged" ELSE IF mention.negated THEN "no" ELSE "yes"

\* Mutation: a page that states both sides of a rule counts on either side.
TakesSide(page, topic, side) == side \in {Reading(m) : m \in page.mentions[topic]}

\* A page that states both sides of its own rule holds no position.
HoldsPosition(page, topic, side) ==
  {Reading(m) : m \in page.mentions[topic]} \ {"hedged"} = {side}

Conflicting(list) ==
  \E topic \in Topics : \E i, j \in DOMAIN list :
    HoldsPosition(list[i], topic, "yes") /\ HoldsPosition(list[j], topic, "no")

Insufficient(list) ==
  \/ list = << >>
  \/ MapThenSumSet(LAMBDA i : list[i].size, DOMAIN list) < MinimumCharacters
=============================================================================
