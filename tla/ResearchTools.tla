---------------------------- MODULE ResearchTools ----------------------------
(***************************************************************************)
(* The Research Agent's tools (tools/research_tools.py): validate a URL,   *)
(* fetch the page behind it into the registry, assess what the registry    *)
(* holds, submit.  The registry outlives the workspace: a second attempt   *)
(* at research starts with the pages of the first.                         *)
(*                                                                         *)
(* A refused call changes nothing and is a stuttering step.  So is a       *)
(* search: its results are logged and stored, and no tool asks whether a   *)
(* URL came from one.                                                      *)
(***************************************************************************)
EXTENDS EvidenceRegistry, EvidenceRules

CONSTANTS
  Urls,      \* what the model may ask for
  SafeUrls,  \* the URLs, asked for or redirected to, that URLPolicy allows
  Serves,    \* the pages a URL may lead to, this time or another
  MaxPages   \* Settings.max_pages_to_scrape

\* A page, with its final URL, its content hash and what the rules see of its text.
Pages == UNION {Serves[u] : u \in Urls}

ASSUME ResearchAssumption ==
  /\ DOMAIN Serves = Urls
  /\ MaxPages \in Nat
  /\ \A page \in Pages :
       /\ {page.size, page.matches} \subseteq Nat
       /\ page.offDomain \in BOOLEAN
       /\ page.mentions \in [Topics -> SUBSET Mentions]

VARIABLES
  validated,     \* ResearchWorkspace.validated_urls
  fetched,       \* ResearchWorkspace.fetched_urls
  insufficient,  \* ResearchWorkspace.insufficient
  conflict,      \* ResearchWorkspace.potential_conflict
  researchDone   \* ResearchWorkspace.submitted

researchVars == <<validated, fetched, insufficient, conflict, researchDone>>

ResetResearch ==
  /\ validated' = {}
  /\ fetched' = {}
  /\ insufficient' = FALSE
  /\ conflict' = FALSE
  /\ researchDone' = FALSE

ValidateSourceUrl(url) ==
  /\ url \in SafeUrls
  /\ validated' = validated \cup {url}
  /\ UNCHANGED <<registryVars, fetched, insufficient, conflict, researchDone>>

\* Mutations: the page is noted under the URL it was redirected to; where a redirect led
\* is not looked at.
FetchByFinalUrl(url) ==
  /\ url \in validated
  /\ Cardinality(fetched) < MaxPages
  /\ \E page \in Serves[url] :
       /\ page.url \in SafeUrls
       /\ IF Relevant(page) THEN RegisterPublic(page) ELSE UNCHANGED public
       /\ fetched' = fetched \cup {page.url}
  /\ UNCHANGED <<operational, validated, insufficient, conflict, researchDone>>

FetchUnvalidated(url) ==
  /\ url \in validated
  /\ Cardinality(fetched) < MaxPages
  /\ \E page \in Serves[url] : IF Relevant(page) THEN RegisterPublic(page) ELSE UNCHANGED public
  /\ fetched' = fetched \cup {url}
  /\ UNCHANGED <<operational, validated, insufficient, conflict, researchDone>>

\* A page of another subject costs a place in the page budget and is not kept.
FetchWebPage(url) ==
  /\ url \in validated
  /\ Cardinality(fetched) < MaxPages
  /\ \E page \in Serves[url] :
       /\ page.url \in SafeUrls
       /\ IF Relevant(page) THEN RegisterPublic(page) ELSE UNCHANGED public
  /\ fetched' = fetched \cup {url}
  /\ UNCHANGED <<operational, validated, insufficient, conflict, researchDone>>

AssessEvidence ==
  /\ insufficient' = Insufficient(public)
  /\ conflict' = Conflicting(public)
  /\ UNCHANGED <<registryVars, validated, fetched, researchDone>>

\* Mutation: nothing is asked of the evidence.
SubmitUnassessed ==
  /\ ~researchDone
  /\ researchDone' = TRUE
  /\ UNCHANGED <<registryVars, validated, fetched, insufficient, conflict>>

\* An assessment shows in its reasons, and it has none for evidence that is fine.
SubmitResearchResult ==
  /\ ~researchDone
  /\ insufficient \/ conflict \/ public # << >>
  /\ researchDone' = TRUE
  /\ UNCHANGED <<registryVars, validated, fetched, insufficient, conflict>>

ResearchToolCall ==
  \/ \E url \in Urls : ValidateSourceUrl(url) \/ FetchWebPage(url)
  \/ AssessEvidence
  \/ SubmitResearchResult
=============================================================================
