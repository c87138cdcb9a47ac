-------------------------- MODULE DocumentationTools --------------------------
(***************************************************************************)
(* The Documentation Agent's tools (tools/documentation_tools.py): select  *)
(* public evidence, screen an article against it, submit the article that  *)
(* was screened last.  A refused call changes nothing, except that a       *)
(* screening that finds something withdraws the earlier clearance.         *)
(***************************************************************************)
EXTENDS EvidenceRegistry

CONSTANTS
  Mentionable  \* the identifiers the model may select or cite, issued or not

VARIABLES
  selected,     \* DocumentationWorkspace.selected_evidence_ids
  candidate,    \* DocumentationWorkspace.article
  cleared,      \* DocumentationWorkspace.privacy_checked
  articleDone   \* DocumentationWorkspace.submitted

documentationVars == <<selected, candidate, cleared, articleDone>>

\* What the patterns of ArticlePrivacyValidator find in the text of an article.
Leaks == {"identifier", "sensitive"}

Articles == [cites : SUBSET Mentionable, leaks : SUBSET Leaks]

NoArticle == [cites |-> {}, leaks |-> {"none"}]

ResetDocumentation ==
  /\ selected' = {}
  /\ candidate' = NoArticle
  /\ cleared' = FALSE
  /\ articleDone' = FALSE

SelectPublicEvidence(ids) ==
  /\ ids \subseteq PublicIds
  /\ selected' = ids
  /\ UNCHANGED <<registryVars, candidate, cleared, articleDone>>

PrivacySafe(article, allowed) ==
  /\ article.leaks = {}
  /\ article.cites \subseteq allowed

\* Mutation: the article is kept before it is judged.
KeepAndCheckArticle(article) ==
  /\ candidate' = article
  /\ cleared' = PrivacySafe(article, selected)
  /\ UNCHANGED <<registryVars, selected, articleDone>>

CheckArticlePrivacy(article) ==
  /\ cleared' = PrivacySafe(article, selected)
  /\ candidate' = IF PrivacySafe(article, selected) THEN article ELSE candidate
  /\ UNCHANGED <<registryVars, selected, articleDone>>

SubmitArticle ==
  /\ ~articleDone
  /\ candidate # NoArticle
  /\ cleared
  /\ articleDone' = TRUE
  /\ UNCHANGED <<registryVars, selected, candidate, cleared>>

DocumentationToolCall ==
  \/ \E ids \in SUBSET Mentionable : SelectPublicEvidence(ids)
  \/ \E article \in Articles : CheckArticlePrivacy(article)
  \/ SubmitArticle
=============================================================================
