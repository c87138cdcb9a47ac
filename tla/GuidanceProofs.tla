---------------------------- MODULE GuidanceProofs ----------------------------
(***************************************************************************)
(* Proofs about PublicGuidance, for every set of URLs and pages, every     *)
(* page budget and every article a model may write.  Pages are never       *)
(* withdrawn: what was found in them, selected or cited stays so, through  *)
(* failed attempts and calls after a submission.                           *)
(***************************************************************************)
EXTENDS PublicGuidance, SequenceTheorems, TLAPS

USE DEF routing, registryVars, researchVars, documentationVars

\* How the kernel routes.
USE DEF Kernel!Transition, Kernel!RouteOrEscalate, Kernel!Escalate, Kernel!Terminate,
        Kernel!NoReason, Kernel!RequiredStates, Kernel!TerminalStatuses,
        Kernel!AllowedTransitions, Kernel!NextStages

Operational == Seq([record : Records, available : BOOLEAN])

\* The pages the rules let into the registry.
Vetted(page) == page.url \in SafeUrls /\ Relevant(page)

-----------------------------------------------------------------------------
(* The registry.                                                           *)

\* Registering a page: it is appended, or it is a duplicate and nothing changes.
LEMMA RegisterPage ==
  ASSUME NEW page \in Pages, public \in Seq(Pages), RegisterPublic(page)
  PROVE  /\ public' \in Seq(Pages)
         /\ public' # << >>
         /\ Len(public) <= Len(public')
         /\ \A i \in DOMAIN public : i \in DOMAIN public' /\ public'[i] = public[i]
         /\ \A i \in DOMAIN public' \ DOMAIN public : public'[i] = page
<1>1. CASE public' = public /\ public # << >>
  BY <1>1, LenProperties
<1>2. CASE public' = Append(public, page)
  BY <1>2, AppendProperties, LenProperties
<1>3. (public' = public /\ public # << >>) \/ public' = Append(public, page)
  BY DEF RegisterPublic
<1> QED BY <1>1, <1>2, <1>3

\* Registering a record keeps the list of records one.
LEMMA RegisterRecord ==
  ASSUME NEW record \in Records, operational \in Operational, RegisterOperational(record, TRUE)
  PROVE  operational' \in Operational
<1> DEFINE Items == [record : Records, available : BOOLEAN]
           item  == [record |-> record, available |-> TRUE]
<1>1. item \in Items /\ operational \in Seq(Items)
  BY DEF Operational
<1>2. operational' = operational \/ operational' = Append(operational, item)
  BY DEF RegisterOperational
<1> HIDE DEF Items, item
<1>3. operational' \in Seq(Items)
  BY <1>1, <1>2, AppendProperties
<1> QED BY <1>3 DEF Operational, Items

\* A call of a research tool touches the registry only by registering a page.
LEMMA ResearchRegisters ==
  ASSUME ResearchToolCall
  PROVE  /\ UNCHANGED operational
         /\ UNCHANGED public \/ \E page \in Pages : Vetted(page) /\ RegisterPublic(page)
<1>1. ASSUME NEW url \in Urls, FetchWebPage(url)
      PROVE  UNCHANGED public \/ \E page \in Pages : Vetted(page) /\ RegisterPublic(page)
  BY <1>1 DEF FetchWebPage, Pages, Vetted
<1> QED
  BY <1>1 DEF ResearchToolCall, ValidateSourceUrl, FetchWebPage, AssessEvidence, SubmitResearchResult

-----------------------------------------------------------------------------
(* Types.                                                                  *)

\* A ticket starts well typed.
LEMMA InitType == Init => TypeOK
<1> SUFFICES ASSUME Init PROVE TypeOK
  OBVIOUS
<1>1. public \in Seq(Pages) /\ operational \in Seq([record : Records, available : BOOLEAN])
  BY DEF Init, RegistryInit
<1>2. {candidate, article} \subseteq Articles \cup {NoArticle}
  BY DEF Init
<1>3. {validated, fetched} \subseteq SUBSET Urls /\ selected \subseteq Mentionable
  BY DEF Init
<1>4. {insufficient, conflict, researchDone, cleared, articleDone} \subseteq BOOLEAN
  BY DEF Init
<1> QED BY <1>1, <1>2, <1>3, <1>4 DEF Init, TypeOK

\* Every step keeps the types.
LEMMA NextType == TypeOK /\ [Next]_vars => TypeOK'
<1> SUFFICES ASSUME TypeOK, [Next]_vars PROVE TypeOK'
  OBVIOUS
<1>1. CASE BeginResearch
  BY <1>1 DEF BeginResearch, ResetResearch, TypeOK
<1>2. CASE ResearchStep
  <2> DEFINE WorkspaceType ==
        /\ validated \subseteq Urls /\ fetched \subseteq Urls
        /\ {insufficient, conflict, researchDone} \subseteq BOOLEAN
  <2>1. public' \in Seq(Pages) /\ UNCHANGED operational
    BY <1>2, ResearchRegisters, RegisterPage DEF ResearchStep, TypeOK
  <2>2. WorkspaceType'
    <3>1. ASSUME NEW url \in Urls, ValidateSourceUrl(url) \/ FetchWebPage(url) PROVE WorkspaceType'
      BY <3>1 DEF ValidateSourceUrl, FetchWebPage, TypeOK
    <3>2. CASE AssessEvidence
      BY <3>2 DEF AssessEvidence, TypeOK, Insufficient, Conflicting
    <3>3. CASE SubmitResearchResult
      BY <3>3 DEF SubmitResearchResult, TypeOK
    <3> QED BY <1>2, <3>1, <3>2, <3>3 DEF ResearchStep, ResearchToolCall
  <2> QED BY <1>2, <2>1, <2>2 DEF ResearchStep, TypeOK
<1>3. CASE DeliverResearch
  BY <1>3 DEF DeliverResearch, TypeOK
<1>4. CASE DraftApproved
  <2>1. operational' \in Operational
    BY <1>4, RegisterRecord DEF DraftApproved, TypeOK, Operational
  <2> QED BY <1>4, <2>1 DEF DraftApproved, TypeOK, Operational
<1>5. CASE BeginArticle
  BY <1>5 DEF BeginArticle, ResetDocumentation, TypeOK
<1>6. CASE ArticleStep
  <2>1. ASSUME NEW ids \in SUBSET Mentionable, SelectPublicEvidence(ids) PROVE TypeOK'
    BY <1>6, <2>1 DEF ArticleStep, SelectPublicEvidence, TypeOK
  <2>2. ASSUME NEW a \in Articles, CheckArticlePrivacy(a) PROVE TypeOK'
    BY <1>6, <2>2 DEF ArticleStep, CheckArticlePrivacy, PrivacySafe, TypeOK
  <2>3. CASE SubmitArticle
    BY <1>6, <2>3 DEF ArticleStep, SubmitArticle, TypeOK
  <2> QED BY <1>6, <2>1, <2>2, <2>3 DEF ArticleStep, DocumentationToolCall
<1>7. CASE DeliverArticle
  BY <1>7 DEF DeliverArticle, TypeOK
<1>8. CASE AgentRaises
  BY <1>8 DEF AgentRaises, TypeOK
<1>9. CASE UNCHANGED vars
  BY <1>9 DEF vars, TypeOK
<1> QED BY <1>1, <1>2, <1>3, <1>4, <1>5, <1>6, <1>7, <1>8, <1>9 DEF Next, Rest

\* Every variable of research and documentation always has the type its code gives it.
THEOREM TypeCorrect == Spec => []TypeOK
BY InitType, NextType, PTL DEF Spec

-----------------------------------------------------------------------------
(* Pages are never withdrawn.                                              *)

\* What was issued stays issued, and two pages that disagree go on disagreeing.
LEMMA PagesStay ==
  ASSUME TypeOK, UNCHANGED public \/ \E page \in Pages : Vetted(page) /\ RegisterPublic(page)
  PROVE  /\ PublicIds \subseteq PublicIds'
         /\ public # << >> => public' # << >>
         /\ Conflicting(public) => Conflicting(public)'
<1>1. CASE UNCHANGED public
  BY <1>1 DEF PublicIds, Ids, Conflicting
<1>2. CASE \E page \in Pages : Vetted(page) /\ RegisterPublic(page)
  <2>1. /\ public' # << >>
        /\ Len(public) <= Len(public')
        /\ \A i \in DOMAIN public : i \in DOMAIN public' /\ public'[i] = public[i]
        /\ Len(public) \in Nat /\ Len(public') \in Nat
    BY <1>2, RegisterPage, LenProperties DEF TypeOK
  <2>2. PublicIds \subseteq PublicIds'
    BY <2>1 DEF PublicIds, Ids
  <2>3. Conflicting(public) => Conflicting(public)'
    BY <2>1 DEF Conflicting, HoldsPosition
  <2> QED BY <2>1, <2>2, <2>3
<1> QED BY <1>1, <1>2

\* No step but a call of a research tool changes the list of pages.
LEMMA PublicChanges ==
  ASSUME [Next]_vars
  PROVE  UNCHANGED public \/ \E page \in Pages : Vetted(page) /\ RegisterPublic(page)
<1>1. CASE ResearchStep
  BY <1>1, ResearchRegisters DEF ResearchStep
<1>2. CASE ArticleStep
  BY <1>2 DEF ArticleStep, DocumentationToolCall, SelectPublicEvidence, CheckArticlePrivacy, SubmitArticle
<1> QED
  BY <1>1, <1>2
  DEF Next, vars, BeginResearch, DeliverResearch, DraftApproved, BeginArticle, DeliverArticle,
      AgentRaises, Rest

-----------------------------------------------------------------------------
(* Research.                                                               *)

\* A ticket starts with nothing found and nothing claimed.
LEMMA InitInv == Init => IInv
BY DEF Init, IInv, ResearchInv, ArticleInv, EmptyResearchEscalates, EvidenceIsVetted,
       ConflictEscalationIsReal, PublishedArticleIsPublic, RegistryInit, NoArticle

\* Turns: an agent at work is at work in the status it was started in.
LEMMA TurnsKept ==
  ASSUME TypeOK, ResearchInv, ArticleInv, [Next]_vars
  PROVE  /\ running' = "research" => currentState' = "triaged"
         /\ running' = "documentation" => currentState' = "qa_approved"
BY DEF ResearchInv, ArticleInv, TypeOK, Next, vars, BeginResearch, ResearchStep, DeliverResearch, DraftApproved,
       BeginArticle, ArticleStep, DeliverArticle, AgentRaises, Rest

\* The flags of the research workspace.
LEMMA ResearchInvKept == TypeOK /\ IInv /\ [Next]_vars => ResearchInv'
<1> SUFFICES ASSUME TypeOK, IInv, [Next]_vars PROVE ResearchInv'
  OBVIOUS
<1>1. running' = "research" => currentState' = "triaged"
  BY TurnsKept DEF IInv
<1>2. /\ public # << >> => public' # << >>
      /\ Conflicting(public) => Conflicting(public)'
  BY PublicChanges, PagesStay
<1>3. CASE UNCHANGED <<insufficient, conflict, researchDone>>
  BY <1>1, <1>2, <1>3 DEF IInv, ResearchInv
<1>4. CASE BeginResearch
  BY <1>1, <1>4 DEF BeginResearch, ResetResearch, ResearchInv
<1>5. CASE ResearchStep /\ AssessEvidence
  BY <1>1, <1>5 DEF AssessEvidence, ResearchInv, Insufficient, Conflicting
<1>6. CASE ResearchStep /\ SubmitResearchResult
  <2>1. Conflicting(public) => public # << >>
    BY DEF Conflicting
  <2> QED BY <1>1, <1>2, <1>6, <2>1 DEF SubmitResearchResult, IInv, ResearchInv
<1> QED
  BY <1>3, <1>4, <1>5, <1>6
  DEF Next, vars, ResearchStep, ResearchToolCall, ValidateSourceUrl, FetchWebPage, DeliverResearch,
      DraftApproved, BeginArticle, ArticleStep, DeliverArticle, AgentRaises, Rest

\* A position, as a statement about the mentions of a topic.
SaysYes(page, topic) ==
  /\ \A m \in page.mentions[topic] : m.negated => m.hedged
  /\ \E m \in page.mentions[topic] : ~m.negated /\ ~m.hedged

SaysNo(page, topic) ==
  /\ \A m \in page.mentions[topic] : m.negated \/ m.hedged
  /\ \E m \in page.mentions[topic] : m.negated /\ ~m.hedged

\* Who reads the mentions one by one finds the same positions as the rules do.
LEMMA PositionMeans ==
  ASSUME NEW page \in Pages, NEW topic \in Topics
  PROVE  /\ HoldsPosition(page, topic, "yes") <=> SaysYes(page, topic)
         /\ HoldsPosition(page, topic, "no") <=> SaysNo(page, topic)
<1>1. \A m \in page.mentions[topic] : m.hedged \in BOOLEAN /\ m.negated \in BOOLEAN
  BY ResearchAssumption DEF Mentions
<1>2. \A m \in page.mentions[topic] :
        /\ Reading(m) = "hedged" <=> m.hedged
        /\ Reading(m) = "yes" <=> ~m.negated /\ ~m.hedged
        /\ Reading(m) = "no" <=> m.negated /\ ~m.hedged
        /\ Reading(m) \in {"hedged", "yes", "no"}
  BY <1>1 DEF Reading
<1> QED BY <1>1, <1>2 DEF HoldsPosition, SaysYes, SaysNo

\* What is in the registry got there by the rules and stays as it was.
LEMMA VettedKept == TypeOK /\ EvidenceIsVetted /\ [Next]_vars => EvidenceIsVetted'
<1> SUFFICES ASSUME TypeOK, EvidenceIsVetted, [Next]_vars PROVE EvidenceIsVetted'
  OBVIOUS
<1>1. CASE UNCHANGED public
  BY <1>1 DEF EvidenceIsVetted
<1>2. ASSUME NEW page \in Pages, Vetted(page), RegisterPublic(page) PROVE EvidenceIsVetted'
  <2>1. /\ \A i \in DOMAIN public : public'[i] = public[i]
        /\ \A i \in DOMAIN public' \ DOMAIN public : public'[i] = page
    BY <1>2, RegisterPage DEF TypeOK
  <2> QED BY <1>2, <2>1 DEF EvidenceIsVetted, Vetted
<1> QED BY <1>1, <1>2, PublicChanges

\* What the kernel concludes from them.
LEMMA RoutingKept ==
  TypeOK /\ IInv /\ [Next]_vars => EmptyResearchEscalates' /\ ConflictEscalationIsReal'
<1> SUFFICES ASSUME TypeOK, IInv, [Next]_vars
             PROVE  EmptyResearchEscalates' /\ ConflictEscalationIsReal'
  OBVIOUS
<1> DEFINE Disagree ==
      \E i, j \in DOMAIN public, topic \in Topics :
        SaysYes(public[i], topic) /\ SaysNo(public[j], topic)
<1>1. /\ public # << >> => public' # << >>
      /\ Conflicting(public) => Conflicting(public)'
  BY PublicChanges, PagesStay
<1>2. (Conflicting(public) <=> Disagree) /\ (Conflicting(public) <=> Disagree)'
  <2>1. public \in Seq(Pages) /\ public' \in Seq(Pages)
    BY NextType DEF TypeOK
  <2>2. /\ \A i \in DOMAIN public : public[i] \in Pages
        /\ \A i \in DOMAIN public' : public'[i] \in Pages
    BY <2>1
  <2> QED BY <2>2, PositionMeans DEF Conflicting
<1>3. (ConflictEscalationIsReal <=> (escalation = "conflicting_evidence" => Disagree))
      /\ (ConflictEscalationIsReal <=> (escalation = "conflicting_evidence" => Disagree))'
  BY DEF ConflictEscalationIsReal, SaysYes, SaysNo
<1> HIDE DEF Disagree
<1>4. CASE DeliverResearch
  BY <1>1, <1>2, <1>3, <1>4 DEF DeliverResearch, IInv, ResearchInv, EmptyResearchEscalates
<1>5. ASSUME ~DeliverResearch
      PROVE  /\ escalation' = escalation
             /\ currentState' \in {"researched", "qa_approved", "documented"} =>
                  currentState \in {"researched", "qa_approved", "documented"}
  BY <1>5
  DEF IInv, ArticleInv, TypeOK, Next, vars, BeginResearch, ResearchStep, DraftApproved, BeginArticle,
      ArticleStep, DeliverArticle, AgentRaises, Rest
<1> QED BY <1>1, <1>2, <1>3, <1>4, <1>5 DEF IInv, EmptyResearchEscalates

-----------------------------------------------------------------------------
(* Documentation.                                                          *)

\* What is selected and kept was issued, and what is kept leaks nothing.
LEMMA ArticleInvKept == TypeOK /\ IInv /\ [Next]_vars => ArticleInv' /\ PublishedArticleIsPublic'
<1> SUFFICES ASSUME TypeOK, IInv, [Next]_vars PROVE ArticleInv' /\ PublishedArticleIsPublic'
  OBVIOUS
<1>1. running' = "documentation" => currentState' = "qa_approved"
  BY TurnsKept DEF IInv
<1>2. PublicIds \subseteq PublicIds'
  BY PublicChanges, PagesStay
<1>3. CASE UNCHANGED <<selected, candidate, article>>
  BY <1>1, <1>2, <1>3 DEF IInv, ArticleInv, PublishedArticleIsPublic
<1>4. CASE BeginArticle
  BY <1>1, <1>2, <1>4 DEF BeginArticle, ResetDocumentation, IInv, ArticleInv, PublishedArticleIsPublic
<1>5. CASE ArticleStep
  <2>1. ASSUME NEW ids \in SUBSET Mentionable, SelectPublicEvidence(ids)
        PROVE  ArticleInv' /\ PublishedArticleIsPublic'
    BY <1>1, <1>2, <1>5, <2>1
    DEF ArticleStep, SelectPublicEvidence, IInv, ArticleInv, PublishedArticleIsPublic
  <2>2. ASSUME NEW a \in Articles, CheckArticlePrivacy(a)
        PROVE  ArticleInv' /\ PublishedArticleIsPublic'
    BY <1>1, <1>2, <1>5, <2>2
    DEF ArticleStep, CheckArticlePrivacy, PrivacySafe, IInv, ArticleInv, PublishedArticleIsPublic
  <2>3. CASE SubmitArticle
    BY <1>3, <1>5, <2>3 DEF ArticleStep, SubmitArticle
  <2> QED BY <1>5, <2>1, <2>2, <2>3 DEF ArticleStep, DocumentationToolCall
<1>6. CASE DeliverArticle
  BY <1>1, <1>2, <1>6 DEF DeliverArticle, IInv, ArticleInv, PublishedArticleIsPublic
<1> QED
  BY <1>3, <1>4, <1>5, <1>6
  DEF Next, vars, BeginResearch, ResearchStep, DeliverResearch, DraftApproved, AgentRaises, Rest

-----------------------------------------------------------------------------
(* The theorems.                                                           *)

\* The inductive invariant holds throughout.
THEOREM Invariance == Spec => []IInv
<1>1. TypeOK /\ IInv /\ [Next]_vars => IInv'
  BY ResearchInvKept, RoutingKept, VettedKept, ArticleInvKept DEF IInv
<1> QED BY InitInv, <1>1, TypeCorrect, PTL DEF Spec

\* Nobody drafts or writes from an empty registry.
THEOREM EmptyResearch == Spec => []EmptyResearchEscalates
<1>1. IInv => EmptyResearchEscalates
  BY DEF IInv
<1> QED BY Invariance, <1>1, PTL

\* Evidence comes from allowed hosts and is about the ticket's subject.
THEOREM VettedEvidence == Spec => []EvidenceIsVetted
<1>1. IInv => EvidenceIsVetted
  BY DEF IInv
<1> QED BY Invariance, <1>1, PTL

\* An escalation over conflicting evidence has two pages that disagree behind it.
THEOREM RealConflicts == Spec => []ConflictEscalationIsReal
<1>1. IInv => ConflictEscalationIsReal
  BY DEF IInv
<1> QED BY Invariance, <1>1, PTL

\* A published article leaks nothing and cites only public evidence that was issued.
THEOREM PublicArticles == Spec => []PublishedArticleIsPublic
<1>1. IInv => PublishedArticleIsPublic
  BY DEF IInv
<1> QED BY Invariance, <1>1, PTL
=============================================================================
