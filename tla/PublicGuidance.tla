---------------------------- MODULE PublicGuidance ----------------------------
(***************************************************************************)
(* The public evidence of one ticket, from its retrieval to the article    *)
(* that cites it: the Research Agent fills the registry and flags what it  *)
(* holds, the kernel escalates or moves on, and after QA's approval the    *)
(* Documentation Agent writes for the next customer.  Either agent may     *)
(* fail at any point, also after submitting, and be started again.         *)
(*                                                                         *)
(* What lies between the two is DraftReview's.  Here it is one step that   *)
(* may leave operational evidence behind and adds no public evidence.      *)
(***************************************************************************)
EXTENDS ResearchTools, DocumentationTools

VARIABLES
  currentState,  \* WorkflowState.current_state
  escalation,    \* WorkflowState.escalation.reason_code
  article,       \* WorkflowState.article
  running        \* the specialist at work, or "nobody"

vars ==
  <<registryVars, researchVars, documentationVars, currentState, escalation, article, running>>

\* The kernel's routing; its other state plays no part here.
Kernel ==
  INSTANCE WorkflowKernel WITH
    MaxRevisions <- 0, MaxToolCalls <- 0, MaxDelegationFailures <- 1,
    humanApproval <- "none", products <- {}, supportDraft <- 0, qaResult <- "none",
    article <- 0, revisionCount <- 0, failureStreak <- 0, toolCallCount <- 0,
    delegations <- << >>, finalized <- FALSE, errorSummary <- "none"

routing == <<currentState, escalation>>

Init ==
  /\ RegistryInit
  /\ validated = {} /\ fetched = {}
  /\ insufficient = FALSE /\ conflict = FALSE /\ researchDone = FALSE
  /\ selected = {} /\ candidate = NoArticle /\ cleared = FALSE /\ articleDone = FALSE
  /\ currentState = "triaged"
  /\ escalation = "none"
  /\ article = NoArticle
  /\ running = "nobody"

-----------------------------------------------------------------------------
(* Research.                                                               *)

BeginResearch ==
  /\ running = "nobody"
  /\ currentState \in Kernel!RequiredStates["research"]
  /\ ResetResearch
  /\ running' = "research"
  /\ UNCHANGED <<registryVars, documentationVars, routing, article>>

ResearchStep ==
  /\ running = "research"
  /\ ResearchToolCall
  /\ UNCHANGED <<documentationVars, routing, article, running>>

\* The flags go by the assessment, the evidence is what the registry holds by now.
DeliverResearch ==
  /\ running = "research"
  /\ researchDone
  /\ Kernel!RouteOrEscalate("researched",
       IF insufficient THEN "insufficient_evidence"
       ELSE IF conflict THEN "conflicting_evidence" ELSE "none")
  /\ running' = "nobody"
  /\ UNCHANGED <<registryVars, researchVars, documentationVars, article>>

-----------------------------------------------------------------------------
(* Drafting and review, then documentation.                                *)

DraftApproved ==
  /\ running = "nobody"
  /\ currentState = "researched"
  /\ \/ \E record \in Records : RegisterOperational(record, TRUE)
     \/ UNCHANGED operational
  /\ currentState' = "qa_approved"
  /\ UNCHANGED <<public, researchVars, documentationVars, escalation, article, running>>

BeginArticle ==
  /\ running = "nobody"
  /\ currentState \in Kernel!RequiredStates["documentation"]
  /\ ResetDocumentation
  /\ running' = "documentation"
  /\ UNCHANGED <<registryVars, researchVars, routing, article>>

ArticleStep ==
  /\ running = "documentation"
  /\ DocumentationToolCall
  /\ UNCHANGED <<researchVars, routing, article, running>>

DeliverArticle ==
  /\ running = "documentation"
  /\ articleDone
  /\ candidate # NoArticle
  /\ article' = candidate
  /\ Kernel!Transition("documented")
  /\ running' = "nobody"
  /\ UNCHANGED <<registryVars, researchVars, documentationVars, escalation>>

\* The model provider fails, or the agent ends its turn having submitted nothing.
AgentRaises ==
  /\ running # "nobody"
  /\ running' = "nobody"
  /\ UNCHANGED <<registryVars, researchVars, documentationVars, routing, article>>

Rest == running = "nobody" /\ UNCHANGED vars

Next ==
  \/ BeginResearch
  \/ ResearchStep
  \/ DeliverResearch
  \/ DraftApproved
  \/ BeginArticle
  \/ ArticleStep
  \/ DeliverArticle
  \/ AgentRaises
  \/ Rest

Spec == Init /\ [][Next]_vars

-----------------------------------------------------------------------------
(* Properties.                                                             *)

\* Every variable of research and documentation has the type its code gives it.
TypeOK ==
  /\ public \in Seq(Pages)
  /\ operational \in Seq([record : Records, available : BOOLEAN])
  /\ {validated, fetched} \subseteq SUBSET Urls
  /\ {insufficient, conflict, researchDone, cleared, articleDone} \subseteq BOOLEAN
  /\ selected \subseteq Mentionable
  /\ {candidate, article} \subseteq Articles \cup {NoArticle}
  /\ currentState \in {"triaged", "researched", "qa_approved", "documented", "escalated"}
  /\ escalation \in {"none", "insufficient_evidence", "conflicting_evidence"}
  /\ running \in {"nobody", "research", "documentation"}

\* A run without any public evidence is escalated, whether the agent assessed it or not
\* and however many attempts came to nothing: nobody drafts from an empty registry.
EmptyResearchEscalates ==
  currentState \in {"researched", "qa_approved", "documented"} => public # << >>

\* What the registry hands to drafting came from a host the policy allows, wherever a
\* redirect led, and is about the ticket's subject, also when another attempt fetched it.
EvidenceIsVetted ==
  \A i \in DOMAIN public : public[i].url \in SafeUrls /\ Relevant(public[i])

\* A run is escalated for conflicting evidence only if two of the pages it hands over
\* really disagree, however stale the flag: one says yes without a hedge and never no, the
\* other no and never yes.  A conflict once found cannot go away.
ConflictEscalationIsReal ==
  escalation = "conflicting_evidence" =>
    \E i, j \in DOMAIN public, topic \in Topics :
      /\ \A m \in public[i].mentions[topic] : m.negated => m.hedged
      /\ \A m \in public[j].mentions[topic] : m.negated \/ m.hedged
      /\ \E m \in public[i].mentions[topic] : ~m.negated /\ ~m.hedged
      /\ \E m \in public[j].mentions[topic] : m.negated /\ ~m.hedged

\* The article a run publishes names no customer, shows nothing sensitive and cites only
\* public evidence that was issued -- whatever the agent screened, selected or submitted
\* again after its submission, and whatever an earlier attempt left behind.
PublishedArticleIsPublic ==
  article # NoArticle => article.leaks = {} /\ article.cites \subseteq PublicIds


-----------------------------------------------------------------------------
(* The inductive invariant behind the three.                               *)

\* The flag of a conflict outlives its assessment but not its cause, and a submission
\* that had no evidence went through an assessment that says so.
ResearchInv ==
  /\ running = "research" => currentState = "triaged"
  /\ conflict => Conflicting(public)
  /\ researchDone /\ public = << >> => insufficient

\* What was selected was issued, and what is kept passed a screening.
ArticleInv ==
  /\ running = "documentation" => currentState = "qa_approved"
  /\ selected \subseteq PublicIds
  /\ candidate # NoArticle => candidate.leaks = {} /\ candidate.cites \subseteq PublicIds

IInv ==
  /\ ResearchInv
  /\ ArticleInv
  /\ EmptyResearchEscalates
  /\ EvidenceIsVetted
  /\ ConflictEscalationIsReal
  /\ PublishedArticleIsPublic

-----------------------------------------------------------------------------
(* Claims of the documentation that the code does not meet.                *)

\* specs/001-agentic-refactor/plan.md, principle V: "Insufficient and conflicting evidence
\* escalate".
UnusableEvidenceEscalates ==
  currentState = "researched" => ~Insufficient(public) /\ ~Conflicting(public)
=============================================================================
