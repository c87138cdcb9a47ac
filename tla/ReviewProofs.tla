----------------------------- MODULE ReviewProofs -----------------------------
(***************************************************************************)
(* Proofs about DraftReview, for every registry, every draft a model may   *)
(* write and every revision limit.  First the types, then IInv: whose turn *)
(* it is decides which draft is under review, a passed check holds of that *)
(* draft, and what a draft cites was issued and stays issued.              *)
(***************************************************************************)
EXTENDS DraftReview, SequenceTheorems, TLAPS

\* What the agents' tools leave alone.
USE DEF routing, handed, registryVars, serviceVars, supportVars, qaVars

-----------------------------------------------------------------------------
(* Types.                                                                  *)

\* The run starts well typed.
LEMMA InitType == Init => TypeOK
BY RegistryAssumption, ReviewAssumption DEF Init, TypeOK, RegistryInit, ServiceInit, NoAnswer, NoDraft, NoResult, Drafts, Results,
   Outcomes, Objections, RequiredChecks

\* Registering a record: the list stays a list of records, and only grows.
LEMMA RegisterType ==
  ASSUME NEW r \in Records, NEW a \in BOOLEAN, RegisterOperational(r, a),
         operational \in Seq([record : Records, available : BOOLEAN])
  PROVE  /\ operational' \in Seq([record : Records, available : BOOLEAN])
         /\ Len(operational) <= Len(operational')
<1> DEFINE Items == [record : Records, available : BOOLEAN]
           item  == [record |-> r, available |-> a]
<1>1. item \in Items /\ operational \in Seq(Items)
  OBVIOUS
<1>2. operational' = operational \/ operational' = Append(operational, item)
  BY DEF RegisterOperational
<1>3. Len(operational) \in Nat
  BY <1>1, LenProperties
<1> HIDE DEF Items, item
<1>4. operational' \in Seq(Items) /\ Len(operational) <= Len(operational')
  BY <1>1, <1>2, <1>3, AppendProperties
<1> QED BY <1>4 DEF Items

\* Every entry afterwards is an old one or the one registered.
LEMMA RegisterAppends ==
  ASSUME NEW r \in Records, NEW a \in BOOLEAN, RegisterOperational(r, a),
         operational \in Seq([record : Records, available : BOOLEAN])
  PROVE  \A i \in DOMAIN operational' :
           \/ i \in DOMAIN operational /\ operational'[i] = operational[i]
           \/ operational'[i].record = r /\ operational'[i].available = a
<1> DEFINE Items == [record : Records, available : BOOLEAN]
           item  == [record |-> r, available |-> a]
<1>1. item \in Items /\ operational \in Seq(Items) /\ item.record = r /\ item.available = a
  OBVIOUS
<1>2. operational' = operational \/ operational' = Append(operational, item)
  BY DEF RegisterOperational
<1> HIDE DEF Items, item
<1>3. CASE operational' = Append(operational, item)
  BY <1>1, <1>3, AppendProperties, LenProperties
<1> QED BY <1>1, <1>2, <1>3

\* Looking a record up keeps the registry and the last answer well typed.
LEMMA LookUpType ==
  ASSUME TypeOK, NEW asked \in Records, LookUp(asked)
  PROVE  /\ operational' \in Seq([record : Records, available : BOOLEAN])
         /\ answer'.kind \in {"none", "found", "absent", "outage"}
<1> DEFINE found  == asked \in rows
           record == IF found THEN Holds[asked] ELSE asked
<1>1. record \in Records
  BY ServiceAssumption DEF TypeOK
<1>2. found \in BOOLEAN /\ RegisterOperational(record, found)
  BY DEF LookUp
<1>3. operational' \in Seq([record : Records, available : BOOLEAN])
  <2> HIDE DEF found, record
  <2> QED BY <1>1, <1>2, RegisterType DEF TypeOK
<1>4. answer'.kind \in {"none", "found", "absent", "outage"}
  BY DEF LookUp
<1> QED BY <1>3, <1>4

\* Every step of drafting and review keeps the types.
LEMMA NextType == TypeOK /\ [Next]_vars => TypeOK'
<1> SUFFICES ASSUME TypeOK, [Next]_vars PROVE TypeOK'
  OBVIOUS
<1>1. ASSUME NEW page \in Pages, FetchPage(page) PROVE TypeOK'
  BY <1>1 DEF FetchPage, RegisterPublic, TypeOK
<1>2. CASE ResearchEnds
  BY <1>2 DEF ResearchEnds, TypeOK, Kernel!Transition
<1>3. CASE BeginDraft
  BY <1>3 DEF BeginDraft, ResetSupport, TypeOK, NoDraft, NoAnswer, Drafts, Results
<1>4. CASE DraftingStep
  <2>1. ASSUME NEW asked \in Records, LookUp(asked) PROVE TypeOK'
    BY <1>4, <2>1, LookUpType DEF DraftingStep, TypeOK, LookUp
  <2>2. CASE LookUpOutage
    BY <1>4, <2>2 DEF DraftingStep, TypeOK, LookUpOutage
  <2>3. ASSUME NEW cites \in SUBSET Citable, NEW text \in Texts,
               SubmitDraft([cites |-> cites, text |-> text])
        PROVE  TypeOK'
    BY <1>4, <2>3 DEF DraftingStep, TypeOK, SubmitDraft, Drafts
  <2> QED BY <1>4, <2>1, <2>2, <2>3 DEF DraftingStep, SupportToolCall
<1>5. CASE DeliverDraft
  BY <1>5 DEF DeliverDraft, TypeOK, NoAnswer, Kernel!Transition
<1>6. CASE BeginReview
  BY <1>6 DEF BeginReview, ResetQA, TypeOK, NoResult, Results, Outcomes, Objections
<1>7. CASE ReviewStep
  <2>1. ASSUME NEW c \in RequiredChecks, RunCheck(c) PROVE TypeOK'
    BY <1>7, <2>1 DEF ReviewStep, TypeOK, RunCheck, Outcomes
  <2>2. ASSUME NEW objections \in SUBSET Objections, RequestRevision(objections) PROVE TypeOK'
    BY <1>7, <2>2 DEF ReviewStep, TypeOK, RequestRevision
  <2>3. ASSUME NEW decision \in {"approve", "revise", "escalate"},
               NEW issues \in SUBSET Objections, SubmitDecision(decision, issues)
        PROVE  TypeOK'
    BY <1>7, <2>3 DEF ReviewStep, TypeOK, SubmitDecision, Results, EscalationReasonFor
  <2> QED BY <1>7, <2>1, <2>2, <2>3 DEF ReviewStep, QAToolCall
<1>8. CASE DeliverReview
  <2>1. result.reason \in Kernel!EscalationReason \cup {"none"}
    BY DEF TypeOK, Results, Kernel!EscalationReason, Kernel!RestrictedReasons
  <2> QED
    BY <1>8, <2>1, ReviewAssumption
    DEF DeliverReview, TypeOK, Kernel!RouteQA, Kernel!RouteOrEscalate, Kernel!Transition, Kernel!Escalate,
        Kernel!Terminate, Kernel!NoReason, Kernel!EscalationReason
<1>9. CASE AgentRaises
  BY <1>9 DEF AgentRaises, TypeOK
<1>10. CASE ReseedMeanwhile
  BY <1>10 DEF ReseedMeanwhile, Reseed, DeleteRows, InsertRows, TypeOK
<1>11. CASE UNCHANGED vars
  BY <1>11 DEF vars, TypeOK
<1> QED
  BY <1>1, <1>2, <1>3, <1>4, <1>5, <1>6, <1>7, <1>8, <1>9, <1>10, <1>11 DEF Next, Rest

\* Every variable of drafting and review always has the type its code gives it.
THEOREM TypeCorrect == Spec => []TypeOK
BY InitType, NextType, PTL DEF Spec
-----------------------------------------------------------------------------
(* Evidence is never withdrawn.                                            *)

\* Identifiers that were issued stay issued, so a grounded draft stays grounded.
LEMMA EvidenceStays ==
  ASSUME TypeOK,
         \/ \E page \in Pages : RegisterPublic(page) /\ UNCHANGED operational
         \/ UNCHANGED public /\ \E r \in Records, a \in BOOLEAN : RegisterOperational(r, a)
         \/ UNCHANGED <<public, operational>>
  PROVE  /\ KnownIds \subseteq KnownIds'
         /\ OperationalIds \subseteq OperationalIds'
         /\ public # << >> => public' # << >>
<1>1. Len(public) \in Nat /\ Len(operational) \in Nat
  BY LenProperties DEF TypeOK
<1>2. /\ Len(public) <= Len(public') /\ Len(public') \in Nat
      /\ public # << >> => public' # << >>
  <2>1. ASSUME NEW page \in Pages, RegisterPublic(page)
        PROVE  \/ public' = public
               \/ public' = Append(public, page)
    BY <2>1 DEF RegisterPublic
  <2>2. ASSUME NEW page \in Pages
        PROVE  Append(public, page) # << >> /\ Len(Append(public, page)) = Len(public) + 1
    BY <2>2, AppendProperties DEF TypeOK
  <2> QED BY <1>1, <2>1, <2>2
<1>3. Len(operational) <= Len(operational') /\ Len(operational') \in Nat
  <2>1. ASSUME NEW r \in Records, NEW a \in BOOLEAN, RegisterOperational(r, a)
        PROVE  /\ operational' \in Seq([record : Records, available : BOOLEAN])
               /\ Len(operational) <= Len(operational')
    BY <2>1, RegisterType DEF TypeOK
  <2>2. ASSUME operational' \in Seq([record : Records, available : BOOLEAN])
        PROVE  Len(operational') \in Nat
    BY <2>2, LenProperties
  <2> QED BY <1>1, <2>1, <2>2
<1> QED BY <1>1, <1>2, <1>3 DEF KnownIds, PublicIds, OperationalIds, Ids

\* What a step of research or drafting does to the registry.
LEMMA RegistrySteps ==
  ASSUME TypeOK, [Next]_vars
  PROVE  \/ \E page \in Pages : RegisterPublic(page) /\ UNCHANGED operational
         \/ UNCHANGED public /\ \E r \in Records, a \in BOOLEAN : RegisterOperational(r, a)
         \/ UNCHANGED <<public, operational>>
<1>1. ASSUME NEW asked \in Records, LookUp(asked)
      PROVE  UNCHANGED public /\ \E r \in Records, a \in BOOLEAN : RegisterOperational(r, a)
  <2> DEFINE a == asked \in rows
             r == IF a THEN Holds[asked] ELSE asked
  <2>1. r \in Records /\ a \in BOOLEAN
    BY ServiceAssumption DEF TypeOK
  <2>2. RegisterOperational(r, a) /\ UNCHANGED public
    BY <1>1 DEF LookUp
  <2> HIDE DEF a, r
  <2> QED BY <2>1, <2>2
<1>2. CASE DraftingStep
  BY <1>1, <1>2 DEF DraftingStep, SupportToolCall, LookUpOutage, SubmitDraft
<1>3. CASE ReviewStep
  BY <1>3 DEF ReviewStep, QAToolCall, RunCheck, RequestRevision, SubmitDecision
<1> QED
  BY <1>2, <1>3 DEF Next, vars, FetchPage, ResearchEnds, BeginDraft, DeliverDraft, BeginReview,
                    DeliverReview, AgentRaises, ReseedMeanwhile, Rest

\* A registration gives no second identifier to what has one.
LEMMA OneIdKept ==
  ASSUME TypeOK, OneIdPerRecord,
         \/ \E page \in Pages : RegisterPublic(page) /\ UNCHANGED operational
         \/ UNCHANGED public /\ \E r \in Records, a \in BOOLEAN : RegisterOperational(r, a)
         \/ UNCHANGED <<public, operational>>
  PROVE  OneIdPerRecord'
<1> DEFINE Items == [record : Records, available : BOOLEAN]
<1>1. ASSUME NEW page \in Pages, RegisterPublic(page), UNCHANGED operational
      PROVE  OneIdPerRecord'
  <2>1. CASE public' = public
    BY <1>1, <2>1 DEF OneIdPerRecord
  <2>2. CASE public' # public
    <3>1. /\ public' = Append(public, page)
          /\ \A i \in DOMAIN public : public[i].hash # page.hash /\ public[i].url # page.url
      BY <1>1, <2>2 DEF RegisterPublic
    <3>2. /\ Len(public) \in Nat /\ DOMAIN public = 1 .. Len(public)
          /\ DOMAIN public' = 1 .. (Len(public) + 1)
          /\ \A i \in 1 .. Len(public) : public'[i] = public[i]
          /\ public'[Len(public) + 1] = page
      BY <3>1, AppendProperties, LenProperties DEF TypeOK
    <3>3. \A i, j \in DOMAIN public' :
            public'[i].hash = public'[j].hash \/ public'[i].url = public'[j].url => i = j
      <4> SUFFICES ASSUME NEW i \in DOMAIN public', NEW j \in DOMAIN public',
                          public'[i].hash = public'[j].hash \/ public'[i].url = public'[j].url
                   PROVE  i = j
        OBVIOUS
      <4>1. CASE i \in DOMAIN public /\ j \in DOMAIN public
        BY <3>2, <4>1 DEF OneIdPerRecord
      <4>2. CASE i = Len(public) + 1 \/ j = Len(public) + 1
        <5>1. \A k \in DOMAIN public' : k = Len(public) + 1 \/ k \in DOMAIN public
          BY <3>2
        <5>2. ASSUME NEW k \in DOMAIN public
              PROVE  public'[k].hash # page.hash /\ public'[k].url # page.url
          BY <3>1, <3>2
        <5> QED BY <3>2, <4>2, <5>1, <5>2
      <4> QED BY <3>2, <4>1, <4>2
    <3> QED BY <1>1, <3>3 DEF OneIdPerRecord
  <2> QED BY <2>1, <2>2
<1>2. ASSUME NEW r \in Records, NEW a \in BOOLEAN, RegisterOperational(r, a), UNCHANGED public
      PROVE  OneIdPerRecord'
  <2> DEFINE item == [record |-> r, available |-> a]
  <2>1. CASE operational' = operational
    BY <1>2, <2>1 DEF OneIdPerRecord
  <2>2. CASE operational' # operational
    <3>1. /\ operational' = Append(operational, item)
          /\ \A i \in DOMAIN operational : Folded[operational[i].record] # Folded[r]
      BY <1>2, <2>2 DEF RegisterOperational
    <3>2. item \in Items /\ operational \in Seq(Items) /\ item.record = r
      BY DEF TypeOK
    <3>3. /\ Len(operational) \in Nat /\ DOMAIN operational = 1 .. Len(operational)
          /\ DOMAIN operational' = 1 .. (Len(operational) + 1)
          /\ \A i \in 1 .. Len(operational) : operational'[i] = operational[i]
          /\ operational'[Len(operational) + 1] = item
      <4> HIDE DEF item, Items
      <4>1. operational' \in Seq(Items) /\ Len(operational') = Len(operational) + 1
        BY <3>1, <3>2, AppendProperties
      <4> QED BY <3>1, <3>2, <4>1, AppendProperties, LenProperties
    <3> HIDE DEF item
    <3>4. \A i, j \in DOMAIN operational' :
            Folded[operational'[i].record] = Folded[operational'[j].record] => i = j
      <4> SUFFICES ASSUME NEW i \in DOMAIN operational', NEW j \in DOMAIN operational',
                          Folded[operational'[i].record] = Folded[operational'[j].record]
                   PROVE  i = j
        OBVIOUS
      <4>1. CASE i \in DOMAIN operational /\ j \in DOMAIN operational
        BY <3>3, <4>1 DEF OneIdPerRecord
      <4>2. CASE i = Len(operational) + 1 \/ j = Len(operational) + 1
        <5>1. \A k \in DOMAIN operational' : k = Len(operational) + 1 \/ k \in DOMAIN operational
          BY <3>3
        <5>2. ASSUME NEW k \in DOMAIN operational
              PROVE  Folded[operational'[k].record] # Folded[r]
          BY <3>1, <3>3
        <5> QED BY <3>2, <3>3, <4>2, <5>1, <5>2
      <4> QED BY <3>3, <4>1, <4>2
    <3> QED BY <1>2, <3>4 DEF OneIdPerRecord
  <2> QED BY <2>1, <2>2
<1> QED BY <1>1, <1>2 DEF OneIdPerRecord

-----------------------------------------------------------------------------
(* The service.                                                            *)

\* What is registered is what the rows say at that moment, and rows that are missing are
\* missing because the database was emptied.
LEMMA ServiceKept ==
  TypeOK /\ ServiceInv /\ AbsenceIsReal /\ [Next]_vars => ServiceInv' /\ AbsenceIsReal'
<1> SUFFICES ASSUME TypeOK, ServiceInv, AbsenceIsReal, [Next]_vars
             PROVE  ServiceInv' /\ AbsenceIsReal'
  OBVIOUS
<1>1. CASE ReseedMeanwhile
  BY <1>1 DEF ReseedMeanwhile, Reseed, DeleteRows, InsertRows, TypeOK, ServiceInv, AbsenceIsReal
<1>2. ASSUME NEW asked \in Records, LookUp(asked) PROVE ServiceInv' /\ AbsenceIsReal'
  <2> DEFINE a == asked \in rows
             r == IF a THEN Holds[asked] ELSE asked
  <2>1. /\ r \in Records /\ a \in BOOLEAN
        /\ a => \E s \in DOMAIN Holds : Holds[s] = r
        /\ ~a /\ r \in DOMAIN Holds => reseeds > 0
    BY ServiceAssumption DEF TypeOK, ServiceInv
  <2>2. RegisterOperational(r, a) /\ UNCHANGED <<rows, reseeds>>
    BY <1>2 DEF LookUp
  <2> HIDE DEF a, r
  <2>3. \A i \in DOMAIN operational' :
          \/ i \in DOMAIN operational /\ operational'[i] = operational[i]
          \/ operational'[i].record = r /\ operational'[i].available = a
    BY <2>1, <2>2, RegisterAppends DEF TypeOK
  <2> QED BY <2>1, <2>2, <2>3 DEF ServiceInv, AbsenceIsReal
<1>3. CASE UNCHANGED <<operational, rows, reseeds>>
  BY <1>3 DEF ServiceInv, AbsenceIsReal
<1>4. CASE DraftingStep
  BY <1>2, <1>3, <1>4 DEF DraftingStep, SupportToolCall, LookUpOutage, SubmitDraft
<1>5. CASE ReviewStep
  BY <1>3, <1>5 DEF ReviewStep, QAToolCall, RunCheck, RequestRevision, SubmitDecision
<1> QED
  BY <1>1, <1>3, <1>4, <1>5
  DEF Next, vars, FetchPage, ResearchEnds, BeginDraft, DeliverDraft, BeginReview, DeliverReview,
      AgentRaises, Rest

-----------------------------------------------------------------------------
(* The invariant.                                                          *)

\* A grounded draft stays grounded when identifiers are only added.
LEMMA GroundedStays ==
  ASSUME NEW d, KnownIds \subseteq KnownIds', Grounded(d)
  PROVE  Grounded(d)'
BY DEF Grounded

\* Checks read the draft and the registry, nothing else.
LEMMA PassesUnchanged ==
  ASSUME UNCHANGED <<public, operational>>
  PROVE  \A c \in RequiredChecks : \A d : Passes(c, d)' <=> Passes(c, d)
BY DEF Passes, Grounded, KnownIds, PublicIds, OperationalIds, OperationalCites, Ids

\* The invariant holds before research.
LEMMA InitInv == Init => IInv
BY DEF Init, IInv, TurnInv, ChecksInv, CitesInv, ApprovedDraftIsGrounded, GroundingNeverFails,
   OneIdPerRecord, RegistryInit, ServiceInv, AbsenceIsReal, ServiceInit, NoResult, RequiredChecks

\* Research and drafting: QA is not at work, and nothing that was issued is withdrawn.
LEMMA DraftingInv ==
  ASSUME TypeOK, IInv, running \in {"research", "support"},
         (\E page \in Pages : FetchPage(page)) \/ DraftingStep
  PROVE  IInv'
<1>1. OneIdPerRecord'
  BY RegistrySteps, OneIdKept DEF IInv, Next
<1>2. KnownIds \subseteq KnownIds' /\ (public # << >> => public' # << >>)
  BY RegistrySteps, EvidenceStays DEF Next
<1>3. /\ UNCHANGED <<reviewed, checks, result, currentState, supportDraft, running>>
      /\ currentState # "qa_approved"
      /\ running # "qa"
  BY DEF FetchPage, DraftingStep, SupportToolCall, LookUp, LookUpOutage, SubmitDraft, IInv,
         TurnInv, Kernel!RequiredStates
<1>4. draft' # NoDraft => Grounded(draft)'
  <2>1. CASE draft' = draft
    BY <1>2, <2>1, GroundedStays DEF IInv, CitesInv, Grounded
  <2>2. CASE draft' # draft
    <3>1. PICK d : SubmitDraft(d) /\ running = "support"
      BY <2>2 DEF FetchPage, DraftingStep, SupportToolCall, LookUp, LookUpOutage
    <3>2. draft' = d /\ Grounded(d)
      <4>1. <<"EV", 1>> \in KnownIds
        <5>1. public # << >>
          BY <3>1 DEF IInv, TurnInv, Kernel!RequiredStates
        <5>2. Len(public) \in Nat \ {0}
          BY <5>1, EmptySeq, LenProperties DEF TypeOK
        <5> QED BY <5>2 DEF KnownIds, PublicIds, Ids
      <4> QED BY <3>1, <4>1 DEF SubmitDraft, Grounded
    <3> QED BY <1>2, <3>2 DEF Grounded
  <2> QED BY <2>1, <2>2
<1>5. CitesInv'
  BY <1>2, <1>3, <1>4 DEF IInv, CitesInv, Grounded
<1>6. TurnInv'
  BY <1>2, <1>3 DEF IInv, TurnInv
<1>7. ChecksInv' /\ ApprovedDraftIsGrounded' /\ GroundingNeverFails'
  BY <1>3 DEF IInv, ChecksInv, ApprovedDraftIsGrounded, GroundingNeverFails
<1>8. ServiceInv' /\ AbsenceIsReal'
  BY ServiceKept DEF IInv, Next
<1> QED BY <1>1, <1>5, <1>6, <1>7, <1>8 DEF IInv

\* Review: the registry is still, and the draft under review is the one that was delivered.
LEMMA ReviewInv ==
  ASSUME TypeOK, IInv, ReviewStep
  PROVE  IInv'
<1>1. /\ UNCHANGED <<public, operational, draft, reviewed, currentState, supportDraft, running>>
      /\ running = "qa"
  BY DEF ReviewStep, QAToolCall, RunCheck, RequestRevision, SubmitDecision
<1>2. \A c \in RequiredChecks : \A d : Passes(c, d)' <=> Passes(c, d)
  BY <1>1, PassesUnchanged
<1>3. TurnInv' /\ CitesInv' /\ ApprovedDraftIsGrounded' /\ OneIdPerRecord'
  <2>1. TurnInv'
    BY <1>1 DEF IInv, TurnInv
  <2>2. CitesInv'
    BY <1>1 DEF IInv, CitesInv, Grounded, KnownIds, PublicIds, OperationalIds, Ids
  <2>3. ApprovedDraftIsGrounded'
    BY <1>1 DEF IInv, TurnInv, ApprovedDraftIsGrounded
  <2>4. OneIdPerRecord'
    BY <1>1 DEF IInv, OneIdPerRecord
  <2> QED BY <2>1, <2>2, <2>3, <2>4
<1>4. Passes("grounding", reviewed)
  BY <1>1 DEF IInv, TurnInv, CitesInv, Passes
<1>5. ASSUME NEW c \in RequiredChecks, RunCheck(c)
      PROVE  ChecksInv' /\ GroundingNeverFails'
  <2>1. result' = result
    BY <1>5 DEF RunCheck
  <2>2. \A e \in RequiredChecks :
          checks'[e] = IF e = c THEN (IF Passes(c, reviewed) THEN "passed" ELSE "failed")
                       ELSE checks[e]
    BY <1>5 DEF RunCheck, TypeOK
  <2>3. "grounding" \in RequiredChecks
    BY DEF RequiredChecks
  <2>4. GroundingNeverFails'
    BY <1>4, <2>2, <2>3 DEF IInv, GroundingNeverFails
  <2>5. ChecksInv'
    BY <1>1, <1>2, <2>1, <2>2 DEF IInv, ChecksInv
  <2> QED BY <2>4, <2>5
<1>6. ASSUME NEW objections \in SUBSET Objections, RequestRevision(objections)
      PROVE  ChecksInv' /\ GroundingNeverFails'
  BY <1>1, <1>2, <1>6 DEF IInv, ChecksInv, GroundingNeverFails, RequestRevision
<1>7. ASSUME NEW decision \in {"approve", "revise", "escalate"}, NEW issues \in SUBSET Objections,
             SubmitDecision(decision, issues)
      PROVE  ChecksInv' /\ GroundingNeverFails'
  <2>1. checks' = checks /\ result'.decision = decision
    BY <1>7 DEF SubmitDecision
  <2>2. decision = "approve" => \A c \in RequiredChecks : checks[c] = "passed"
    BY <1>7 DEF SubmitDecision, Blocking, TypeOK, Outcomes
  <2> QED BY <1>1, <1>2, <2>1, <2>2 DEF IInv, ChecksInv, GroundingNeverFails
<1>8. ServiceInv' /\ AbsenceIsReal'
  BY ServiceKept DEF IInv, Next
<1> QED BY <1>3, <1>5, <1>6, <1>7, <1>8 DEF IInv, ReviewStep, QAToolCall

\* Between the agents: starting one, routing what it hands over, or losing it.
LEMMA TurnsInv ==
  ASSUME TypeOK, IInv,
         \/ ResearchEnds \/ BeginDraft \/ DeliverDraft \/ BeginReview
         \/ DeliverReview \/ AgentRaises \/ ReseedMeanwhile \/ UNCHANGED vars
  PROVE  IInv'
<1>1. UNCHANGED <<public, operational>>
  BY DEF ResearchEnds, BeginDraft, DeliverDraft, BeginReview, DeliverReview, AgentRaises, ReseedMeanwhile, vars
<1>2. \A c \in RequiredChecks : \A d : Passes(c, d)' <=> Passes(c, d)
  BY <1>1, PassesUnchanged
<1>3. OneIdPerRecord'
  BY <1>1 DEF IInv, OneIdPerRecord
<1>4. \A d : Grounded(d)' <=> Grounded(d)
  BY <1>1 DEF Grounded, KnownIds, PublicIds, OperationalIds, Ids
<1>5. CitesInv'
  <2>1. {draft', reviewed', supportDraft'} \subseteq {draft, reviewed, supportDraft, NoDraft}
    BY DEF ResearchEnds, BeginDraft, DeliverDraft, BeginReview, DeliverReview, AgentRaises, ReseedMeanwhile, vars,
           ResetSupport, ResetQA
  <2> QED BY <1>4, <2>1 DEF IInv, CitesInv
<1>6. GroundingNeverFails'
  BY DEF IInv, GroundingNeverFails, ResearchEnds, BeginDraft, DeliverDraft, BeginReview,
         DeliverReview, AgentRaises, ReseedMeanwhile, vars, ResetQA, RequiredChecks
<1>7. TurnInv' /\ ChecksInv' /\ ApprovedDraftIsGrounded'
  <2>1. CASE ResearchEnds
    BY <1>1, <2>1 DEF IInv, TurnInv, ChecksInv, ApprovedDraftIsGrounded, ResearchEnds, Kernel!Transition
  <2>2. CASE BeginDraft
    BY <1>1, <2>2 DEF IInv, TurnInv, ChecksInv, ApprovedDraftIsGrounded, BeginDraft, Kernel!RequiredStates
  <2>3. CASE DeliverDraft
    BY <1>1, <2>3 DEF IInv, TurnInv, ChecksInv, ApprovedDraftIsGrounded, DeliverDraft,
                      Kernel!RequiredStates, Kernel!Transition
  <2>4. CASE BeginReview
    BY <1>1, <2>4 DEF IInv, TurnInv, ChecksInv, ApprovedDraftIsGrounded, BeginReview, ResetQA, NoResult,
                      Kernel!RequiredStates
  <2>5. CASE DeliverReview
    <3>1. /\ running = "qa" /\ running' = "nobody"
          /\ supportDraft' = supportDraft /\ reviewed = supportDraft
          /\ currentState = "drafted" /\ supportDraft # NoDraft
      BY <2>5 DEF DeliverReview, IInv, TurnInv
    <3>2. /\ currentState' \in {"qa_approved", "qa_revision_requested", "escalated"}
          /\ currentState' = "qa_approved" => result.decision = "approve"
      BY <2>5, <3>1
      DEF DeliverReview, Kernel!RouteQA, Kernel!RouteOrEscalate, Kernel!Transition, Kernel!Escalate,
          Kernel!Terminate, Kernel!NoReason, Kernel!TerminalStatuses
    <3>3. ApprovedDraftIsGrounded'
      BY <1>2, <3>1, <3>2 DEF IInv, ChecksInv, ApprovedDraftIsGrounded
    <3> QED BY <1>1, <3>1, <3>2, <3>3 DEF IInv, TurnInv, ChecksInv
  <2>6. CASE AgentRaises
    BY <1>1, <1>2, <2>6 DEF IInv, TurnInv, ChecksInv, ApprovedDraftIsGrounded, AgentRaises
  <2>7. CASE ReseedMeanwhile
    BY <1>1, <1>2, <2>7 DEF IInv, TurnInv, ChecksInv, ApprovedDraftIsGrounded, ReseedMeanwhile
  <2>8. CASE UNCHANGED vars
    BY <1>1, <1>2, <2>8 DEF IInv, TurnInv, ChecksInv, ApprovedDraftIsGrounded, vars
  <2> QED BY <2>1, <2>2, <2>3, <2>4, <2>5, <2>6, <2>7, <2>8
<1>8. ServiceInv' /\ AbsenceIsReal'
  BY ServiceKept DEF IInv, Next
<1> QED BY <1>3, <1>5, <1>6, <1>7, <1>8 DEF IInv

\* Every step keeps the invariant.
LEMMA NextInv == TypeOK /\ IInv /\ [Next]_vars => IInv'
<1> SUFFICES ASSUME TypeOK, IInv, [Next]_vars PROVE IInv'
  OBVIOUS
<1>1. CASE (\E page \in Pages : FetchPage(page)) \/ DraftingStep
  <2>1. running \in {"research", "support"}
    BY <1>1 DEF FetchPage, DraftingStep
  <2> QED BY <1>1, <2>1, DraftingInv
<1>2. CASE ReviewStep
  BY <1>2, ReviewInv
<1> QED BY <1>1, <1>2, TurnsInv DEF Next, Rest

\* The invariant behind the three theorems below: turns, checks and citations agree.
THEOREM Invariance == Spec => []IInv
BY InitInv, NextInv, TypeCorrect, PTL DEF Spec

\* Whatever the models look up, write, check and decide, in any order and with any number
\* of revisions, an approved draft passes all four checks.
THEOREM ApprovedDrafts == Spec => []ApprovedDraftIsGrounded
<1>1. IInv => ApprovedDraftIsGrounded
  BY DEF IInv
<1> QED BY <1>1, Invariance, PTL

-----------------------------------------------------------------------------
(* What QA decides.                                                        *)

\* Once a draft is grounded, what the checks say of it depends on its text and its
\* citations, no longer on the registry.
LEMMA VerdictStays ==
  ASSUME NEW d, Grounded(d), KnownIds \subseteq KnownIds', OperationalIds \subseteq OperationalIds'
  PROVE  /\ \A c \in RequiredChecks : Passes(c, d)' <=> Passes(c, d)
         /\ FaultOf(d)' = FaultOf(d)
<1>1. OperationalCites(d) \subseteq OperationalIds
  BY DEF OperationalCites, Grounded, KnownIds, PublicIds, Ids
<1>2. Grounded(d)'
  BY DEF Grounded
<1>3. \A c \in RequiredChecks : Passes(c, d)' <=> Passes(c, d)
  BY <1>1, <1>2 DEF Passes, OperationalCites, RequiredChecks
<1> QED BY <1>3 DEF FaultOf, RequiredChecks

\* The verdicts, through every step.
LEMMA VerdictKept == TypeOK /\ IInv /\ VerdictInv /\ [Next]_vars => VerdictInv'
<1> SUFFICES ASSUME TypeOK, IInv, VerdictInv, [Next]_vars PROVE VerdictInv'
  OBVIOUS
<1>1. /\ KnownIds \subseteq KnownIds'
      /\ OperationalIds \subseteq OperationalIds'
  BY RegistrySteps, EvidenceStays
<1>2. ASSUME NEW d \in {reviewed, supportDraft}, d # NoDraft
      PROVE  /\ \A c \in RequiredChecks : Passes(c, d)' <=> Passes(c, d)
             /\ FaultOf(d)' = FaultOf(d)
  BY <1>1, <1>2, VerdictStays DEF IInv, CitesInv
<1>3. /\ currentState \in {"escalated", "qa_revision_requested"} => supportDraft # NoDraft
      /\ running = "qa" => reviewed = supportDraft /\ supportDraft # NoDraft
  BY DEF IInv, TurnInv
<1>4. CASE ReviewStep
  <2>1. /\ UNCHANGED <<currentState, escalation, revisionCount, supportDraft, qaResult, running, reviewed>>
        /\ running = "qa" /\ currentState = "drafted"
    BY <1>4 DEF ReviewStep, QAToolCall, RunCheck, RequestRevision, SubmitDecision, IInv, TurnInv
  <2>2. /\ revisionCount' <= MaxRevisions
        /\ EscalationNamesTheFault' /\ RevisionIsAchievable'
    BY <2>1 DEF VerdictInv, EscalationNamesTheFault, RevisionIsAchievable
  <2>3. \A c \in RequiredChecks : checks'[c] = "failed" => ~Passes(c, reviewed)
    BY <1>4, <2>1 DEF VerdictInv, ReviewStep, QAToolCall, RunCheck, RequestRevision, SubmitDecision, TypeOK
  <2>4. /\ result'.decision = "escalate" => result'.reason = FaultOf(reviewed)
        /\ result'.decision = "revise" /\ FaultOf(reviewed) = "qa_failure" =>
             "operational" \notin result'.instructions
    <3>1. CASE result' = result
      BY <2>1, <3>1 DEF VerdictInv
    <3>2. ASSUME NEW decision \in {"approve", "revise", "escalate"},
                 NEW issues \in SUBSET Objections, SubmitDecision(decision, issues)
          PROVE  /\ decision = "escalate" => EscalationReasonFor = FaultOf(reviewed)
                 /\ decision = "revise" /\ FaultOf(reviewed) = "qa_failure" =>
                      "operational" \notin instructions
      <4>1. \A c \in RequiredChecks : checks[c] = "failed" <=> ~Passes(c, reviewed)
        BY <2>1, <3>2 DEF SubmitDecision, VerdictInv, IInv, ChecksInv, TypeOK, Outcomes
      <4>2. Passes("grounding", reviewed)
        BY <1>3, <2>1 DEF IInv, CitesInv, Passes
      <4>3. EscalationReasonFor = FaultOf(reviewed)
        BY <4>1, <4>2 DEF EscalationReasonFor, FaultOf, Blocking, RequiredChecks
      <4>4. FaultOf(reviewed) = "qa_failure" => Blocking = {} /\ checks["operational"] = "passed"
        BY <3>2, <4>1, <4>2 DEF FaultOf, Blocking, RequiredChecks, SubmitDecision, TypeOK, Outcomes
      <4> QED BY <3>2, <4>3, <4>4 DEF SubmitDecision, ContradictsChecks
    <3>3. result' = result \/ \E decision \in {"approve", "revise", "escalate"},
                                 issues \in SUBSET Objections :
                                SubmitDecision(decision, issues)
      BY <1>4 DEF ReviewStep, QAToolCall, RunCheck, RequestRevision
    <3>4. ASSUME NEW decision \in {"approve", "revise", "escalate"},
                 NEW issues \in SUBSET Objections, SubmitDecision(decision, issues)
          PROVE  /\ result'.decision = decision /\ result'.instructions = instructions
                 /\ decision = "escalate" => result'.reason = EscalationReasonFor
      BY <3>4 DEF SubmitDecision
    <3> QED BY <3>1, <3>2, <3>3, <3>4
  <2>5. reviewed # NoDraft
    BY <1>3, <2>1
  <2> QED BY <1>2, <2>1, <2>2, <2>3, <2>4, <2>5 DEF VerdictInv
<1>5. CASE DeliverReview
  <2>1. /\ running = "qa" /\ running' = "nobody" /\ qaResult' = result
        /\ reviewed = supportDraft /\ supportDraft' = supportDraft
        /\ currentState = "drafted" /\ UNCHANGED <<public, operational>>
    BY <1>3, <1>5 DEF DeliverReview, IInv, TurnInv
  <2>2. /\ \A c \in RequiredChecks : Passes(c, supportDraft)' <=> Passes(c, supportDraft)
        /\ FaultOf(supportDraft)' = FaultOf(supportDraft)
    BY <1>2, <1>3, <2>1
  <2>3. (\A c \in RequiredChecks : Passes(c, supportDraft)) => FaultOf(supportDraft) = "qa_failure"
    BY DEF FaultOf, RequiredChecks
  <2>4. /\ revisionCount' <= MaxRevisions
        /\ currentState' = "escalated" =>
             \/ /\ result.decision = "revise" /\ escalation' = "revision_limit_exceeded"
                /\ revisionCount' = MaxRevisions
             \/ result.decision = "escalate" /\ escalation' = result.reason
        /\ currentState' = "qa_revision_requested" => result.decision = "revise"
    BY <1>5, <2>1, ReviewAssumption
    DEF DeliverReview, VerdictInv, TypeOK, Kernel!RouteQA, Kernel!RouteOrEscalate, Kernel!Transition,
        Kernel!Escalate, Kernel!Terminate, Kernel!NoReason, Kernel!TerminalStatuses
  <2>5. EscalationNamesTheFault' /\ RevisionIsAchievable'
    BY <2>1, <2>2, <2>3, <2>4 DEF VerdictInv, EscalationNamesTheFault, RevisionIsAchievable
  <2> QED BY <2>1, <2>4, <2>5 DEF VerdictInv
<1>6. CASE BeginReview
  <2>1. /\ \A c \in RequiredChecks : checks'[c] # "failed"
        /\ result'.decision = "none"
        /\ UNCHANGED <<currentState, revisionCount, supportDraft>> /\ currentState = "drafted"
    BY <1>6 DEF BeginReview, ResetQA, NoResult, Kernel!RequiredStates
  <2> QED BY <2>1 DEF VerdictInv, EscalationNamesTheFault, RevisionIsAchievable
<1>7. CASE UNCHANGED <<currentState, escalation, revisionCount, supportDraft, qaResult, qaVars>>
           /\ (running' = "qa" => running = "qa")
  <2>1. /\ UNCHANGED <<currentState, escalation, revisionCount, supportDraft, qaResult,
                       reviewed, checks, result>>
    BY <1>7
  <2> QED BY <1>2, <1>3, <1>7, <2>1 DEF VerdictInv, EscalationNamesTheFault, RevisionIsAchievable
<1>8. CASE ResearchEnds \/ DeliverDraft
  <2>1. /\ currentState' \in {"researched", "drafted"} /\ UNCHANGED revisionCount
        /\ running' = "nobody"
    BY <1>8 DEF ResearchEnds, DeliverDraft, Kernel!Transition
  <2> QED BY <2>1 DEF VerdictInv, EscalationNamesTheFault, RevisionIsAchievable
<1> QED
  BY <1>4, <1>5, <1>6, <1>7, <1>8
  DEF Next, vars, FetchPage, BeginDraft, DraftingStep, AgentRaises, ReseedMeanwhile, Rest

\* What decisions say is true of the draft they are about, throughout.
THEOREM Verdicts == Spec => []VerdictInv
<1>1. Init => VerdictInv
  BY ReviewAssumption
  DEF Init, VerdictInv, EscalationNamesTheFault, RevisionIsAchievable
<1> QED BY <1>1, VerdictKept, Invariance, TypeCorrect, PTL DEF Spec

\* An escalation by QA names the worst fault its draft has.
THEOREM NamedFaults == Spec => []EscalationNamesTheFault
<1>1. VerdictInv => EscalationNamesTheFault
  BY DEF VerdictInv
<1> QED BY <1>1, Verdicts, PTL

\* No draft is sent back over operational grounding that the checks pass.
THEOREM AchievableRevisions == Spec => []RevisionIsAchievable
<1>1. VerdictInv => RevisionIsAchievable
  BY DEF VerdictInv
<1> QED BY <1>1, Verdicts, PTL

\* Neither agent can replace what it has submitted.
THEOREM FirstSubmissions == Spec => SubmissionsStand
<1> DEFINE Stand == /\ running = "qa" /\ result # NoResult => result' = result
                    /\ running = "support" /\ draft # NoDraft => draft' = draft
<1>1. [Next]_vars => Stand \/ UNCHANGED vars
  <2> SUFFICES ASSUME Next PROVE Stand
    OBVIOUS
  <2>1. CASE DraftingStep
    BY <2>1 DEF DraftingStep, SupportToolCall, LookUp, LookUpOutage, SubmitDraft
  <2>2. CASE ReviewStep
    BY <2>2 DEF ReviewStep, QAToolCall, RunCheck, RequestRevision, SubmitDecision
  <2>3. CASE Rest
    BY <2>3 DEF Rest, vars
  <2> QED
    BY <2>1, <2>2, <2>3
    DEF Next, FetchPage, ResearchEnds, BeginDraft, DeliverDraft, BeginReview, DeliverReview,
        AgentRaises, ReseedMeanwhile
<1> QED BY <1>1, PTL DEF Spec, SubmissionsStand

\* An approved reply keeps to the agents' authority, sentence by sentence.
THEOREM ApprovedReplies == Spec => []ApprovedReplyKeepsToItsAuthority
<1>1. ApprovedDraftIsGrounded => ApprovedReplyKeepsToItsAuthority
  <2> SUFFICES ASSUME ApprovedDraftIsGrounded, currentState = "qa_approved",
                      NEW s \in supportDraft.text.reply
               PROVE  /\ "acts" \in s => "negated" \in s
                      /\ "outcome" \in s => {"negated", "hedged"} \cap s # {}
                      /\ "status" \in s /\ {"missing", "advisory", "general"} \cap s = {} =>
                           OperationalIds \cap supportDraft.cites # {}
    BY DEF ApprovedReplyKeepsToItsAuthority
  <2>1. ~IsRestrictedClaim(s)
    BY DEF ApprovedDraftIsGrounded, RequiredChecks, Passes, ContainsRestrictedClaim
  <2>2. /\ OperationalCites(supportDraft) \subseteq OperationalIds
        /\ FindOperationalClaims(supportDraft.text) # {} => OperationalCites(supportDraft) # {}
    BY DEF ApprovedDraftIsGrounded, RequiredChecks, Passes
  <2>3. "status" \in s /\ {"missing", "advisory", "general"} \cap s = {} =>
          OperationalIds \cap supportDraft.cites # {}
    BY <2>2 DEF FindOperationalClaims, OperationalCites
  <2> QED BY <2>1, <2>3 DEF IsRestrictedClaim
<1> QED BY <1>1, ApprovedDrafts, PTL

\* An absence on record is a finding, or the database was being reseeded.
THEOREM RealAbsences == Spec => []AbsenceIsReal
<1>1. IInv => AbsenceIsReal
  BY DEF IInv
<1> QED BY <1>1, Invariance, PTL

\* The submission rule of submit_support_draft is as strict as QA's grounding check.
THEOREM SubmissionGrounds == Spec => []GroundingNeverFails
<1>1. IInv => GroundingNeverFails
  BY DEF IInv
<1> QED BY <1>1, Invariance, PTL

\* The registry never holds one record or one page twice.
THEOREM UniqueIds == Spec => []OneIdPerRecord
<1>1. IInv => OneIdPerRecord
  BY DEF IInv
<1> QED BY <1>1, Invariance, PTL

-----------------------------------------------------------------------------
(* What identifiers stand for.                                             *)

\* Registering leaves every entry where it is.
LEMMA RegisterKeeps ==
  ASSUME NEW r \in Records, NEW a \in BOOLEAN, RegisterOperational(r, a),
         operational \in Seq([record : Records, available : BOOLEAN])
  PROVE  \A i \in DOMAIN operational :
           i \in DOMAIN operational' /\ operational'[i] = operational[i]
<1> DEFINE Items == [record : Records, available : BOOLEAN]
           item  == [record |-> r, available |-> a]
<1>1. item \in Items /\ operational \in Seq(Items)
  OBVIOUS
<1>2. operational' = operational \/ operational' = Append(operational, item)
  BY DEF RegisterOperational
<1> HIDE DEF Items, item
<1>3. CASE operational' = Append(operational, item)
  BY <1>1, <1>3, AppendProperties, LenProperties
<1> QED BY <1>2, <1>3

\* Afterwards the registry has the record, in this spelling or in another.
LEMMA RegisterFinds ==
  ASSUME NEW r \in Records, NEW a \in BOOLEAN, RegisterOperational(r, a),
         operational \in Seq([record : Records, available : BOOLEAN])
  PROVE  \E i \in DOMAIN operational' : Folded[operational'[i].record] = Folded[r]
<1> DEFINE Items == [record : Records, available : BOOLEAN]
           item  == [record |-> r, available |-> a]
<1>1. item \in Items /\ operational \in Seq(Items) /\ item.record = r
  OBVIOUS
<1>2. \/ /\ operational' = operational
         /\ \E i \in DOMAIN operational : Folded[operational[i].record] = Folded[r]
      \/ operational' = Append(operational, item)
  BY DEF RegisterOperational
<1> HIDE DEF Items, item
<1>3. CASE operational' = Append(operational, item)
  BY <1>1, <1>3, AppendProperties, LenProperties
<1> QED BY <1>2, <1>3

\* The identifier of a record is the place of an entry in that very spelling, if there is one.
LEMMA IdForFinds ==
  ASSUME NEW r, NEW list
  PROVE  \/ /\ IdFor(r, list) = NoId
            /\ \A i \in DOMAIN list : list[i].record # r
         \/ \E i \in DOMAIN list : list[i].record = r /\ IdFor(r, list) = <<"OP", i>>
<1> DEFINE matches == {i \in DOMAIN list : list[i].record = r}
<1>1. CASE matches = {}
  BY <1>1 DEF IdFor
<1>2. CASE matches # {}
  <2>1. (CHOOSE i \in matches : TRUE) \in matches
    BY <1>2
  <2>2. IdFor(r, list) = <<"OP", CHOOSE i \in matches : TRUE>>
    BY <1>2 DEF IdFor
  <2> HIDE DEF matches
  <2>3. PICK i \in matches : i = CHOOSE j \in matches : TRUE
    BY <2>1
  <2> QED BY <2>2, <2>3 DEF matches
<1> QED BY <1>1, <1>2

\* What is issued stays issued, for what it was issued.
LEMMA EntriesStay ==
  ASSUME TypeOK, [Next]_vars
  PROVE  /\ \A i \in DOMAIN public : i \in DOMAIN public' /\ public'[i] = public[i]
         /\ \A i \in DOMAIN operational :
              i \in DOMAIN operational' /\ operational'[i] = operational[i]
<1>1. ASSUME NEW page \in Pages, RegisterPublic(page)
      PROVE  \A i \in DOMAIN public : i \in DOMAIN public' /\ public'[i] = public[i]
  <2>1. public' = public \/ public' = Append(public, page)
    BY <1>1 DEF RegisterPublic
  <2>2. CASE public' = Append(public, page)
    BY <2>2, AppendProperties, LenProperties DEF TypeOK
  <2> QED BY <2>1, <2>2
<1>2. ASSUME NEW r \in Records, NEW a \in BOOLEAN, RegisterOperational(r, a)
      PROVE  \A i \in DOMAIN operational :
               i \in DOMAIN operational' /\ operational'[i] = operational[i]
  BY <1>2, RegisterKeeps DEF TypeOK
<1> QED BY <1>1, <1>2, RegistrySteps

\* Nothing ever gives an identifier another meaning.
THEOREM EvidenceKept == Spec => EvidenceIsKept
<1> DEFINE Kept ==
      /\ \A i \in DOMAIN public : i \in DOMAIN public' /\ public'[i] = public[i]
      /\ \A i \in DOMAIN operational :
           i \in DOMAIN operational' /\ operational'[i] = operational[i]
<1>1. TypeOK /\ [Next]_vars => [Kept]_vars
  BY EntriesStay
<1> QED BY <1>1, TypeCorrect, PTL DEF Spec, EvidenceIsKept

\* A lookup that found the registry holding another spelling has none to return.
LEMMA LookUpAnswers ==
  ASSUME TypeOK, NEW asked \in Records, LookUp(asked)
  PROVE  LookupIsCitableOrRespelt'
<1> DEFINE a == asked \in rows
           r == IF a THEN Holds[asked] ELSE asked
<1>1. r \in Records /\ a \in BOOLEAN
  BY ServiceAssumption DEF TypeOK
<1>2. RegisterOperational(r, a) /\ answer'.id = IdFor(r, operational')
  BY DEF LookUp
<1> HIDE DEF a, r
<1>3. /\ operational' \in Seq([record : Records, available : BOOLEAN])
      /\ \E i \in DOMAIN operational' : Folded[operational'[i].record] = Folded[r]
  BY <1>1, <1>2, RegisterType, RegisterFinds DEF TypeOK
<1>4. DOMAIN operational' = 1 .. Len(operational')
  BY <1>3, LenProperties
<1>5. CASE answer'.id = NoId /\ \A i \in DOMAIN operational' : operational'[i].record # r
  <2>1. PICK i \in DOMAIN operational' : Folded[operational'[i].record] = Folded[r]
    BY <1>3
  <2>2. HasTwoSpellings(operational'[i].record)
    BY <1>1, <1>5, <2>1 DEF HasTwoSpellings
  <2>3. HasTwoSpellings(operational[i].record)'
    BY <2>2 DEF HasTwoSpellings
  <2> QED BY <1>5, <2>1, <2>2 DEF LookupIsCitableOrRespelt, HasTwoSpellings
<1>6. CASE \E i \in DOMAIN operational' : answer'.id = <<"OP", i>>
  BY <1>4, <1>6 DEF LookupIsCitableOrRespelt, OperationalIds, Ids
<1> QED
  BY <1>2, <1>5, <1>6, IdForFinds

\* A lookup of a record with one spelling always comes with an identifier to cite, and the
\* other lookups with that or with none.
THEOREM LookupsNameEvidence == Spec => []LookupIsCitableOrRespelt
<1>1. Init => LookupIsCitableOrRespelt
  BY DEF Init, NoAnswer, LookupIsCitableOrRespelt
<1>2. TypeOK /\ LookupIsCitableOrRespelt /\ [Next]_vars => LookupIsCitableOrRespelt'
  <2> SUFFICES ASSUME TypeOK, LookupIsCitableOrRespelt, [Next]_vars
               PROVE  LookupIsCitableOrRespelt'
    OBVIOUS
  <2>1. ASSUME NEW asked \in Records, LookUp(asked) PROVE LookupIsCitableOrRespelt'
    BY <2>1, LookUpAnswers
  <2>2. CASE answer'.kind \in {"none", "outage"}
    BY <2>2 DEF LookupIsCitableOrRespelt
  <2>3. CASE UNCHANGED answer
    <3>1. OperationalIds \subseteq OperationalIds'
      BY RegistrySteps, EvidenceStays
    <3>2. \A i \in DOMAIN operational :
            i \in DOMAIN operational' /\ operational'[i] = operational[i]
      BY EntriesStay
    <3> QED BY <2>3, <3>1, <3>2 DEF LookupIsCitableOrRespelt, HasTwoSpellings
  <2>4. CASE DraftingStep
    BY <2>1, <2>2, <2>3, <2>4 DEF DraftingStep, SupportToolCall, LookUpOutage, SubmitDraft
  <2> QED
    BY <2>2, <2>3, <2>4
    DEF Next, vars, FetchPage, ResearchEnds, BeginDraft, ResetSupport, NoAnswer, DeliverDraft,
        BeginReview, ReviewStep, DeliverReview, AgentRaises, ReseedMeanwhile, Rest
<1> QED BY <1>1, <1>2, TypeCorrect, PTL DEF Spec

\* And an identifier it returns was issued for the record it found, or did not find.
THEOREM LookupsAreNotMixedUp == Spec => LookupsNameTheirRecord
<1> DEFINE Named ==
      \A asked \in Records :
        LookUp(asked) /\ answer'.id # NoId =>
          \E i \in DOMAIN operational' :
            /\ answer'.id = <<"OP", i>>
            /\ operational'[i].record = IF asked \in rows THEN Holds[asked] ELSE asked
<1>1. Named
  <2> SUFFICES ASSUME NEW asked \in Records, LookUp(asked), answer'.id # NoId
               PROVE  \E i \in DOMAIN operational' :
                        /\ answer'.id = <<"OP", i>>
                        /\ operational'[i].record = IF asked \in rows THEN Holds[asked] ELSE asked
    OBVIOUS
  <2> DEFINE r == IF asked \in rows THEN Holds[asked] ELSE asked
  <2>1. answer'.id = IdFor(r, operational')
    BY DEF LookUp
  <2> HIDE DEF r
  <2>2. \E i \in DOMAIN operational' : operational'[i].record = r /\ answer'.id = <<"OP", i>>
    BY <2>1, IdForFinds
  <2> QED BY <2>2 DEF r
<1>2. [Next]_vars => [Named]_vars
  BY <1>1
<1> QED BY <1>2, PTL DEF Spec, LookupsNameTheirRecord

\* The claim of _existing_operational_id, for a service and a model that agree on how
\* records are spelt.
THEOREM CitableLookups ==
  ASSUME \A r, s \in Records : Folded[r] = Folded[s] => r = s
  PROVE  Spec => []EveryLookupIsCitable
<1>1. TypeOK /\ LookupIsCitableOrRespelt => EveryLookupIsCitable
  <2> SUFFICES ASSUME TypeOK, NEW i \in DOMAIN operational PROVE ~HasTwoSpellings(operational[i].record)
    BY DEF LookupIsCitableOrRespelt, EveryLookupIsCitable
  <2>1. operational[i] \in [record : Records, available : BOOLEAN]
    BY LenProperties, ElementOfSeq DEF TypeOK
  <2>2. operational[i].record \in Records
    BY <2>1
  <2> QED BY <2>2 DEF HasTwoSpellings
<1> QED BY <1>1, TypeCorrect, LookupsNameEvidence, PTL
=============================================================================
