---------------------------- MODULE SessionProofs ----------------------------
(***************************************************************************)
(* What holds over any number of processes, runs and tickets, whatever     *)
(* messages, samples and reasons there are and wherever a run or a process *)
(* ends (Session.tla).                                                     *)
(***************************************************************************)
EXTENDS Session, SequenceTheorems, TLAPS

-----------------------------------------------------------------------------
(* Facts about the operators.                                              *)

\* The seven files every run writes (BaseFiles).
LEMMA BaseFacts ==
  /\ BaseFiles \in Seq(Names) /\ Len(BaseFiles) = 7 /\ DOMAIN BaseFiles = 1 .. 7
  /\ BaseFiles[1] = "interaction_summary" /\ BaseFiles[7] = "agent_trace"
  /\ \A i \in 1 .. 7 : BaseFiles[i] \in Names \ {"escalation"}
  /\ \A i, j \in 1 .. 7 : BaseFiles[i] = BaseFiles[j] => i = j
  /\ \A name \in Names \ {"escalation"} : \E i \in 1 .. 7 : BaseFiles[i] = name
  /\ "escalation" \in Names
<1>1. Len(BaseFiles) = 7 /\ DOMAIN BaseFiles = 1 .. 7
  BY DEF BaseFiles
<1>2. \A i \in 1 .. 7 : i \in {1, 2, 3, 4, 5, 6, 7}
  OBVIOUS
<1>3. \A i \in 1 .. 7 : BaseFiles[i] # "escalation"
  BY <1>2 DEF BaseFiles
<1>4. \A i, j \in 1 .. 7 : BaseFiles[i] = BaseFiles[j] => i = j
  BY <1>2 DEF BaseFiles
<1>5. BaseFiles[1] = "interaction_summary" /\ BaseFiles[7] = "agent_trace"
  BY DEF BaseFiles
<1>6. \A i \in 1 .. 7 : BaseFiles[i] \in Names
  BY <1>1 DEF Names
<1>7. BaseFiles \in Seq(Names)
  <2>1. \E n \in Nat : BaseFiles \in [1 .. n -> Names]
    <3>1. BaseFiles = [i \in 1 .. 7 |-> BaseFiles[i]]
      BY <1>1 DEF BaseFiles
    <3> QED BY <3>1, <1>6
  <2> QED BY <2>1
<1>8. \A name \in Names \ {"escalation"} : \E i \in 1 .. 7 : BaseFiles[i] = name
  BY <1>1 DEF Names
<1> QED BY <1>1, <1>3, <1>4, <1>5, <1>6, <1>7, <1>8 DEF Names

\* Appending leaves what is there.
LEMMA AppendKeeps ==
  ASSUME NEW S, NEW s \in Seq(S), NEW e \in S, NEW i \in 1 .. Len(s)
  PROVE  Append(s, e)[i] = s[i]
BY AppendProperties

\* The files of a run: the seven, and escalation.json for one that escalated (FilesOf).
LEMMA FilesFacts ==
  ASSUME NEW how
  PROVE  /\ FilesOf(how) \in Seq(Names)
         /\ Len(FilesOf(how)) = IF how = "escalated" THEN 8 ELSE 7
         /\ DOMAIN FilesOf(how) = 1 .. Len(FilesOf(how))
         /\ \A i \in 1 .. 7 : FilesOf(how)[i] = BaseFiles[i]
         /\ how = "escalated" => FilesOf(how)[8] = "escalation"
         /\ \A i, j \in 1 .. Len(FilesOf(how)) : FilesOf(how)[i] = FilesOf(how)[j] => i = j
<1>1. "escalation" \in Names /\ BaseFiles \in Seq(Names) /\ Len(BaseFiles) = 7
  BY BaseFacts
<1>2. CASE how = "escalated"
  <2>1. FilesOf(how) = Append(BaseFiles, "escalation")
    BY <1>2 DEF FilesOf
  <2>2. /\ Append(BaseFiles, "escalation") \in Seq(Names)
        /\ Len(Append(BaseFiles, "escalation")) = 8
        /\ \A i \in 1 .. 7 : Append(BaseFiles, "escalation")[i] = BaseFiles[i]
        /\ Append(BaseFiles, "escalation")[8] = "escalation"
    <3>1. /\ Append(BaseFiles, "escalation") \in Seq(Names)
          /\ Len(Append(BaseFiles, "escalation")) = Len(BaseFiles) + 1
      BY <1>1, AppendProperties
    <3>2. \A i \in 1 .. Len(BaseFiles) : Append(BaseFiles, "escalation")[i] = BaseFiles[i]
      <4> SUFFICES ASSUME NEW i \in 1 .. Len(BaseFiles)
                   PROVE  Append(BaseFiles, "escalation")[i] = BaseFiles[i]
        OBVIOUS
      <4> QED BY <1>1, AppendKeeps
    <3>3. Append(BaseFiles, "escalation")[Len(BaseFiles) + 1] = "escalation"
      BY <1>1, AppendProperties
    <3> QED BY <3>1, <3>2, <3>3, <1>1
  <2>3. \A i \in 1 .. 8 : i \in 1 .. 7 \/ i = 8
    OBVIOUS
  <2> DEFINE F == FilesOf(how)
  <2>4. F \in Seq(Names) /\ Len(F) = 8 /\ (\A i \in 1 .. 7 : F[i] = BaseFiles[i]) /\ F[8] = "escalation"
    BY <2>1, <2>2
  <2> HIDE DEF F
  <2>5. \A i \in 1 .. 7 : F[i] # F[8]
    BY <2>4, BaseFacts
  <2>6. \A i, j \in 1 .. 7 : F[i] = F[j] => i = j
    BY <2>4, BaseFacts
  <2>7. \A i, j \in 1 .. 8 : F[i] = F[j] => i = j
    BY <2>3, <2>5, <2>6
  <2>8. DOMAIN F = 1 .. Len(F)
    BY <2>4
  <2> QED BY <1>2, <2>4, <2>7, <2>8 DEF F
<1>3. CASE how # "escalated"
  BY <1>3, BaseFacts DEF FilesOf
<1> QED BY <1>2, <1>3

\* A file's place in them.
LEMMA FileIndex ==
  ASSUME NEW how, NEW i \in 1 .. Len(FilesOf(how))
  PROVE  i \in 1 .. 8
<1> DEFINE n == Len(FilesOf(how))
<1>1. n = 7 \/ n = 8
  BY FilesFacts
<1>2. i \in 1 .. n
  OBVIOUS
<1> HIDE DEF n
<1> QED BY <1>1, <1>2

\* The first rule that matches (ScreenTicket).
LEMMA ScreeningFacts ==
  ASSUME NEW m
  PROVE  LET why == ScreenTicket(m)
         IN  /\ why \in {Rules[i] : i \in DOMAIN Rules} \cup {NoReason}
             /\ why = NoReason \/ RequiresHumanApproval(why) =>
                  /\ "sensitive" \notin m.terms
                  /\ ~({"injection intent", "instructions"} \subseteq m.terms)
             /\ RequiresHumanApproval(why) => why # NoReason
<1> DEFINE M == Matching(m.terms)
<1>1. M \subseteq 1 .. 6 /\ DOMAIN Rules = 1 .. 6
  <2>1. DOMAIN Rules = 1 .. 6
    BY DEF Rules
  <2> QED BY <2>1 DEF Matching
<1>2. "sensitive" \in m.terms => 1 \in M
  <2>1. Rules[1] = "sensitive_data"
    BY DEF Rules
  <2>2. Needs["sensitive_data"] = {"sensitive"}
    BY DEF Needs
  <2> QED BY <2>1, <2>2, <1>1 DEF Matching
<1>3. {"injection intent", "instructions"} \subseteq m.terms => 2 \in M
  <2>1. Rules[2] = "outside_authority"
    BY DEF Rules
  <2>2. Needs["outside_authority"] = {"injection intent", "instructions"}
    BY DEF Needs
  <2>3. 2 \in DOMAIN Rules
    BY <1>1
  <2>4. Needs[Rules[2]] = {"injection intent", "instructions"}
    BY <2>1, <2>2
  <2> QED BY <2>3, <2>4, Zenon DEF Matching
<1>4. CASE M = {}
  <2>1. ScreenTicket(m) = NoReason
    BY <1>4 DEF ScreenTicket
  <2> QED BY <1>4, <1>2, <1>3, <2>1 DEF RequiresHumanApproval, NoReason
<1>5. CASE M # {}
  <2>1. \E k \in M : \A j \in M : k <= j
    <3>1. \A i \in 1 .. 6 : i = 1 \/ i = 2 \/ i = 3 \/ i = 4 \/ i = 5 \/ i = 6
      OBVIOUS
    <3> QED BY <1>1, <1>5, <3>1
  <2>2. Min(M) \in M /\ \A j \in M : Min(M) <= j
    BY <2>1 DEF Min
  <2>3. ScreenTicket(m) = Rules[Min(M)]
    BY <1>5 DEF ScreenTicket
  <2>4. Min(M) \in 1 .. 6
    BY <2>2, <1>1
  <2>5. Min(M) = 1 => Rules[Min(M)] = "sensitive_data"
    BY DEF Rules
  <2>6. Min(M) = 2 => Rules[Min(M)] = "outside_authority"
    BY DEF Rules
  <2>7. \A i \in 1 .. 6 : Rules[i] # NoReason
    <3>1. \A i \in 1 .. 6 : i = 1 \/ i = 2 \/ i = 3 \/ i = 4 \/ i = 5 \/ i = 6
      OBVIOUS
    <3> QED BY <3>1 DEF Rules, NoReason
  <2>8. Min(M) \in {1, 2} =>
           ~RequiresHumanApproval(ScreenTicket(m)) /\ ScreenTicket(m) # NoReason
    BY <2>3, <2>4, <2>5, <2>6, <2>7 DEF RequiresHumanApproval
  <2>9. 1 \in M \/ 2 \in M => Min(M) \in {1, 2}
    BY <2>2, <2>4
  <2> QED BY <2>3, <2>4, <1>2, <1>3, <2>7, <2>8, <2>9, <1>1
<1> QED BY <1>4, <1>5

\* What a classification is screened to (ScreenClassification).
LEMMA ClassificationFacts ==
  ASSUME NEW c
  PROVE  /\ ScreenClassification(c) \in {"unsupported_domain", "low_confidence", NoReason}
         /\ ScreenClassification(c) \in Reasons
<1>1. Rules[6] = "unsupported_domain" /\ 6 \in DOMAIN Rules
  BY DEF Rules
<1>2. ScreenClassification(c) \in {"unsupported_domain", "low_confidence", NoReason}
  BY DEF ScreenClassification
<1>3. {"unsupported_domain", "low_confidence", NoReason} \subseteq Reasons
  BY <1>1, Zenon DEF Reasons
<1> QED BY <1>2, <1>3

\* The sentiment of a message is a sentiment, and not the one of no message (Assess).
LEMMA SentimentFacts ==
  ASSUME NEW m \in Messages
  PROVE  Assess(m) \in Sentiments /\ Assess(m) # NoSentiment
BY DEF Assess, Sentiments, NoSentiment

\* What a new workspace holds is of its type.
LEMMA Blanks ==
  /\ NoMessage \in Messages
  /\ NoSentiment \in Sentiments
  /\ NoTriage \in Triages
  /\ NoAnswer \in [status : Lifecycle!Settled \cup {"none"}, draft : 0 .. MaxDrafts]
  /\ NoReason \in Reasons
<1>1. NoMessage \in Messages
  BY DEF NoMessage, Messages
<1>2. NoSentiment \in Sentiments
  BY DEF Sentiments
<1>3. NoTriage \in Triages
  BY <1>2 DEF NoTriage, Triages
<1>4. NoReason \in Reasons
  BY DEF Reasons
<1> QED BY <1>1, <1>2, <1>3, <1>4, SessionAssumption DEF NoAnswer

-----------------------------------------------------------------------------
(* Types.                                                                  *)

\* The variables of the triage workspace.
TriageTyped ==
  /\ about \in Messages
  /\ sentiment \in Sentiments
  /\ classification \in Verdicts \cup {NoClassification}

\* The variables of a run.
RunTyped ==
  /\ ticket \in Tickets \cup {NoTicket} /\ approved \in BOOLEAN
  /\ status \in {"open"} \cup Lifecycle!Settled /\ reason \in Reasons
  /\ draft \in 0 .. MaxDrafts /\ vetted \in 0 .. MaxDrafts
  /\ triaged \in Triages

\* A reset workspace has its types.
LEMMA ResetTyped ==
  ASSUME NEW m \in Messages, ResetTriage(m)
  PROVE  TriageTyped'
BY Blanks DEF ResetTriage, TriageTyped

\* So has a workspace after a tool call.
LEMMA ToolsTyped ==
  ASSUME TriageTyped, TriageToolCall
  PROVE  TriageTyped'
<1>1. CASE AnalyzeSentiment
  BY <1>1, SentimentFacts DEF AnalyzeSentiment, TriageTyped
<1>2. CASE \E verdict \in Verdicts : SubmitTriage(verdict)
  BY <1>2 DEF SubmitTriage, TriageTyped
<1> QED BY <1>1, <1>2 DEF TriageToolCall

\* A new run has the types.
LEMMA StartTyped ==
  ASSUME NEW t \in Tickets, StartRun(t)
  PROVE  RunTyped' /\ ticket' = t /\ phase' = "screening"
<1>1. NoTriage \in Triages /\ NoReason \in Reasons
  BY Blanks
<1>2. 0 \in 0 .. MaxDrafts
  BY SessionAssumption
<1>3. /\ ticket' = t /\ approved' = FALSE /\ status' = "open" /\ reason' = NoReason /\ draft' = 0
      /\ vetted' = 0 /\ triaged' = NoTriage /\ phase' = "screening"
  BY DEF StartRun
<1> QED BY <1>1, <1>2, <1>3 DEF RunTyped

\* Handling keeps them (TicketLifecycle's Work and Complete).
LEMMA HandleMoves ==
  ASSUME RunTyped, HandleTicket
  PROVE  /\ RunTyped' /\ status = "open" /\ status' \in {"open", "escalated", "completed"}
         /\ status' # "escalated" => reason' = reason
         /\ status' = "escalated" => reason' # NoReason
         /\ ticket' = ticket /\ approved' = approved /\ triaged' = triaged
         /\ phase = "handling" /\ mode' = mode /\ phase' = phase /\ exit' = exit
         /\ UNCHANGED triageVars /\ UNCHANGED artifactVars /\ UNCHANGED outVars
<1>1. status = "open" /\ status' \in {"open", "escalated", "completed"}
  BY DEF HandleTicket, Lifecycle!Work, Lifecycle!Complete
<1>2. draft' \in 0 .. MaxDrafts /\ vetted' \in 0 .. MaxDrafts
  BY SessionAssumption DEF HandleTicket, Lifecycle!Work, Lifecycle!Complete, RunTyped
<1>3. /\ reason' \in Reasons /\ (status' # "escalated" => reason' = reason)
      /\ status' = "escalated" => reason' # NoReason
  BY SessionAssumption DEF HandleTicket, RunTyped, Reasons, AgentFailure, NoReason
<1> QED BY <1>1, <1>2, <1>3 DEF HandleTicket, RunTyped, Lifecycle!Settled, processVars

\* And so does giving up.
LEMMA GiveUpMoves ==
  ASSUME RunTyped, GiveUp
  PROVE  /\ RunTyped' /\ status = "open" /\ status' \in {"escalated", "failed"}
         /\ status' = "failed" => reason' = reason
         /\ status' = "escalated" => phase \in {"triage", "handling"} /\ reason' = AgentFailure
         /\ ticket' = ticket /\ approved' = approved /\ triaged' = triaged
         /\ mode' = mode /\ phase' = phase /\ exit' = exit
         /\ UNCHANGED triageVars /\ UNCHANGED artifactVars /\ UNCHANGED outVars
<1>1. status = "open" /\ status' \in {"escalated", "failed"} /\ draft' = draft /\ vetted' = vetted
  BY DEF GiveUp, Lifecycle!GiveUp, RunTyped, Lifecycle!Settled
<1>2. reason' \in Reasons /\ (status' = "escalated" => reason' = AgentFailure)
  BY DEF GiveUp, RunTyped, Reasons
<1> QED BY <1>1, <1>2 DEF GiveUp, RunTyped, Lifecycle!Settled, processVars

\* The variables of the process and of the output.
ProcessTyped ==
  /\ mode \in {"none", "run", "chat", "verify"} /\ phase \in Phases
  /\ exit \in ExitCodes

DiskTyped == disk \in [Ids -> [Names -> 0 .. MaxRuns]] /\ progress \in 0 .. 8

ShownTyped == shown \in [status : Lifecycle!Settled \cup {"none"}, draft : 0 .. MaxDrafts]

RecordsTyped == records \in Seq(Records) /\ Run <= MaxRuns

FlagsTyped == flags \in Seq(SUBSET Flags) /\ Len(flags) <= Len(Samples)

\* TypeOK, in parts.
LEMMA Parts ==
  /\ TypeOK <=> /\ TriageTyped /\ RunTyped /\ ProcessTyped /\ DiskTyped
                /\ ShownTyped /\ RecordsTyped /\ FlagsTyped
  /\ TypeOK' <=> /\ TriageTyped' /\ RunTyped' /\ ProcessTyped' /\ DiskTyped'
                 /\ ShownTyped' /\ RecordsTyped' /\ FlagsTyped'
BY DEF TypeOK, TriageTyped, RunTyped, ProcessTyped, DiskTyped, ShownTyped, RecordsTyped, FlagsTyped

\* What is left alone keeps its types.
LEMMA Frames ==
  ASSUME TypeOK
  PROVE  /\ UNCHANGED triageVars => TriageTyped'
         /\ UNCHANGED runVars => RunTyped'
         /\ UNCHANGED artifactVars => DiskTyped'
         /\ UNCHANGED shown => ShownTyped'
         /\ UNCHANGED records => RecordsTyped'
         /\ UNCHANGED flags => FlagsTyped'
<1>1. UNCHANGED triageVars => TriageTyped'
  BY DEF TypeOK, TriageTyped, triageVars
<1>2. UNCHANGED runVars => RunTyped'
  BY DEF TypeOK, RunTyped, runVars
<1>3. UNCHANGED artifactVars => DiskTyped'
  BY DEF TypeOK, DiskTyped, artifactVars
<1>4. UNCHANGED shown => ShownTyped'
  BY DEF TypeOK, ShownTyped
<1>5. UNCHANGED records => RecordsTyped'
  BY DEF TypeOK, RecordsTyped, Run
<1>6. UNCHANGED flags => FlagsTyped'
  BY DEF TypeOK, FlagsTyped
<1> QED BY <1>1, <1>2, <1>3, <1>4, <1>5, <1>6

\* A message in hand is a message.
LEMMA TicketFacts ==
  ASSUME TypeOK, PlaceInv, phase \in RunPhases
  PROVE  ticket \in Tickets /\ ticket.message \in Messages /\ ticket.id \in Ids
BY DEF PlaceInv, Tickets

\* A sample's ticket is a ticket.
LEMMA SampleFacts ==
  ASSUME TypeOK, Len(flags) < Len(Samples)
  PROVE  /\ Len(flags) + 1 \in DOMAIN Samples
         /\ Sample.ticket \in Tickets
<1>1. Len(flags) + 1 \in DOMAIN Samples
  BY SessionAssumption DEF TypeOK
<1> DEFINE S == [ticket : [id : Ids, message : Messages], outcome : {"completed", "escalated"},
                 reason : STRING]
<1>2. Sample \in S
  <2>1. Samples \in Seq(S)
    BY SessionAssumption
  <2> HIDE DEF S
  <2> QED BY <1>1, <2>1 DEF Sample
<1>3. Sample.ticket \in {Samples[i].ticket : i \in DOMAIN Samples}
  BY <1>1 DEF Sample
<1> QED BY <1>1, <1>2, <1>3, SessionAssumption DEF Tickets

\* A verdict on one more sample.
LEMMA FlagTyped ==
  ASSUME TypeOK, Len(flags) < Len(Samples), NEW f \in SUBSET Flags, flags' = Append(flags, f)
  PROVE  FlagsTyped'
<1>1. flags' \in Seq(SUBSET Flags) /\ Len(flags') = Len(flags) + 1
  BY AppendProperties DEF TypeOK
<1> QED BY <1>1, SessionAssumption DEF TypeOK, FlagsTyped

\* The end of a process.
LEMMA EndTyped ==
  ASSUME NEW code \in ExitCodes, End(code)
  PROVE  TriageTyped' /\ ProcessTyped' /\ mode' = "none" /\ phase' = "idle"
BY Blanks, ResetTyped DEF End, ProcessTyped, Phases

\* Every step leaves every variable with its type.
LEMMA TypeStep ==
  ASSUME TypeOK, PlaceInv, WritingInv, [Next]_vars
  PROVE  TypeOK'
<1> USE Parts, Frames
<1>1. CASE RunTicket
  <2>1. PICK t \in TicketFiles : StartRun(t)
    BY <1>1 DEF RunTicket
  <2>2. t \in Tickets
    BY SessionAssumption DEF Tickets
  <2>3. RunTyped' /\ phase' = "screening"
    BY <2>1, <2>2, StartTyped
  <2>4. /\ mode' = "run" /\ exit' = "none" /\ shown' = NoAnswer /\ flags' = << >>
        /\ UNCHANGED <<triageVars, artifactVars, records>>
    BY <1>1 DEF RunTicket, Launch
  <2>5. ShownTyped' /\ FlagsTyped' /\ ProcessTyped'
    BY <2>3, <2>4, Blanks, SessionAssumption DEF ShownTyped, FlagsTyped, ProcessTyped, ExitCodes, Phases
  <2> QED BY <2>3, <2>4, <2>5
<1>2. CASE OpenChat \/ StartBatch
  <2>1. /\ mode' \in {"chat", "verify"} /\ phase' \in {"prompt", "batch"}
        /\ exit' = "none" /\ shown' = NoAnswer /\ flags' = << >>
        /\ UNCHANGED <<triageVars, artifactVars, records, runVars>>
    BY <1>2 DEF OpenChat, StartBatch, Launch
  <2>2. ShownTyped' /\ FlagsTyped' /\ ProcessTyped'
    BY <2>1, Blanks, SessionAssumption DEF ShownTyped, FlagsTyped, ProcessTyped, ExitCodes, Phases
  <2> QED BY <2>1, <2>2
<1>3. CASE RefuseCommand
  <2>1. ProcessTyped'
    BY <1>3 DEF RefuseCommand, ProcessTyped, TypeOK, ExitCodes
  <2> QED BY <1>3, <2>1 DEF RefuseCommand, outVars
<1>4. CASE SendMessage
  <2>1. PICK m \in Inputs, id \in ChatIds : StartRun([id |-> id, message |-> m])
    BY <1>4 DEF SendMessage
  <2>2. [id |-> id, message |-> m] \in Tickets
    BY SessionAssumption DEF Tickets
  <2>3. RunTyped' /\ phase' = "screening"
    BY <2>1, <2>2, StartTyped
  <2>4. ShownTyped' /\ ProcessTyped'
    BY <1>4, <2>3, Blanks DEF SendMessage, ShownTyped, ProcessTyped, TypeOK, Phases
  <2> QED BY <1>4, <2>3, <2>4 DEF SendMessage
<1>5. CASE CloseChat \/ OverlongMessage
  <2>1. TriageTyped' /\ ProcessTyped'
    BY <1>5, EndTyped DEF CloseChat, OverlongMessage, ExitCodes
  <2> QED BY <1>5, <2>1 DEF CloseChat, OverlongMessage, outVars
<1>6. CASE NextSample
  <2>1. RunTyped' /\ phase' = "screening"
    BY <1>6, SampleFacts, StartTyped DEF NextSample
  <2>2. ProcessTyped'
    BY <1>6, <2>1 DEF NextSample, ProcessTyped, TypeOK, Phases
  <2> QED BY <1>6, <2>1, <2>2 DEF NextSample, outVars
<1>7. CASE CloseBatch
  <2>1. TriageTyped' /\ ProcessTyped'
    BY <1>7, EndTyped DEF CloseBatch, ExitCodes
  <2> QED BY <1>7, <2>1 DEF CloseBatch, outVars
<1>8. CASE ScreenInbound \/ OperatorAnswers
  <2>1. ScreenTicket(ticket.message) \in Reasons
    BY ScreeningFacts DEF Reasons
  <2>2. ResetTriage(ticket.message) => TriageTyped'
    BY <1>8, TicketFacts, ResetTyped DEF ScreenInbound, OperatorAnswers, RunPhases, Phases
  <2>3. TriageTyped' /\ phase' \in Phases
    BY <1>8, <2>2 DEF ScreenInbound, OperatorAnswers, BeginTriage, Phases
  <2>4. RunTyped'
    <3>1. approved' \in BOOLEAN
      BY <1>8, SessionAssumption DEF ScreenInbound, OperatorAnswers, TypeOK
    <3>2. status' \in {"open", "escalated"} /\ reason' \in Reasons
      BY <1>8, <2>1 DEF ScreenInbound, OperatorAnswers, EscalateFor, TypeOK
    <3> QED BY <1>8, <3>1, <3>2
            DEF ScreenInbound, OperatorAnswers, TypeOK, RunTyped, Lifecycle!Settled
  <2> QED BY <1>8, <2>3, <2>4 DEF ScreenInbound, OperatorAnswers, ProcessTyped, TypeOK, outVars
<1>9. CASE TriageStep
  <2>1. TriageTyped'
    BY <1>9, ToolsTyped DEF TriageStep
  <2> QED BY <1>9, <2>1 DEF TriageStep, processVars, outVars, ProcessTyped, TypeOK
<1>10. CASE RetryTriage
  <2>1. TriageTyped' /\ phase' = "triage"
    BY <1>10, TicketFacts, ResetTyped DEF RetryTriage, BeginTriage, RunPhases, Phases
  <2> QED BY <1>10, <2>1 DEF RetryTriage, outVars, ProcessTyped, TypeOK
<1>11. CASE HydrateThenRaise \/ ApplyTriage
  <2>1. /\ phase = "triage" /\ phase' \in Phases /\ mode' = mode /\ exit' = exit
        /\ UNCHANGED <<artifactVars, ticket, approved, draft, vetted, outVars>>
        /\ triaged' = [sentiment |-> sentiment, classification |-> classification]
    BY <1>11 DEF HydrateTriage, HydrateThenRaise, ApplyTriage, BeginTriage, Phases
  <2>2. TriageTyped'
    <3>1. CASE ApplyTriage
      BY <3>1 DEF ApplyTriage
    <3>2. CASE HydrateThenRaise
      BY <2>1, <3>2, TicketFacts, ResetTyped DEF HydrateThenRaise, BeginTriage, RunPhases, Phases
    <3> QED BY <1>11, <3>1, <3>2
  <2>3. status' \in {"open", "escalated"} /\ reason' \in Reasons
    <3>1. /\ status = "open" /\ reason \in Reasons /\ AgentFailure \in Reasons
          /\ ScreenClassification(classification) \in Reasons
      BY <1>11, ClassificationFacts
      DEF HydrateTriage, HydrateThenRaise, ApplyTriage, TypeOK, Reasons
    <3> QED BY <1>11, <3>1 DEF HydrateThenRaise, ApplyTriage, EscalateFor
  <2>4. triaged' \in Triages
    BY <2>1 DEF TypeOK, Triages
  <2>5. RunTyped'
    BY <2>1, <2>3, <2>4 DEF TypeOK, RunTyped, Lifecycle!Settled
  <2> QED BY <2>1, <2>2, <2>5 DEF outVars, ProcessTyped, TypeOK
<1>12. CASE HandleTicket
  BY <1>12, HandleMoves DEF outVars, ProcessTyped, TypeOK
<1>13. CASE GiveUp
  BY <1>13, GiveUpMoves DEF outVars, ProcessTyped, TypeOK
<1>14. CASE BeginRecord
  <2> DEFINE r == [ticket |-> ticket, approved |-> approved, status |-> status, reason |-> reason,
                   triaged |-> triaged, reply |-> IF status = "completed" THEN draft ELSE 0]
  <2>1. r \in Records /\ Run < MaxRuns
    BY <1>14, TicketFacts, SessionAssumption
       DEF BeginRecord, Records, TypeOK, PlaceInv, RunPhases, Phases
  <2>2. records' = Append(records, r)
    BY <1>14 DEF BeginRecord
  <2> HIDE DEF r
  <2>3. RecordsTyped'
    BY <2>1, <2>2, SessionAssumption, AppendProperties DEF RecordsTyped, Run, TypeOK
  <2>4. DiskTyped' /\ ProcessTyped'
    BY <1>14 DEF BeginRecord, DiskTyped, ProcessTyped, TypeOK, Phases
  <2> QED BY <1>14, <2>3, <2>4 DEF BeginRecord
<1>15. CASE RecordStep
  <2>1. DiskTyped'
    <3> DEFINE name == FilesOf(status)[progress + 1]
    <3>1. Len(FilesOf(status)) = 7 \/ Len(FilesOf(status)) = 8
      BY FilesFacts
    <3>2. progress + 1 \in 1 .. Len(FilesOf(status)) /\ progress + 1 <= 8 /\ progress \in Nat
      <4>1. progress \in 0 .. 8 /\ progress < Len(FilesOf(status))
        BY <1>15 DEF RecordStep, WriteFile, TypeOK
      <4> DEFINE n == Len(FilesOf(status))
      <4>2. n = 7 \/ n = 8
        BY <3>1
      <4>3. progress \in 0 .. 8 /\ progress < n
        BY <4>1
      <4> HIDE DEF n
      <4>4. progress + 1 \in 1 .. n /\ progress + 1 <= 8 /\ progress \in Nat
        BY <4>2, <4>3
      <4> QED BY <4>4 DEF n
    <3>3. name \in Names
      BY <3>2, FilesFacts
    <3>4. Run \in 0 .. MaxRuns /\ ticket.id \in Ids
      BY <1>15, TicketFacts, SessionAssumption DEF TypeOK, Run, RecordStep, RunPhases, Phases
    <3>5. disk' = [disk EXCEPT ![ticket.id][name] = Run] /\ progress' = progress + 1
      BY <1>15 DEF RecordStep, WriteFile
    <3> HIDE DEF name
    <3>6. disk' \in [Ids -> [Names -> 0 .. MaxRuns]]
      BY <3>3, <3>4, <3>5 DEF TypeOK
    <3> QED BY <3>2, <3>5, <3>6 DEF DiskTyped
  <2> QED BY <1>15, <2>1 DEF RecordStep, outVars, processVars, ProcessTyped, TypeOK
<1>16. CASE ReturnRun
  <2>1. status \in Lifecycle!Settled \cup {"open"} /\ draft \in 0 .. MaxDrafts
    BY DEF TypeOK
  <2>2. CASE ReturnToShell
    <3>1. TriageTyped' /\ ProcessTyped'
      <4>1. status \in ExitCodes
        BY <1>16, <2>2 DEF ReturnRun, WritingInv, ExitCodes
      <4> QED BY <4>1, <2>2, EndTyped DEF ReturnToShell
    <3> QED BY <1>16, <2>2, <3>1 DEF ReturnRun, ReturnToShell
  <2>3. CASE ReturnToChat
    <3>1. ShownTyped' /\ ProcessTyped'
      BY <1>16, <2>1, <2>3
         DEF ReturnRun, ReturnToChat, ShownTyped, ProcessTyped, TypeOK, Phases, WritingInv
    <3> QED BY <1>16, <2>3, <3>1 DEF ReturnRun, ReturnToChat
  <2>4. CASE ReturnToVerifier
    <3>1. FlagsTyped'
      BY <1>16, <2>4, FlagTyped DEF ReturnRun, ReturnToVerifier, RedFlags, Flags, PlaceInv, RunPhases, Phases
    <3> QED BY <1>16, <2>4, <3>1 DEF ReturnRun, ReturnToVerifier, ProcessTyped, TypeOK, Phases
  <2> QED BY <1>16, <2>2, <2>3, <2>4 DEF ReturnRun
<1>17. CASE RunRaises
  <2>1. CASE mode = "verify"
    <3>1. FlagsTyped'
      BY <1>17, <2>1, FlagTyped DEF RunRaises, Flags, PlaceInv, RunPhases, Phases
    <3> QED BY <1>17, <2>1, <3>1 DEF RunRaises, ProcessTyped, TypeOK, Phases
  <2>2. CASE mode # "verify"
    <3>1. TriageTyped' /\ ProcessTyped'
      BY <1>17, <2>2, EndTyped DEF RunRaises, ExitCodes
    <3> QED BY <1>17, <2>2, <3>1 DEF RunRaises
  <2> QED BY <2>1, <2>2
<1>18. CASE Die
  <2>1. TriageTyped' /\ ProcessTyped'
    BY <1>18, EndTyped DEF Die, ExitCodes
  <2> QED BY <1>18, <2>1 DEF Die, outVars
<1>19. CASE SampleUnreadable
  <2>1. FlagsTyped'
    BY <1>19, FlagTyped DEF SampleUnreadable, Flags
  <2> QED BY <1>19, <2>1 DEF SampleUnreadable, processVars, ProcessTyped, TypeOK
<1>20. CASE UNCHANGED vars
  BY <1>20 DEF vars, processVars, outVars, ProcessTyped, TypeOK
<1> QED BY <1>1, <1>2, <1>3, <1>4, <1>5, <1>6, <1>7, <1>8, <1>9, <1>10, <1>11, <1>12, <1>13, <1>14,
          <1>15, <1>16, <1>17, <1>18, <1>19, <1>20 DEF Next

-----------------------------------------------------------------------------
(* The inductive invariant, part by part.                                  *)

\* Where a process and its run can be.
LEMMA PlaceStep ==
  ASSUME TypeOK, PlaceInv, WritingInv, [Next]_vars
  PROVE  PlaceInv'
<1>0. Run \in Nat /\ Run <= MaxRuns /\ mode \in {"none", "run", "chat", "verify"} /\ phase \in Phases
  BY DEF TypeOK, Run
<1> USE DEF PlaceInv
<1>1. CASE RunTicket
  <2>1. PICK t \in TicketFiles : StartRun(t)
    BY <1>1 DEF RunTicket
  <2>2. t \in Tickets
    BY SessionAssumption DEF Tickets
  <2>3. /\ mode' = "run" /\ exit' = "none" /\ phase' = "screening" /\ ticket' = t
        /\ Run' = Run /\ Run < MaxRuns
    BY <1>1, <2>1 DEF RunTicket, Launch, StartRun, Run
  <2> QED BY <2>2, <2>3
<1>2. CASE OpenChat \/ StartBatch
  BY <1>2 DEF OpenChat, StartBatch, Launch, RunPhases
<1>3. CASE RefuseCommand
  BY <1>3 DEF RefuseCommand, RunPhases
<1>4. CASE SendMessage
  <2>1. PICK m \in Inputs, id \in ChatIds : StartRun([id |-> id, message |-> m])
    BY <1>4 DEF SendMessage
  <2>2. [id |-> id, message |-> m] \in Tickets
    BY SessionAssumption DEF Tickets
  <2>3. /\ mode' = "chat" /\ exit' = exit /\ phase' = "screening" /\ mode = "chat"
        /\ ticket' = [id |-> id, message |-> m]
        /\ Run' = Run /\ Run < MaxRuns
    BY <1>4, <2>1 DEF SendMessage, StartRun, Run
  <2> QED BY <2>2, <2>3
<1>5. CASE CloseChat \/ OverlongMessage \/ CloseBatch \/ Die
  BY <1>5 DEF CloseChat, OverlongMessage, CloseBatch, Die, End, RunPhases
<1>6. CASE NextSample
  <2>1. Len(flags) < Len(Samples) /\ StartRun(Sample.ticket)
    BY <1>6 DEF NextSample
  <2>2. Sample.ticket \in Tickets
    BY <2>1, SampleFacts
  <2>3. /\ mode' = "verify" /\ mode = "verify" /\ exit' = exit /\ phase' = "screening"
        /\ ticket' = Sample.ticket /\ flags' = flags /\ Run' = Run /\ Run < MaxRuns
    BY <1>6, <2>1 DEF NextSample, StartRun, Run, outVars
  <2> QED BY <2>1, <2>2, <2>3
<1>7. ASSUME phase \in RunPhases \ {"writing"}, phase' \in RunPhases \ {"writing"},
             UNCHANGED <<mode, exit, ticket, flags, records>>
      PROVE  PlaceInv'
  BY <1>7 DEF Run, RunPhases
<1>8. CASE ScreenInbound \/ OperatorAnswers \/ TriageStep \/ RetryTriage \/ HydrateThenRaise \/ ApplyTriage
  BY <1>7, <1>8 DEF ScreenInbound, OperatorAnswers, TriageStep, RetryTriage, HydrateTriage,
                    HydrateThenRaise, ApplyTriage, BeginTriage, processVars, runVars, outVars, RunPhases, Phases
<1>9. CASE HandleTicket \/ GiveUp
  BY <1>7, <1>9 DEF HandleTicket, GiveUp, processVars, outVars, RunPhases, Phases
<1>10. CASE BeginRecord
  <2>1. Run' = Run + 1
    <3>1. \E r : records' = Append(records, r)
      BY <1>10 DEF BeginRecord
    <3> QED BY <3>1 DEF Run, TypeOK
  <2>2. /\ phase \in RunPhases \ {"writing"} /\ phase' = "writing"
        /\ UNCHANGED <<mode, exit, ticket, flags>>
    BY <1>10 DEF BeginRecord, runVars, RunPhases, Phases
  <2> QED BY <2>1, <2>2, <1>0 DEF RunPhases
<1>11. CASE RecordStep
  BY <1>11 DEF RecordStep, processVars, runVars, outVars, Run, RunPhases
<1>12. CASE ReturnRun
  BY <1>12 DEF ReturnRun, ReturnToShell, ReturnToChat, ReturnToVerifier, End, RunPhases
<1>13. CASE RunRaises
  BY <1>13 DEF RunRaises, End, RunPhases
<1>14. CASE SampleUnreadable
  BY <1>14 DEF SampleUnreadable, processVars, RunPhases
<1>15. CASE UNCHANGED vars
  BY <1>15 DEF vars, processVars, outVars, runVars, Run
<1> QED BY <1>1, <1>2, <1>3, <1>4, <1>5, <1>6, <1>8, <1>9, <1>10, <1>11, <1>12, <1>13, <1>14, <1>15
        DEF Next

\* What a started run has.
LEMMA StartMoves ==
  ASSUME NEW t, StartRun(t)
  PROVE  /\ phase' = "screening" /\ ticket' = t /\ approved' = FALSE /\ status' = "open"
         /\ reason' = NoReason /\ triaged' = NoTriage
BY DEF StartRun

\* Steps between runs leave no run, and steps that start one leave a fresh one.
LEMMA Outside ==
  ASSUME TypeOK, PlaceInv,
         \/ RunTicket \/ OpenChat \/ StartBatch \/ RefuseCommand
         \/ SendMessage \/ OverlongMessage \/ CloseChat
         \/ NextSample \/ SampleUnreadable \/ CloseBatch
         \/ ReturnRun \/ RunRaises \/ Die
  PROVE  /\ UNCHANGED <<disk, progress, records>>
         /\ \/ /\ phase' \in {"idle", "prompt", "batch"}
               /\ UNCHANGED <<approved, status, reason, triaged, ticket>>
            \/ /\ phase' = "screening" /\ approved' = FALSE /\ status' = "open"
               /\ reason' = NoReason /\ triaged' = NoTriage
<1> USE DEF artifactVars, outVars, runVars
<1>1. CASE RunTicket
  BY <1>1, StartMoves DEF RunTicket, Launch
<1>2. CASE OpenChat \/ StartBatch
  BY <1>2 DEF OpenChat, StartBatch, Launch
<1>3. CASE RefuseCommand
  BY <1>3 DEF RefuseCommand
<1>4. CASE SendMessage
  BY <1>4, StartMoves DEF SendMessage
<1>5. CASE CloseChat \/ OverlongMessage \/ CloseBatch \/ Die
  BY <1>5 DEF CloseChat, OverlongMessage, CloseBatch, Die, End
<1>6. CASE NextSample
  BY <1>6, StartMoves DEF NextSample
<1>7. CASE ReturnRun
  BY <1>7 DEF ReturnRun, ReturnToShell, ReturnToChat, ReturnToVerifier, End
<1>8. CASE RunRaises
  BY <1>8 DEF RunRaises, End
<1>9. CASE SampleUnreadable
  BY <1>9 DEF SampleUnreadable, processVars, PlaceInv
<1> QED BY <1>1, <1>2, <1>3, <1>4, <1>5, <1>6, <1>7, <1>8, <1>9

\* What is in the workspace is about the run's message.
LEMMA SentimentStep ==
  ASSUME TypeOK, PlaceInv, ScreeningInv, SentimentInv, [Next]_vars
  PROVE  SentimentInv'
<1> USE DEF SentimentInv
<1>1. CASE \/ RunTicket \/ OpenChat \/ StartBatch \/ RefuseCommand
           \/ SendMessage \/ OverlongMessage \/ CloseChat
           \/ NextSample \/ SampleUnreadable \/ CloseBatch
           \/ ReturnRun \/ RunRaises \/ Die
  BY <1>1, Outside DEF RunPhases
<1>2. ASSUME BeginTriage, phase \in RunPhases, UNCHANGED <<ticket, triaged>>
      PROVE  SentimentInv'
  BY <1>2 DEF BeginTriage, ResetTriage, RunPhases
<1>3. CASE ScreenInbound \/ OperatorAnswers
  <2>1. phase \in {"screening", "asking"} /\ UNCHANGED <<ticket, triaged>>
    BY <1>3 DEF ScreenInbound, OperatorAnswers
  <2>2. BeginTriage \/ phase' \in {"screening", "asking"}
    BY <1>3 DEF ScreenInbound, OperatorAnswers
  <2> QED BY <2>1, <2>2, <1>2 DEF RunPhases, Phases
<1>4. CASE TriageStep
  <2>1. phase' = phase /\ UNCHANGED <<ticket, triaged>> /\ phase = "triage"
    BY <1>4 DEF TriageStep, processVars, runVars
  <2>2. CASE AnalyzeSentiment
    <3>1. Assess(about) # NoSentiment
      BY SentimentFacts DEF TypeOK
    <3> QED BY <2>1, <2>2, <3>1 DEF AnalyzeSentiment, RunPhases
  <2>3. CASE \E verdict \in Verdicts : SubmitTriage(verdict)
    BY <2>1, <2>3 DEF SubmitTriage, RunPhases
  <2> QED BY <1>4, <2>2, <2>3 DEF TriageStep, TriageToolCall
<1>5. CASE RetryTriage
  BY <1>5, <1>2 DEF RetryTriage, runVars, RunPhases, Phases
<1>6. CASE HydrateThenRaise \/ ApplyTriage
  <2>1. /\ phase = "triage" /\ ticket' = ticket /\ classification # NoClassification
        /\ triaged' = [sentiment |-> sentiment, classification |-> classification]
    BY <1>6 DEF HydrateThenRaise, ApplyTriage, HydrateTriage
  <2>2. triaged'.sentiment = Assess(ticket.message)
    BY <2>1, SentimentFacts DEF RunPhases, Phases
  <2>3. CASE HydrateThenRaise
    BY <2>1, <2>2, <2>3 DEF HydrateThenRaise, BeginTriage, ResetTriage
  <2>4. CASE ApplyTriage
    BY <2>1, <2>2, <2>4 DEF ApplyTriage, triageVars
  <2> QED BY <1>6, <2>3, <2>4
<1>7. CASE HandleTicket \/ GiveUp
  BY <1>7 DEF HandleTicket, GiveUp, processVars, triageVars, RunPhases
<1>8. CASE BeginRecord
  BY <1>8 DEF BeginRecord, runVars, RunPhases, Phases
<1>9. CASE RecordStep
  BY <1>9 DEF RecordStep, processVars, runVars, triageVars
<1>10. CASE UNCHANGED vars
  BY <1>10 DEF vars, processVars, runVars, triageVars
<1> QED BY <1>1, <1>3, <1>4, <1>5, <1>6, <1>7, <1>8, <1>9, <1>10 DEF Next

\* How far a run has been screened, and that credentials stop it whatever the operator says.
LEMMA ScreeningStep ==
  ASSUME TypeOK, PlaceInv, ScreeningInv, GateCannotWaiveSecrets, [Next]_vars
  PROVE  ScreeningInv' /\ GateCannotWaiveSecrets'
<1> USE DEF ScreeningInv, GateCannotWaiveSecrets, Cleared
<1> DEFINE why == ScreenTicket(ticket.message)
<1>1. CASE \/ RunTicket \/ OpenChat \/ StartBatch \/ RefuseCommand
           \/ SendMessage \/ OverlongMessage \/ CloseChat
           \/ NextSample \/ SampleUnreadable \/ CloseBatch
           \/ ReturnRun \/ RunRaises \/ Die
  BY <1>1, Outside
<1>2. /\ why = NoReason \/ RequiresHumanApproval(why) =>
           /\ "sensitive" \notin ticket.message.terms
           /\ ~({"injection intent", "instructions"} \subseteq ticket.message.terms)
      /\ RequiresHumanApproval(why) => why # NoReason
  BY ScreeningFacts
<1> HIDE DEF why
<1>3. CASE ScreenInbound
  <2>1. /\ phase = "screening" /\ status = "open"
        /\ UNCHANGED <<ticket, approved, triaged>>
        /\ \/ why = NoReason /\ phase' = "triage" /\ UNCHANGED <<status, reason>>
           \/ RequiresHumanApproval(why) /\ phase' = "asking" /\ UNCHANGED <<status, reason>>
           \/ why # NoReason /\ phase' = "screening" /\ status' = "escalated" /\ reason' = why
    BY <1>3 DEF ScreenInbound, BeginTriage, EscalateFor, why
  <2>2. why' = why
    BY <2>1 DEF why
  <2> QED BY <2>1, <2>2, <1>2 DEF why
<1>4. CASE OperatorAnswers
  <2>1. /\ phase = "asking" /\ status = "open"
        /\ UNCHANGED <<ticket, triaged>> /\ approved' \in BOOLEAN
        /\ \/ approved' /\ phase' = "triage" /\ UNCHANGED <<status, reason>>
           \/ ~approved' /\ phase' = "asking" /\ status' = "escalated" /\ reason' = why
    BY <1>4, SessionAssumption DEF OperatorAnswers, BeginTriage, EscalateFor, why
  <2>2. why' = why
    BY <2>1 DEF why
  <2> QED BY <2>1, <2>2, <1>2 DEF why
<1>5. CASE TriageStep
  BY <1>5 DEF TriageStep, processVars, runVars
<1>6. CASE RetryTriage
  BY <1>6 DEF RetryTriage, BeginTriage, runVars
<1>7. CASE HydrateThenRaise \/ ApplyTriage
  <2> DEFINE found == ScreenClassification(classification)
  <2>1. /\ phase = "triage" /\ status = "open" /\ UNCHANGED <<ticket, approved>>
        /\ triaged' = [sentiment |-> sentiment, classification |-> classification]
        /\ \/ phase' = "triage" /\ UNCHANGED <<status, reason>>
           \/ found = NoReason /\ phase' = "handling" /\ UNCHANGED <<status, reason>>
           \/ /\ found # NoReason /\ phase' = "triage"
              /\ status' = "escalated" /\ reason' \in {found, AgentFailure}
    BY <1>7 DEF HydrateThenRaise, ApplyTriage, HydrateTriage, BeginTriage, EscalateFor
  <2>2. triaged'.classification = classification /\ AgentFailure # NoReason
    BY <2>1 DEF AgentFailure, NoReason
  <2> HIDE DEF found
  <2>3. triaged'.classification = classification /\ found = ScreenClassification(classification)
    BY <2>2 DEF found
  <2> QED BY <2>1, <2>2, <2>3
<1>8. CASE HandleTicket
  BY <1>8, Parts, HandleMoves
<1>9. CASE GiveUp
  <2>1. /\ status = "open" /\ status' \in {"escalated", "failed"}
        /\ status' = "failed" => reason' = reason
        /\ status' = "escalated" => phase \in {"triage", "handling"} /\ reason' = AgentFailure
        /\ UNCHANGED <<ticket, approved, triaged, phase>>
    BY <1>9, Parts, GiveUpMoves
  <2>2. AgentFailure # NoReason
    BY DEF AgentFailure, NoReason
  <2> QED BY <2>1, <2>2
<1>10. CASE BeginRecord
  BY <1>10 DEF BeginRecord, runVars
<1>11. CASE RecordStep
  BY <1>11 DEF RecordStep, processVars, runVars
<1>12. CASE UNCHANGED vars
  BY <1>12 DEF vars, processVars, runVars
<1> QED BY <1>1, <1>3, <1>4, <1>5, <1>6, <1>7, <1>8, <1>9, <1>10, <1>11, <1>12 DEF Next

\* Only two actions touch the directories and what they tell of.
LEMMA Elsewhere ==
  ASSUME TypeOK, PlaceInv, [Next]_vars, ~BeginRecord, ~RecordStep
  PROVE  /\ UNCHANGED <<disk, records>>
         /\ phase' = "writing" => UNCHANGED <<phase, ticket, status, reason, progress>>
<1> USE DEF artifactVars, processVars, runVars, outVars
<1>1. CASE \/ RunTicket \/ OpenChat \/ StartBatch \/ RefuseCommand
           \/ SendMessage \/ OverlongMessage \/ CloseChat
           \/ NextSample \/ SampleUnreadable \/ CloseBatch
           \/ ReturnRun \/ RunRaises \/ Die
  BY <1>1, Outside
<1>2. CASE ScreenInbound \/ OperatorAnswers \/ TriageStep \/ RetryTriage \/ HydrateThenRaise \/ ApplyTriage
  BY <1>2 DEF ScreenInbound, OperatorAnswers, TriageStep, RetryTriage, HydrateTriage,
              HydrateThenRaise, ApplyTriage, BeginTriage
<1>3. CASE HandleTicket \/ GiveUp
  BY <1>3 DEF HandleTicket, GiveUp
<1>4. CASE UNCHANGED vars
  BY <1>4 DEF vars
<1> QED BY <1>1, <1>2, <1>3, <1>4 DEF Next

\* A record is appended to the ones there are.
LEMMA Appended ==
  ASSUME TypeOK, PlaceInv, BeginRecord
  PROVE  /\ Run' = Run + 1 /\ Run \in Nat /\ DOMAIN records = 1 .. Run /\ DOMAIN records' = 1 .. Run + 1
         /\ \A n \in 1 .. Run : records'[n] = records[n]
         /\ records'[Run + 1] =
              [ticket |-> ticket, approved |-> approved, status |-> status, reason |-> reason,
               triaged |-> triaged, reply |-> IF status = "completed" THEN draft ELSE 0]
         /\ phase' = "writing" /\ progress' = 0 /\ disk' = disk
         /\ UNCHANGED <<ticket, approved, status, reason, triaged, mode, exit>>
<1> DEFINE r == [ticket |-> ticket, approved |-> approved, status |-> status, reason |-> reason,
                 triaged |-> triaged, reply |-> IF status = "completed" THEN draft ELSE 0]
<1>1. records' = Append(records, r) /\ phase \in RunPhases
  BY DEF BeginRecord, RunPhases, Phases
<1>2. r \in Records
  BY TicketFacts, <1>1, SessionAssumption DEF BeginRecord, Records, TypeOK
<1>3. /\ phase' = "writing" /\ progress' = 0 /\ disk' = disk
      /\ UNCHANGED <<ticket, approved, status, reason, triaged, mode, exit>>
  BY DEF BeginRecord, runVars
<1>4. records \in Seq(Records)
  BY DEF TypeOK
<1> HIDE DEF r
<1>5. /\ records' \in Seq(Records) /\ Len(records') = Len(records) + 1
      /\ \A n \in 1 .. Len(records) : records'[n] = records[n]
      /\ records'[Len(records) + 1] = r
  BY <1>1, <1>2, <1>4, AppendProperties
<1>6. Len(records) \in Nat /\ DOMAIN records = 1 .. Len(records) /\ DOMAIN records' = 1 .. Len(records')
  BY <1>4, <1>5
<1> QED BY <1>3, <1>5, <1>6 DEF Run, r

\* One more file is of the run.
LEMMA Written ==
  ASSUME TypeOK, PlaceInv, WritingInv, RecordStep
  PROVE  /\ ticket.id \in Ids /\ Run > 0 /\ Run \in Nat
         /\ \E k \in 1 .. Len(FilesOf(status)) :
              /\ k = progress + 1 /\ progress' = k
              /\ FilesOf(status)[k] \in Names
              /\ \A id \in Ids, name \in Names :
                   disk'[id][name] =
                     IF id = ticket.id /\ name = FilesOf(status)[k] THEN Run ELSE disk[id][name]
         /\ phase = "writing" /\ UNCHANGED <<phase, mode, exit, ticket, status, reason, records>>
<1> DEFINE k == progress + 1
           name == FilesOf(status)[k]
<1>1. phase = "writing" /\ UNCHANGED <<phase, mode, exit, ticket, status, reason, records>>
  BY DEF RecordStep, processVars, runVars, outVars
<1>2. ticket.id \in Ids
  BY <1>1, TicketFacts DEF RunPhases, Phases
<1>3. progress < Len(FilesOf(status)) /\ progress' = k /\ disk' = [disk EXCEPT ![ticket.id][name] = Run]
  BY DEF RecordStep, WriteFile
<1>4. progress \in 0 .. 8
  BY DEF TypeOK
<1>5. k \in 1 .. Len(FilesOf(status))
  <2> DEFINE n == Len(FilesOf(status))
  <2>1. n = 7 \/ n = 8
    BY FilesFacts
  <2>2. progress < n
    BY <1>3
  <2> HIDE DEF n
  <2>3. k \in 1 .. n
    BY <1>4, <2>1, <2>2
  <2> QED BY <2>3 DEF n
<1>6. name \in Names
  BY <1>5, FilesFacts
<1>7. Run > 0 /\ Run \in Nat
  BY <1>1 DEF WritingInv, Run, TypeOK
<1>8. \A id \in Ids, other \in Names :
        disk'[id][other] = IF id = ticket.id /\ other = name THEN Run ELSE disk[id][other]
  <2> HIDE DEF name
  <2> QED BY <1>2, <1>3, <1>6 DEF TypeOK
<1> QED BY <1>1, <1>2, <1>3, <1>5, <1>6, <1>7, <1>8

\* The record being written is that of the run.
LEMMA WritingStep ==
  ASSUME TypeOK, PlaceInv, WritingInv, DiskInv, [Next]_vars
  PROVE  WritingInv'
<1>1. CASE BeginRecord
  <2>1. status \in Lifecycle!Settled /\ ticket.id \in Ids
    BY <1>1, TicketFacts DEF BeginRecord, RunPhases, Phases
  <2>2. \A i \in 1 .. Len(FilesOf(status)) :
          disk[ticket.id][FilesOf(status)[i]] # Run + 1 /\ ~ i <= 0
    <3>1. \A name \in Names : disk[ticket.id][name] # 0 => disk[ticket.id][name] <= Run
      BY <2>1 DEF DiskInv
    <3>2. \A name \in Names : disk[ticket.id][name] # Run + 1
      BY <3>1, <1>1, Appended
    <3> QED BY <3>2, FilesFacts
  <2>3. Len(FilesOf(status)) >= 0
    BY FilesFacts
  <2> QED BY <1>1, <2>1, <2>2, <2>3, Appended DEF WritingInv
<1>2. CASE RecordStep
  <2>1. PICK k \in 1 .. Len(FilesOf(status)) :
          /\ k = progress + 1 /\ progress' = k
          /\ FilesOf(status)[k] \in Names
          /\ \A id \in Ids, name \in Names :
               disk'[id][name] =
                 IF id = ticket.id /\ name = FilesOf(status)[k] THEN Run ELSE disk[id][name]
    BY <1>2, Written
  <2>2. ASSUME NEW i \in 1 .. Len(FilesOf(status))
        PROVE  disk'[ticket.id][FilesOf(status)[i]] = Run <=> i <= k
    <3>1. FilesOf(status)[i] \in Names /\ (FilesOf(status)[i] = FilesOf(status)[k] => i = k)
      BY FilesFacts
    <3>2. ticket.id \in Ids /\ phase = "writing"
      BY <1>2, Written
    <3>3. i # k => (i <= progress <=> i <= k)
      <4>1. i \in 1 .. 8 /\ k \in 1 .. 8 /\ k = progress + 1 /\ progress \in 0 .. 8
        BY <2>1, FileIndex DEF TypeOK
      <4> QED BY <4>1
    <3> QED BY <2>1, <3>1, <3>2, <3>3 DEF WritingInv
  <2> QED BY <1>2, <2>1, <2>2, Written DEF WritingInv, Run
<1>3. CASE ~BeginRecord /\ ~RecordStep
  BY <1>3, Elsewhere DEF WritingInv, Run
<1> QED BY <1>1, <1>2, <1>3

\* Files are of runs of their ticket, and none is newer than one written before it.
LEMMA DiskStep ==
  ASSUME TypeOK, PlaceInv, WritingInv, DiskInv, [Next]_vars
  PROVE  DiskInv'
<1>0. \A id \in Ids, name \in Names : disk[id][name] \in Nat
  BY SessionAssumption DEF TypeOK
<1>1. CASE BeginRecord
  <2>1. \A id \in Ids, name \in Names : disk[id][name] # 0 => disk[id][name] \in 1 .. Run
    BY <1>0, <1>1, Appended DEF DiskInv
  <2>2. "escalation" \in Names
    BY BaseFacts
  <2> QED BY <1>1, <2>1, <2>2, Appended DEF DiskInv
<1>2. CASE RecordStep
  <2>1. PICK k \in 1 .. Len(FilesOf(status)) :
          /\ k = progress + 1 /\ progress' = k
          /\ FilesOf(status)[k] \in Names
          /\ \A id \in Ids, name \in Names :
               disk'[id][name] =
                 IF id = ticket.id /\ name = FilesOf(status)[k] THEN Run ELSE disk[id][name]
    BY <1>2, Written
  <2>2. /\ phase = "writing" /\ Run \in Nat /\ Run' = Run /\ records' = records /\ ticket.id \in Ids
        /\ records[Run].ticket = ticket /\ records[Run].status = status /\ progress <= 8
    BY <1>2, Written DEF WritingInv, Run, TypeOK
  <2>3. \A id \in Ids, name \in Names :
          disk'[id][name] # 0 => disk'[id][name] <= Run' /\ records'[disk'[id][name]].ticket.id = id
    BY <2>1, <2>2 DEF DiskInv
  <2>4. \A i \in 1 .. 7 : BaseFiles[i] \in Names \ {"escalation"} /\ FilesOf(status)[i] = BaseFiles[i]
    BY BaseFacts, FilesFacts
  <2>5. ASSUME NEW id \in Ids, NEW i \in 1 .. 7, NEW j \in 1 .. 7, i <= j
        PROVE  disk'[id][BaseFiles[j]] <= disk'[id][BaseFiles[i]]
    <3>1. disk[id][BaseFiles[j]] <= disk[id][BaseFiles[i]]
      BY <2>5 DEF DiskInv
    <3>2. \A n \in 1 .. 7 : disk[id][BaseFiles[n]] <= Run /\ disk[id][BaseFiles[n]] \in Nat
      BY <1>0, <2>2, <2>4 DEF DiskInv
    <3>3. CASE id # ticket.id \/ FilesOf(status)[k] # BaseFiles[j]
      <4>1. disk'[id][BaseFiles[j]] = disk[id][BaseFiles[j]]
        BY <2>1, <2>4, <3>3
      <4>2. disk'[id][BaseFiles[i]] \in {disk[id][BaseFiles[i]], Run}
        BY <2>1, <2>4
      <4> QED BY <3>1, <3>2, <4>1, <4>2
    <3>4. CASE id = ticket.id /\ FilesOf(status)[k] = BaseFiles[j]
      <4>1. k = j
        <5>1. j \in 1 .. Len(FilesOf(status)) /\ FilesOf(status)[j] = BaseFiles[j]
          BY FilesFacts
        <5> QED BY <5>1, <3>4, FilesFacts
      <4>2. CASE i = j
        BY <4>2, <2>1, <2>4, <3>4, <2>2
      <4>3. CASE i < j
        <5>1. i <= progress /\ i \in 1 .. Len(FilesOf(status)) /\ FilesOf(status)[i] = BaseFiles[i]
          <6>1. k \in 1 .. 8 /\ k = progress + 1 /\ progress \in 0 .. 8
            BY <2>1, FileIndex DEF TypeOK
          <6>2. i \in 1 .. Len(FilesOf(status)) /\ FilesOf(status)[i] = BaseFiles[i]
            BY FilesFacts
          <6> QED BY <4>1, <4>3, <6>1, <6>2
        <5>2. disk[id][BaseFiles[i]] = Run
          BY <5>1, <2>2, <3>4 DEF WritingInv
        <5>3. disk'[id][BaseFiles[i]] = Run /\ disk'[id][BaseFiles[j]] = Run
          BY <5>2, <2>1, <2>4, <3>4
        <5> QED BY <5>3, <2>2
      <4> QED BY <2>5, <4>2, <4>3
    <3> QED BY <3>3, <3>4
  <2>6. ASSUME NEW id \in Ids, disk'[id]["escalation"] # 0
        PROVE  records'[disk'[id]["escalation"]].status = "escalated"
    <3>1. "escalation" \in Names
      BY BaseFacts
    <3>2. CASE id = ticket.id /\ FilesOf(status)[k] = "escalation"
      <4>1. status = "escalated"
        <5>1. status # "escalated" => k \in 1 .. 7
          BY FilesFacts
        <5> QED BY <5>1, <2>4, <3>2
      <4> QED BY <4>1, <2>1, <2>2, <3>1, <3>2
    <3>3. CASE ~(id = ticket.id /\ FilesOf(status)[k] = "escalation")
      <4>1. disk'[id]["escalation"] = disk[id]["escalation"]
        BY <2>1, <3>1, <3>3
      <4> QED BY <4>1, <2>6, <2>2 DEF DiskInv
    <3> QED BY <3>2, <3>3
  <2> QED BY <2>3, <2>5, <2>6 DEF DiskInv
<1>3. CASE ~BeginRecord /\ ~RecordStep
  BY <1>3, Elsewhere DEF DiskInv, Run
<1> QED BY <1>1, <1>2, <1>3

-----------------------------------------------------------------------------
(* The properties.                                                         *)

\* What is recorded of triage is about the recorded ticket.
LEMMA TriageStepKeeps ==
  ASSUME TypeOK, PlaceInv, SentimentInv, TriageIsOfThisTicket, [Next]_vars
  PROVE  TriageIsOfThisTicket'
<1>1. CASE BeginRecord
  <2>1. triaged # NoTriage => triaged.sentiment = Assess(ticket.message)
    BY <1>1 DEF BeginRecord, SentimentInv, RunPhases, Phases
  <2>2. \A n \in DOMAIN records' : n \in DOMAIN records \/ n = Run + 1
    BY <1>1, Appended
  <2>3. /\ \A n \in DOMAIN records : records'[n] = records[n]
        /\ records'[Run + 1].triaged = triaged /\ records'[Run + 1].ticket = ticket
    BY <1>1, Appended
  <2> QED BY <2>1, <2>2, <2>3 DEF TriageIsOfThisTicket
<1>2. CASE RecordStep
  BY <1>2 DEF RecordStep, outVars, TriageIsOfThisTicket
<1>3. CASE ~BeginRecord /\ ~RecordStep
  BY <1>3, Elsewhere DEF TriageIsOfThisTicket
<1> QED BY <1>1, <1>2, <1>3

\* What is recorded of a run's end is what the evaluation expects.
LEMMA EvaluationStep ==
  ASSUME TypeOK, PlaceInv, ScreeningInv, OfflineEvaluationPredicts, [Next]_vars
  PROVE  OfflineEvaluationPredicts'
<1>1. CASE BeginRecord
  <2> DEFINE predicted == EvaluateCase(ticket.message, triaged.classification,
                                       {reason} \cap EvidenceReasons)
             screened == ScreenTicket(ticket.message)
             classified == ScreenClassification(triaged.classification)
  <2>1. /\ phase \in {"screening", "asking", "triage", "handling"}
        /\ status \in {"completed", "escalated", "failed"}
    BY <1>1 DEF BeginRecord, Lifecycle!Settled
  <2>2. predicted \in
          {IF screened # NoReason THEN screened
           ELSE IF classified # NoReason THEN classified
           ELSE IF reason \in EvidenceReasons THEN reason ELSE NoReason}
    BY DEF EvaluateCase, EvidenceReasons, NoReason
  <2>3. ASSUME ~approved, triaged # NoTriage \/ screened # NoReason, predicted # NoReason,
               status # "failed"
        PROVE  /\ status = "escalated"
               /\ reason = predicted \/ (reason = AgentFailure /\ screened = NoReason)
    <3> HIDE DEF predicted, classified, screened
    <3>1. CASE screened # NoReason
      <4>1. phase \in {"screening", "asking"}
        BY <2>1, <2>3, <3>1 DEF ScreeningInv, Cleared, screened
      <4> QED BY <4>1, <2>1, <2>2, <2>3, <3>1 DEF ScreeningInv, screened
    <3>2. CASE screened = NoReason
      <4>1. phase \in {"triage", "handling"}
        BY <2>1, <2>3, <3>2 DEF ScreeningInv
      <4>2. CASE phase = "triage"
        BY <4>2, <2>1, <2>2, <2>3, <3>2 DEF ScreeningInv, classified
      <4>3. CASE phase = "handling"
        <5>1. classified = NoReason
          BY <4>3 DEF ScreeningInv, classified
        <5>2. predicted = reason /\ reason # NoReason
          BY <5>1, <2>2, <2>3, <3>2
        <5> QED BY <5>2 DEF ScreeningInv
      <4> QED BY <4>1, <4>2, <4>3
    <3> QED BY <3>1, <3>2
  <2>4. \A n \in DOMAIN records' : n \in DOMAIN records \/ n = Run + 1
    BY <1>1, Appended
  <2>5. \A n \in DOMAIN records : records'[n] = records[n]
    BY <1>1, Appended
  <2>6. /\ records'[Run + 1].triaged = triaged /\ records'[Run + 1].ticket = ticket
        /\ records'[Run + 1].approved = approved /\ records'[Run + 1].status = status
        /\ records'[Run + 1].reason = reason
    BY <1>1, Appended
  <2> QED BY <2>3, <2>4, <2>5, <2>6 DEF OfflineEvaluationPredicts
<1>2. CASE RecordStep
  BY <1>2 DEF RecordStep, outVars, OfflineEvaluationPredicts
<1>3. CASE ~BeginRecord /\ ~RecordStep
  BY <1>3, Elsewhere DEF OfflineEvaluationPredicts
<1> QED BY <1>1, <1>2, <1>3

\* When all files are written, the directory holds the whole record of the run.
LEMMA WholeNow ==
  ASSUME TypeOK, WritingInv, phase = "writing", AllWritten(status)
  PROVE  Whole(ticket.id, Run, status)
<1>1. progress = Len(FilesOf(status))
  BY DEF AllWritten
<1>2. \A i \in 1 .. Len(FilesOf(status)) : i <= progress
  BY <1>1, FileIndex, FilesFacts
<1> QED BY <1>2, FilesFacts DEF WritingInv, Whole

\* An exit code is given when the directory bears it out, and stands until the next process.
LEMMA ExitStep ==
  ASSUME TypeOK, PlaceInv, WritingInv, ExitCodeTellsTheDisk, [Next]_vars
  PROVE  ExitCodeTellsTheDisk'
<1> DEFINE Plain == {"none", "input", "closed", "clean", "flagged", "traceback", "killed"}
<1>1. \A code \in Plain : code \notin Lifecycle!Settled /\ code # "output"
  BY DEF Lifecycle!Settled
<1>2. exit' \in Plain => ExitCodeTellsTheDisk'
  BY <1>1 DEF ExitCodeTellsTheDisk
<1>3. CASE RunTicket \/ OpenChat \/ StartBatch
  BY <1>2, <1>3 DEF RunTicket, OpenChat, StartBatch, Launch
<1>4. CASE RefuseCommand
  BY <1>2, <1>4 DEF RefuseCommand
<1>5. CASE CloseChat \/ OverlongMessage \/ CloseBatch \/ Die
  BY <1>2, <1>5 DEF CloseChat, OverlongMessage, CloseBatch, Die, End
<1>6. ASSUME phase # "idle", exit' = exit
      PROVE  ExitCodeTellsTheDisk'
  BY <1>2, <1>6 DEF PlaceInv
<1>7. CASE SendMessage \/ NextSample \/ SampleUnreadable
  BY <1>6, <1>7 DEF SendMessage, NextSample, SampleUnreadable, processVars
<1>8. CASE ScreenInbound \/ OperatorAnswers \/ TriageStep \/ RetryTriage \/ HydrateThenRaise \/ ApplyTriage
  BY <1>6, <1>8 DEF ScreenInbound, OperatorAnswers, TriageStep, RetryTriage, HydrateTriage,
                    HydrateThenRaise, ApplyTriage, processVars
<1>9. CASE HandleTicket \/ GiveUp \/ BeginRecord \/ RecordStep
  BY <1>6, <1>9 DEF HandleTicket, GiveUp, BeginRecord, RecordStep, processVars
<1>10. CASE ReturnRun
  <2>1. CASE ReturnToShell
    <3>1. /\ exit' = status /\ phase = "writing" /\ progress = Len(FilesOf(status))
          /\ UNCHANGED <<disk, records, ticket>> /\ status \in Lifecycle!Settled
      BY <1>10, <2>1 DEF ReturnRun, ReturnToShell, End, AllWritten, artifactVars, runVars, WritingInv
    <3>2. records[Run].ticket = ticket /\ records[Run].status = status
      BY <3>1 DEF WritingInv
    <3>3. Whole(ticket.id, Run, status)
      BY <3>1, WholeNow DEF AllWritten
    <3>4. status # "output"
      BY <3>1 DEF Lifecycle!Settled
    <3> QED BY <3>1, <3>2, <3>3, <3>4 DEF ExitCodeTellsTheDisk, Run, Whole
  <2>2. CASE ReturnToChat \/ ReturnToVerifier
    BY <1>6, <1>10, <2>2 DEF ReturnRun, ReturnToChat, ReturnToVerifier
  <2> QED BY <1>10, <2>1, <2>2 DEF ReturnRun
<1>11. CASE RunRaises
  <2>1. phase # "idle" /\ UNCHANGED <<disk, records, ticket, status>>
    BY <1>11 DEF RunRaises, artifactVars, runVars
  <2>2. CASE exit' = exit
    BY <1>6, <2>1, <2>2
  <2>3. CASE exit' = "traceback"
    BY <1>2, <2>3
  <2>4. CASE exit' = "output" /\ phase = "writing" /\ ~AllWritten(status)
    <3>1. \E i \in 1 .. Len(FilesOf(status)) : ~(i <= progress)
      <4> DEFINE n == Len(FilesOf(status))
      <4>1. n = 7 \/ n = 8
        BY FilesFacts
      <4>2. progress \in 0 .. 8 /\ progress <= n /\ progress # n
        BY <2>4 DEF WritingInv, AllWritten, TypeOK
      <4> HIDE DEF n
      <4>3. n \in 1 .. n /\ ~(n <= progress)
        BY <4>1, <4>2
      <4> QED BY <4>3 DEF n
    <3>2. ~Whole(ticket.id, Run, status)
      BY <2>4, <3>1, FilesFacts DEF WritingInv, Whole
    <3> QED BY <2>1, <2>4, <3>2 DEF ExitCodeTellsTheDisk, Whole, Run, Lifecycle!Settled
  <2> QED BY <1>11, <2>2, <2>3, <2>4 DEF RunRaises, End
<1>12. CASE UNCHANGED vars
  BY <1>12 DEF vars, artifactVars, processVars, runVars, outVars, ExitCodeTellsTheDisk, Whole, Run
<1> QED BY <1>3, <1>4, <1>5, <1>7, <1>8, <1>9, <1>10, <1>11, <1>12 DEF Next

\* What is recorded of a sample stays, as long as its directory and the records do.
LEMMA RecordStays ==
  ASSUME NEW i \in DOMAIN Samples, RecordedAsDocumented(i), Samples[i].ticket.id \in Ids,
         \A n \in DOMAIN records : n \in DOMAIN records' /\ records'[n] = records[n],
         \A name \in Names : disk'[Samples[i].ticket.id][name] = disk[Samples[i].ticket.id][name]
  PROVE  RecordedAsDocumented(i)'
<1>1. \A n : Whole(Samples[i].ticket.id, n, Samples[i].outcome)
                => Whole(Samples[i].ticket.id, n, Samples[i].outcome)'
  <2>1. \A k \in DOMAIN FilesOf(Samples[i].outcome) : FilesOf(Samples[i].outcome)[k] \in Names
    BY FilesFacts
  <2> QED BY <2>1 DEF Whole
<1> QED BY <1>1 DEF RecordedAsDocumented

\* A run the verifier has nothing against has a whole record that says what was expected.
LEMMA NothingAgainst ==
  ASSUME TypeOK, PlaceInv, WritingInv, ScreeningInv, BatchInv,
         phase = "writing", mode = "verify", AllWritten(status), RedFlags(Sample) = {}
  PROVE  RecordedAsDocumented(Len(flags) + 1)
<1>1. /\ Len(flags) + 1 \in DOMAIN Samples /\ Sample = Samples[Len(flags) + 1]
      /\ ticket = Sample.ticket
  BY SampleFacts DEF PlaceInv, BatchInv, Sample, RunPhases, Phases
<1>2. /\ status = Sample.outcome
      /\ NoReason \in {Sample.reason, reason} \/ reason = Sample.reason
      /\ Sample.reason = NoReason /\ Sample.outcome = "completed" => reason = NoReason
  BY DEF RedFlags
<1>3. Sample.outcome = "escalated" <=> Sample.reason # NoReason
  BY <1>1, SessionAssumption
<1>4. Sample.outcome \in {"completed", "escalated"}
  <2> DEFINE S == [ticket : [id : Ids, message : Messages], outcome : {"completed", "escalated"},
                   reason : STRING]
  <2>1. Samples \in Seq(S)
    BY SessionAssumption
  <2>2. Sample \in S
    <3> HIDE DEF S
    <3> QED BY <1>1, <2>1
  <2> QED BY <2>2
<1>5. reason = Sample.reason
  BY <1>2, <1>3, <1>4 DEF ScreeningInv
<1>6. Whole(ticket.id, Run, status)
  <2>1. \A i \in 1 .. Len(FilesOf(status)) : i <= progress
    BY FileIndex, FilesFacts DEF AllWritten
  <2> QED BY <2>1, FilesFacts DEF WritingInv, Whole
<1>7. Run \in DOMAIN records
  BY DEF WritingInv, Run, TypeOK
<1> QED BY <1>1, <1>2, <1>5, <1>6, <1>7 DEF RecordedAsDocumented, WritingInv

\* A verdict on one more sample leaves the others.
LEMMA FlagAppended ==
  ASSUME TypeOK, Len(flags) < Len(Samples), NEW f \in SUBSET Flags, flags' = Append(flags, f)
  PROVE  /\ \A i \in DOMAIN flags' : i \in DOMAIN flags \/ i = Len(flags) + 1
         /\ \A i \in DOMAIN flags : flags'[i] = flags[i]
         /\ flags'[Len(flags) + 1] = f
<1>1. flags \in Seq(SUBSET Flags)
  BY DEF TypeOK
<1>2. /\ flags' \in Seq(SUBSET Flags) /\ Len(flags') = Len(flags) + 1
      /\ \A i \in 1 .. Len(flags) : flags'[i] = flags[i]
      /\ flags'[Len(flags) + 1] = f
  BY <1>1, AppendProperties
<1>3. DOMAIN flags = 1 .. Len(flags) /\ DOMAIN flags' = 1 .. Len(flags) + 1 /\ Len(flags) \in Nat
  BY <1>1, <1>2
<1> QED BY <1>2, <1>3

\* A sample that raised is flagged.
LEMMA ErrorFlagged ==
  ASSUME TypeOK, BatchInv, mode = "verify", Len(flags) < Len(Samples),
         flags' = Append(flags, {"script error"})
  PROVE  \A i \in DOMAIN flags' : flags'[i] = {} => RecordedAsDocumented(i)
<1> DEFINE f == {"script error"}
<1>1. f \in SUBSET Flags /\ f # {}
  BY DEF Flags
<1>2. flags' = Append(flags, f)
  OBVIOUS
<1> HIDE DEF f
<1>3. /\ \A i \in DOMAIN flags' : i \in DOMAIN flags \/ i = Len(flags) + 1
      /\ \A i \in DOMAIN flags : flags'[i] = flags[i]
      /\ flags'[Len(flags) + 1] = f
  BY <1>1, <1>2, FlagAppended
<1> QED BY <1>1, <1>3 DEF BatchInv

\* The indices of the flags are indices of samples, whose identifiers differ.
LEMMA FlaggedSamples ==
  ASSUME TypeOK, NEW i \in DOMAIN flags
  PROVE  /\ i \in DOMAIN Samples /\ Samples[i].ticket.id \in Ids
         /\ Len(flags) < Len(Samples) => Samples[i].ticket.id # Sample.ticket.id
<1> DEFINE S == [ticket : [id : Ids, message : Messages], outcome : {"completed", "escalated"},
                 reason : STRING]
<1>1. Samples \in Seq(S)
  BY SessionAssumption
<1>2. i \in 1 .. Len(flags) /\ Len(flags) \in Nat /\ Len(flags) <= Len(Samples)
  BY DEF TypeOK
<1>3. i \in DOMAIN Samples
  <2> HIDE DEF S
  <2> QED BY <1>1, <1>2
<1>4. Samples[i] \in S
  <2> HIDE DEF S
  <2> QED BY <1>1, <1>3
<1>5. ASSUME Len(flags) < Len(Samples)
      PROVE  Samples[i].ticket.id # Sample.ticket.id
  <2>1. Len(flags) + 1 \in DOMAIN Samples /\ i # Len(flags) + 1
    BY <1>2, <1>5, SampleFacts
  <2> QED BY <2>1, <1>3, SessionAssumption DEF Sample
<1> QED BY <1>3, <1>4, <1>5

\* No sample's record is touched by the runs of the others, and a clean batch rests on them.
LEMMA BatchStep ==
  ASSUME TypeOK, PlaceInv, WritingInv, ScreeningInv, BatchInv, CleanBatchIsReal, [Next]_vars
  PROVE  BatchInv' /\ CleanBatchIsReal'
<1>1. ASSUME UNCHANGED <<disk, records>>
      PROVE  \A i : RecordedAsDocumented(i)' <=> RecordedAsDocumented(i)
  BY <1>1 DEF RecordedAsDocumented, Whole
<1>2. CASE RunTicket \/ OpenChat
  BY <1>2 DEF RunTicket, OpenChat, Launch, BatchInv, CleanBatchIsReal
<1>3. CASE StartBatch
  <2>1. mode' = "verify" /\ exit' = "none" /\ phase' = "batch" /\ flags' = << >>
    BY <1>3 DEF StartBatch, Launch
  <2> QED BY <2>1 DEF BatchInv, CleanBatchIsReal, RunPhases
<1>4. CASE RefuseCommand
  BY <1>4 DEF RefuseCommand, PlaceInv, BatchInv, CleanBatchIsReal
<1>5. CASE CloseChat \/ OverlongMessage \/ Die
  BY <1>5 DEF CloseChat, OverlongMessage, Die, End, BatchInv, CleanBatchIsReal
<1>6. CASE CloseBatch
  <2>1. /\ mode = "verify" /\ mode' = "none" /\ Len(flags) = Len(Samples)
        /\ exit' = "clean" => \A i \in DOMAIN flags : flags[i] = {}
        /\ UNCHANGED <<disk, records>>
    BY <1>6 DEF CloseBatch, End, artifactVars, outVars
  <2>2. DOMAIN flags = DOMAIN Samples
    <3> DEFINE S == [ticket : [id : Ids, message : Messages], outcome : {"completed", "escalated"},
                     reason : STRING]
    <3>1. Samples \in Seq(S)
      BY SessionAssumption
    <3> HIDE DEF S
    <3>2. flags \in Seq(SUBSET Flags)
      BY DEF TypeOK
    <3> QED BY <2>1, <3>1, <3>2
  <2> QED BY <1>1, <2>1, <2>2 DEF BatchInv, CleanBatchIsReal
<1>7. ASSUME mode # "none", UNCHANGED <<mode, exit>>
      PROVE  CleanBatchIsReal' /\ (mode # "verify" => BatchInv')
  BY <1>7 DEF PlaceInv, CleanBatchIsReal, BatchInv
<1>8. ASSUME UNCHANGED <<mode, exit, disk, records, flags>>, mode = "verify",
             phase' \in RunPhases => ticket' = Sample.ticket
      PROVE  BatchInv'
  BY <1>1, <1>8 DEF BatchInv, Sample
<1>9. CASE SendMessage
  BY <1>7, <1>9 DEF SendMessage
<1>10. CASE NextSample
  BY <1>7, <1>8, <1>10 DEF NextSample, StartRun, artifactVars, outVars
<1>11. CASE \/ ScreenInbound \/ OperatorAnswers \/ TriageStep \/ RetryTriage
            \/ HydrateThenRaise \/ ApplyTriage \/ HandleTicket \/ GiveUp
  <2>1. phase \in RunPhases /\ UNCHANGED <<mode, exit, disk, records, flags, ticket>>
    BY <1>11 DEF ScreenInbound, OperatorAnswers, TriageStep, RetryTriage, HydrateTriage,
                 HydrateThenRaise, ApplyTriage, HandleTicket, GiveUp, BeginTriage, artifactVars, processVars, runVars, outVars, RunPhases, Phases
  <2>2. mode # "none"
    BY <2>1 DEF PlaceInv, RunPhases
  <2> QED BY <2>1, <2>2, <1>7, <1>8 DEF BatchInv
<1>12. CASE BeginRecord
  <2>1. /\ phase \in RunPhases /\ mode # "none" /\ flags' = flags
        /\ UNCHANGED <<mode, exit, ticket, disk>>
    BY <1>12 DEF BeginRecord, PlaceInv, runVars, RunPhases, Phases
  <2>2. \A n \in DOMAIN records : n \in DOMAIN records' /\ records'[n] = records[n]
    BY <1>12, Appended
  <2>3. ASSUME mode = "verify"
        PROVE  BatchInv'
    <3>1. ticket' = Sample'.ticket
      BY <2>1, <2>3 DEF BatchInv, Sample
    <3>2. ASSUME NEW i \in DOMAIN flags, flags[i] = {}
          PROVE  RecordedAsDocumented(i)'
      BY <2>1, <2>2, <2>3, <3>2, FlaggedSamples, RecordStays DEF BatchInv
    <3> QED BY <2>1, <3>1, <3>2 DEF BatchInv
  <2> QED BY <2>1, <2>3, <1>7
<1>13. CASE RecordStep
  <2>1. /\ phase = "writing" /\ phase \in RunPhases
        /\ UNCHANGED <<phase, mode, exit, ticket, records, flags>>
    BY <1>13 DEF RecordStep, processVars, runVars, outVars, RunPhases, Phases
  <2>2. mode # "none"
    BY <2>1 DEF PlaceInv
  <2>3. ASSUME mode = "verify"
        PROVE  BatchInv'
    <3>1. ticket' = Sample'.ticket /\ Len(flags) < Len(Samples) /\ ticket = Sample.ticket
      BY <2>1, <2>3 DEF BatchInv, Sample, PlaceInv
    <3>2. ASSUME NEW i \in DOMAIN flags, flags[i] = {}
          PROVE  RecordedAsDocumented(i)'
      <4>1. /\ i \in DOMAIN Samples /\ Samples[i].ticket.id \in Ids
            /\ Samples[i].ticket.id # ticket.id
        BY <3>1, FlaggedSamples
      <4>2. \A name \in Names :
              disk'[Samples[i].ticket.id][name] = disk[Samples[i].ticket.id][name]
        BY <1>13, <4>1, Written
      <4> QED BY <2>1, <2>3, <3>2, <4>1, <4>2, RecordStays DEF BatchInv
    <3> QED BY <2>1, <3>1, <3>2 DEF BatchInv
  <2> QED BY <2>1, <2>2, <2>3, <1>7
<1>14. CASE ReturnRun
  <2>1. phase = "writing" /\ AllWritten(status) /\ UNCHANGED <<disk, records>>
    BY <1>14 DEF ReturnRun, artifactVars
  <2>2. CASE ReturnToShell
    BY <2>1, <2>2 DEF ReturnToShell, End, BatchInv, CleanBatchIsReal, WritingInv, Lifecycle!Settled
  <2>3. CASE ReturnToChat
    BY <2>3, <1>7 DEF ReturnToChat
  <2>4. CASE ReturnToVerifier
    <3>1. mode = "verify" /\ UNCHANGED <<mode, exit>> /\ phase' = "batch"
      BY <2>4 DEF ReturnToVerifier
    <3>2. PICK other \in SUBSET {"run smells"} : flags' = Append(flags, RedFlags(Sample) \cup other)
      BY <2>4 DEF ReturnToVerifier
    <3>3. RedFlags(Sample) \cup other \in SUBSET Flags
      BY DEF RedFlags, Flags
    <3>4. Len(flags) < Len(Samples)
      BY <2>1, <3>1 DEF PlaceInv, RunPhases, Phases
    <3>5. RedFlags(Sample) = {} => RecordedAsDocumented(Len(flags) + 1)
      BY <2>1, <3>1, NothingAgainst
    <3>6. \A i \in DOMAIN flags' : flags'[i] = {} => RecordedAsDocumented(i)
      <4> DEFINE f == RedFlags(Sample) \cup other
      <4>1. /\ \A i \in DOMAIN flags' : i \in DOMAIN flags \/ i = Len(flags) + 1
            /\ \A i \in DOMAIN flags : flags'[i] = flags[i]
            /\ flags'[Len(flags) + 1] = f
        BY <3>2, <3>3, <3>4, FlagAppended
      <4>2. f = {} => RedFlags(Sample) = {}
        OBVIOUS
      <4> HIDE DEF f
      <4> QED BY <3>1, <3>5, <4>1, <4>2 DEF BatchInv
    <3> QED BY <1>1, <1>7, <2>1, <3>1, <3>6 DEF BatchInv, RunPhases
  <2> QED BY <1>14, <2>2, <2>3, <2>4 DEF ReturnRun
<1>15. CASE RunRaises
  <2>1. phase \in RunPhases /\ UNCHANGED <<disk, records>>
    BY <1>15 DEF RunRaises, artifactVars, RunPhases, Phases
  <2>2. CASE mode # "verify"
    BY <1>15, <2>2 DEF RunRaises, End, BatchInv, CleanBatchIsReal
  <2>3. CASE mode = "verify"
    <3>1. flags' = Append(flags, {"script error"}) /\ UNCHANGED <<mode, exit>> /\ phase' = "batch"
      BY <1>15, <2>3 DEF RunRaises
    <3>2. Len(flags) < Len(Samples)
      BY <2>1, <2>3 DEF PlaceInv
    <3>3. \A i \in DOMAIN flags' : flags'[i] = {} => RecordedAsDocumented(i)
      BY <2>3, <3>1, <3>2, ErrorFlagged
    <3> QED BY <1>1, <1>7, <2>1, <2>3, <3>1, <3>3 DEF BatchInv, RunPhases
  <2> QED BY <2>2, <2>3
<1>16. CASE SampleUnreadable
  <2>1. /\ mode = "verify" /\ phase' = "batch" /\ UNCHANGED <<mode, exit, disk, records>>
        /\ flags' = Append(flags, {"script error"}) /\ Len(flags) < Len(Samples)
    BY <1>16 DEF SampleUnreadable, processVars, artifactVars
  <2> QED BY <1>1, <1>7, <2>1, ErrorFlagged DEF BatchInv, RunPhases
<1>17. CASE UNCHANGED vars
  BY <1>1, <1>17 DEF vars, artifactVars, processVars, runVars, outVars, BatchInv, CleanBatchIsReal, Sample
<1> QED BY <1>2, <1>3, <1>4, <1>5, <1>6, <1>9, <1>10, <1>11, <1>12, <1>13, <1>14, <1>15, <1>16,
        <1>17 DEF Next

-----------------------------------------------------------------------------
(* The theorems.                                                           *)

\* Before the first process the invariant holds.
LEMMA InitInv == Init => TypeOK /\ IInv
<1> SUFFICES ASSUME Init
             PROVE  TypeOK /\ IInv
  OBVIOUS
<1>1. /\ records = << >> /\ flags = << >> /\ Run = 0 /\ mode = "none" /\ phase = "idle" /\ exit = "none"
      /\ status = "open" /\ reason = NoReason
  BY DEF Init, Run
<1>2. \A id \in Ids, name \in Names : disk[id][name] = 0
  BY DEF Init, ArtifactsInit
<1>3. TypeOK
  <2>1. TriageTyped /\ ShownTyped
    BY Blanks DEF Init, TriageTyped, ShownTyped
  <2>2. RunTyped
    <3>1. NoTriage \in Triages /\ NoReason \in Reasons /\ 0 \in 0 .. MaxDrafts
      BY Blanks, SessionAssumption
    <3> QED BY <3>1 DEF Init, RunTyped
  <2>3. ProcessTyped /\ RecordsTyped /\ FlagsTyped
    BY <1>1, SessionAssumption DEF ProcessTyped, RecordsTyped, FlagsTyped, Phases, ExitCodes
  <2>4. DiskTyped
    BY SessionAssumption DEF Init, ArtifactsInit, DiskTyped
  <2> QED BY <2>1, <2>3, <2>4, <2>2, Parts
<1>4. PlaceInv /\ WritingInv /\ SentimentInv /\ ScreeningInv /\ BatchInv
  BY <1>1 DEF PlaceInv, WritingInv, SentimentInv, ScreeningInv, BatchInv, RunPhases
<1>5. DiskInv
  BY <1>2, BaseFacts DEF DiskInv
<1>6. GateCannotWaiveSecrets /\ ExitCodeTellsTheDisk /\ CleanBatchIsReal
  BY <1>1 DEF GateCannotWaiveSecrets, ExitCodeTellsTheDisk, CleanBatchIsReal, Lifecycle!Settled
<1>7. TriageIsOfThisTicket /\ OfflineEvaluationPredicts
  <2>1. DOMAIN records = {}
    BY <1>1
  <2> QED BY <2>1 DEF TriageIsOfThisTicket, OfflineEvaluationPredicts
<1> QED BY <1>3, <1>4, <1>5, <1>6, <1>7 DEF IInv

\* Every step preserves it.
LEMMA StepInv == TypeOK /\ IInv /\ [Next]_vars => TypeOK' /\ IInv'
<1> SUFFICES ASSUME TypeOK, IInv, [Next]_vars
             PROVE  TypeOK' /\ IInv'
  OBVIOUS
<1>1. /\ PlaceInv /\ WritingInv /\ DiskInv /\ SentimentInv /\ ScreeningInv /\ BatchInv
      /\ GateCannotWaiveSecrets /\ TriageIsOfThisTicket
      /\ ExitCodeTellsTheDisk /\ OfflineEvaluationPredicts /\ CleanBatchIsReal
  BY DEF IInv
<1>2. TypeOK' /\ PlaceInv'
  BY <1>1, TypeStep, PlaceStep
<1>3. WritingInv' /\ DiskInv' /\ ExitCodeTellsTheDisk'
  BY <1>1, WritingStep, DiskStep, ExitStep
<1>4. SentimentInv' /\ TriageIsOfThisTicket'
  BY <1>1, SentimentStep, TriageStepKeeps
<1>5. ScreeningInv' /\ GateCannotWaiveSecrets' /\ OfflineEvaluationPredicts'
  BY <1>1, ScreeningStep, EvaluationStep
<1>6. BatchInv' /\ CleanBatchIsReal'
  BY <1>1, BatchStep
<1> QED BY <1>2, <1>3, <1>4, <1>5, <1>6 DEF IInv

\* And so it holds throughout.
LEMMA Invariant == Spec => [](TypeOK /\ IInv)
<1>1. Init => TypeOK /\ IInv
  BY InitInv
<1>2. TypeOK /\ IInv /\ [Next]_vars => (TypeOK /\ IInv)'
  BY StepInv
<1> QED BY <1>1, <1>2, PTL DEF Spec

\* Whatever a process, its user or the models do, the variables keep their types.
THEOREM TypeCorrect == Spec => []TypeOK
BY Invariant, PTL

\* No model is ever given a ticket that holds credentials or instructions, approved or not
\* (SafetyScreener.screen_ticket, SupportScoutOrchestrator.run).
THEOREM SecretsNeverPass == Spec => []GateCannotWaiveSecrets
<1>1. IInv => GateCannotWaiveSecrets
  BY DEF IInv
<1> QED BY <1>1, Invariant, PTL

\* Every recorded sentiment is that of its own ticket's message (TriageWorkspace.reset).
THEOREM TriageOfItsTicket == Spec => []TriageIsOfThisTicket
<1>1. IInv => TriageIsOfThisTicket
  BY DEF IInv
<1> QED BY <1>1, Invariant, PTL

\* The order of the files makes a half-written directory recognisable (write_run_artifacts).
THEOREM TornDirectoriesShow == Spec => []TornRecordShows
<1>1. TypeOK /\ IInv => TornRecordShows
  <2> SUFFICES ASSUME TypeOK, DiskInv, NEW id \in Ids
               PROVE  LET run == disk[id]["interaction_summary"]
                      IN  /\ disk[id]["agent_trace"] = run =>
                               \A name \in Names \ {"escalation"} : disk[id][name] = run
                          /\ disk[id]["escalation"] # 0 =>
                               records[disk[id]["escalation"]].status = "escalated"
    BY DEF IInv, TornRecordShows
  <2>1. ASSUME disk[id]["agent_trace"] = disk[id]["interaction_summary"],
               NEW name \in Names \ {"escalation"}
        PROVE  disk[id][name] = disk[id]["interaction_summary"]
    <3>1. PICK i \in 1 .. 7 : BaseFiles[i] = name
      BY BaseFacts
    <3>2. BaseFiles[1] = "interaction_summary" /\ BaseFiles[7] = "agent_trace"
      BY BaseFacts
    <3>3. 1 \in 1 .. 7 /\ 7 \in 1 .. 7 /\ 1 <= i /\ i <= 7
      OBVIOUS
    <3>4. disk[id][BaseFiles[7]] <= disk[id][name] /\ disk[id][name] <= disk[id][BaseFiles[1]]
      BY <3>1, <3>3 DEF DiskInv
    <3>5. disk[id][name] \in Nat /\ disk[id][BaseFiles[1]] \in Nat
      BY <3>2, BaseFacts, SessionAssumption DEF TypeOK
    <3> QED BY <2>1, <3>2, <3>4, <3>5
  <2> QED BY <2>1 DEF DiskInv
<1> QED BY <1>1, Invariant, PTL

\* The exit code of `run` can be relied on (run_cli).
THEOREM ExitCodesAreTrue == Spec => []ExitCodeTellsTheDisk
<1>1. IInv => ExitCodeTellsTheDisk
  BY DEF IInv
<1> QED BY <1>1, Invariant, PTL

\* Live runs escalate where the offline evaluation says so, and for its reason unless an
\* agent fails too often, traces that raise between a result and its routing included
\* (evaluate_case, apply_triage).
THEOREM EvaluationIsRight == Spec => []OfflineEvaluationPredicts
<1>1. IInv => OfflineEvaluationPredicts
  BY DEF IInv
<1> QED BY <1>1, Invariant, PTL

\* A batch the verifier calls clean is (verify_demos.main).
THEOREM CleanBatchesAreReal == Spec => []CleanBatchIsReal
<1>1. IInv => CleanBatchIsReal
  BY DEF IInv
<1> QED BY <1>1, Invariant, PTL

-----------------------------------------------------------------------------
(* How far the claims hold that the code does not meet.                    *)

\* No escalation.json is newer than the agent_trace.json beside it.
LEMMA EscalationFileStep ==
  ASSUME TypeOK, PlaceInv, WritingInv, DiskInv, EscalationFileInv, [Next]_vars
  PROVE  EscalationFileInv'
<1>0. \A id \in Ids, name \in Names : disk[id][name] \in Nat
  BY SessionAssumption DEF TypeOK
<1>1. CASE BeginRecord
  BY <1>1, Appended DEF EscalationFileInv
<1>2. CASE RecordStep
  <2>1. PICK k \in 1 .. Len(FilesOf(status)) :
          /\ k = progress + 1 /\ progress' = k
          /\ FilesOf(status)[k] \in Names
          /\ \A id \in Ids, name \in Names :
               disk'[id][name] =
                 IF id = ticket.id /\ name = FilesOf(status)[k] THEN Run ELSE disk[id][name]
    BY <1>2, Written
  <2>2. phase = "writing" /\ Run \in Nat /\ Run > 0 /\ ticket.id \in Ids
    BY <1>2, Written
  <2>3. "escalation" \in Names /\ "agent_trace" \in Names /\ BaseFiles[7] = "agent_trace"
    BY BaseFacts
  <2>4. \A id \in Ids, name \in Names : disk[id][name] <= Run
    BY <1>0, <2>2 DEF DiskInv
  <2> SUFFICES ASSUME NEW id \in Ids
               PROVE  disk'[id]["escalation"] <= disk'[id]["agent_trace"]
    BY DEF EscalationFileInv
  <2>5. CASE id = ticket.id /\ FilesOf(status)[k] = "escalation"
    <3>1. k = 8 /\ progress = 7
      <4>1. k \in 1 .. 8 /\ progress \in 0 .. 8
        BY <2>1, FileIndex DEF TypeOK
      <4>2. k \notin 1 .. 7
        <5>1. \A i \in 1 .. 7 : FilesOf(status)[i] = BaseFiles[i] /\ BaseFiles[i] # "escalation"
          BY BaseFacts, FilesFacts
        <5> QED BY <2>5, <5>1
      <4> QED BY <2>1, <4>1, <4>2
    <3>2. 7 \in 1 .. Len(FilesOf(status)) /\ FilesOf(status)[7] = "agent_trace"
      BY <2>3, FilesFacts
    <3>3. disk[id]["agent_trace"] = Run
      BY <2>2, <2>5, <3>1, <3>2 DEF WritingInv
    <3>4. disk'[id]["agent_trace"] = Run /\ disk'[id]["escalation"] = Run
      BY <2>1, <2>3, <2>5, <3>3
    <3> QED BY <2>2, <3>4
  <2>6. CASE ~(id = ticket.id /\ FilesOf(status)[k] = "escalation")
    <3>1. disk'[id]["escalation"] = disk[id]["escalation"]
      BY <2>1, <2>3, <2>6
    <3>2. disk'[id]["agent_trace"] \in {disk[id]["agent_trace"], Run}
      BY <2>1, <2>3
    <3> QED BY <2>3, <2>4, <3>1, <3>2 DEF EscalationFileInv
  <2> QED BY <2>5, <2>6
<1>3. CASE ~BeginRecord /\ ~RecordStep
  BY <1>3, Elsewhere DEF EscalationFileInv
<1> QED BY <1>1, <1>2, <1>3

\* An escalation.json beside another run's files is always a leftover, never of a later run
\* (write_run_artifacts).
THEOREM StaleEscalationsAreOlder == Spec => []StaleEscalationIsOlder
<1>1. Init => EscalationFileInv
  BY BaseFacts DEF Init, ArtifactsInit, EscalationFileInv
<1>2. TypeOK /\ IInv /\ EscalationFileInv /\ [Next]_vars => EscalationFileInv'
  BY EscalationFileStep DEF IInv
<1>3. TypeOK /\ IInv /\ EscalationFileInv => StaleEscalationIsOlder
  <2> SUFFICES ASSUME TypeOK, DiskInv, EscalationFileInv, NEW id \in Ids,
                      disk[id]["escalation"] \notin {0, disk[id]["interaction_summary"]}
               PROVE  /\ disk[id]["escalation"] < disk[id]["interaction_summary"]
                      /\ records[disk[id]["escalation"]].ticket.id = id
                      /\ records[disk[id]["escalation"]].status = "escalated"
    BY DEF IInv, StaleEscalationIsOlder
  <2>1. /\ "escalation" \in Names /\ BaseFiles[1] = "interaction_summary" /\ BaseFiles[7] = "agent_trace"
        /\ "interaction_summary" \in Names /\ "agent_trace" \in Names
    BY BaseFacts
  <2>2. disk[id]["agent_trace"] <= disk[id]["interaction_summary"]
    <3>1. 1 \in 1 .. 7 /\ 7 \in 1 .. 7 /\ 1 <= 7
      OBVIOUS
    <3> QED BY <2>1, <3>1 DEF DiskInv
  <2>3. \A name \in Names : disk[id][name] \in Nat
    BY SessionAssumption DEF TypeOK
  <2>4. disk[id]["escalation"] <= disk[id]["agent_trace"]
    BY DEF EscalationFileInv
  <2>5. disk[id]["escalation"] < disk[id]["interaction_summary"]
    BY <2>1, <2>2, <2>3, <2>4
  <2> QED BY <2>1, <2>5 DEF DiskInv
<1> QED BY <1>1, <1>2, <1>3, Invariant, PTL DEF Spec

\* README.md's claim about escalation.json is true of every identifier that was recorded once.
THEOREM EscalationFiles == Spec => []EscalationFileWithoutReruns
<1>1. TypeOK /\ IInv => EscalationFileWithoutReruns
  <2> SUFFICES ASSUME TypeOK, DiskInv, NEW id \in Ids,
                      disk[id]["interaction_summary"] # 0, disk[id]["escalation"] # 0,
                      \A m, n \in DOMAIN records :
                        records[m].ticket.id = id /\ records[n].ticket.id = id => m = n
               PROVE  records[disk[id]["interaction_summary"]].status = "escalated"
    BY DEF IInv, EscalationFileWithoutReruns
  <2>1. \A name \in Names :
          disk[id][name] # 0 => disk[id][name] \in 1 .. Run /\ records[disk[id][name]].ticket.id = id
    BY SessionAssumption DEF TypeOK, DiskInv, Run
  <2>2. "escalation" \in Names /\ "interaction_summary" \in Names
    BY BaseFacts
  <2>3. DOMAIN records = 1 .. Run
    BY DEF TypeOK, Run
  <2>4. disk[id]["escalation"] = disk[id]["interaction_summary"]
    BY <2>1, <2>2, <2>3
  <2> QED BY <2>4 DEF DiskInv
<1> QED BY <1>1, Invariant, PTL

\* A run completes on an approved draft, and its drafts are left alone from then on.
LEMMA ApprovalStep ==
  ASSUME status = "completed" => draft # 0 /\ draft = vetted, [Next]_vars
  PROVE  status' = "completed" => draft' # 0 /\ draft' = vetted'
<1> USE DEF runVars
<1>1. ASSUME NEW t, StartRun(t) PROVE status' = "open"
  BY <1>1 DEF StartRun
<1>2. CASE RunTicket \/ SendMessage \/ NextSample
  BY <1>1, <1>2 DEF RunTicket, SendMessage, NextSample
<1>3. CASE HandleTicket
  <2>1. status = "open" /\ (Lifecycle!Work \/ Lifecycle!Complete)
    BY <1>3 DEF HandleTicket, Lifecycle!Work, Lifecycle!Complete
  <2>2. CASE Lifecycle!Work
    BY <2>2 DEF Lifecycle!Work
  <2>3. CASE Lifecycle!Complete
    <3>1. 0 # draft
      BY <2>3, SMT DEF Lifecycle!Complete
    <3> QED BY <2>3, <3>1 DEF Lifecycle!Complete
  <2> QED BY <2>1, <2>2, <2>3
<1>4. CASE GiveUp
  BY <1>4 DEF GiveUp, Lifecycle!GiveUp
<1>5. CASE ScreenInbound \/ OperatorAnswers \/ HydrateThenRaise \/ ApplyTriage
  BY <1>5
  DEF ScreenInbound, OperatorAnswers, HydrateTriage, HydrateThenRaise, ApplyTriage, EscalateFor
<1>6. CASE UNCHANGED <<status, draft, vetted>>
  BY <1>6
<1> QED
  BY <1>2, <1>3, <1>4, <1>5, <1>6
  DEF Next, vars, OpenChat, StartBatch, RefuseCommand, OverlongMessage, CloseChat, SampleUnreadable,
      CloseBatch, TriageStep, RetryTriage, BeginRecord, RecordStep, ReturnRun, RunRaises, Die

\* The chat answers when the record is whole; what it printed stays true while it is shown.
LEMMA AnswerStep ==
  ASSUME TypeOK, PlaceInv, WritingInv, AnswerInv, [Next]_vars
  PROVE  AnswerInv'
<1> USE DEF artifactVars, processVars, runVars, outVars
<1>1. status' = "completed" => draft' # 0 /\ draft' = vetted'
  BY ApprovalStep DEF AnswerInv
<1> DEFINE Recorded == phase = "writing" =>
                         records[Run].reply = IF status = "completed" THEN draft ELSE 0
           Blank    == phase \in RunPhases \cup {"batch"} => shown = NoAnswer
<1>2. Recorded /\ Blank /\ AnswerTellsTheRecord
  BY DEF AnswerInv
<1>3. SUFFICES Recorded' /\ Blank' /\ AnswerTellsTheRecord'
  BY <1>1 DEF AnswerInv
<1>4. ASSUME phase' # "writing", shown' = NoAnswer
      PROVE  Recorded' /\ Blank' /\ AnswerTellsTheRecord'
  BY <1>4 DEF AnswerTellsTheRecord
<1>5. ASSUME UNCHANGED <<disk, records, vetted, shown>>, phase' \notin RunPhases \cup {"batch"}
      PROVE  Recorded' /\ Blank' /\ AnswerTellsTheRecord'
  BY <1>2, <1>5 DEF AnswerTellsTheRecord, Whole, Run, RunPhases, Phases
<1>6. ASSUME phase \in RunPhases \cup {"batch"}, UNCHANGED shown, phase' # "writing"
      PROVE  Recorded' /\ Blank' /\ AnswerTellsTheRecord'
  BY <1>2, <1>4, <1>6
<1>7. CASE RunTicket \/ OpenChat \/ StartBatch
  BY <1>4, <1>7, StartMoves DEF RunTicket, OpenChat, StartBatch, Launch
<1>8. CASE RefuseCommand
  BY <1>5, <1>8 DEF RefuseCommand, RunPhases
<1>9. CASE SendMessage
  BY <1>4, <1>9, StartMoves DEF SendMessage
<1>10. CASE OverlongMessage \/ CloseChat \/ CloseBatch \/ Die
  BY <1>5, <1>10 DEF OverlongMessage, CloseChat, CloseBatch, Die, End, RunPhases
<1>11. CASE NextSample \/ SampleUnreadable
  BY <1>6, <1>11, StartMoves DEF NextSample, SampleUnreadable
<1>12. CASE ScreenInbound \/ OperatorAnswers \/ TriageStep \/ RetryTriage \/ HydrateThenRaise \/ ApplyTriage
  BY <1>6, <1>12
  DEF ScreenInbound, OperatorAnswers, TriageStep, RetryTriage, HydrateTriage, HydrateThenRaise,
      ApplyTriage, BeginTriage, RunPhases, Phases
<1>13. CASE HandleTicket \/ GiveUp
  BY <1>6, <1>13 DEF HandleTicket, GiveUp, RunPhases, Phases
<1>14. CASE BeginRecord
  <2>1. shown' = NoAnswer
    BY <1>2, <1>14 DEF BeginRecord, RunPhases, Phases
  <2>2. records'[Run'].reply = IF status' = "completed" THEN draft' ELSE 0
    BY <1>14, Appended DEF BeginRecord
  <2>3. Recorded'
    BY <2>2 DEF Run
  <2> QED BY <2>1, <2>3 DEF AnswerTellsTheRecord
<1>15. CASE RecordStep
  <2>1. phase = "writing" /\ UNCHANGED <<phase, status, draft, records, shown>>
    BY <1>15 DEF RecordStep
  <2>2. shown' = NoAnswer
    BY <1>2, <2>1 DEF RunPhases, Phases
  <2> QED BY <1>2, <2>1, <2>2 DEF AnswerTellsTheRecord, Run
<1>16. CASE ReturnRun
  <2>1. /\ phase = "writing" /\ AllWritten(status)
        /\ UNCHANGED <<disk, ticket, status, draft, vetted, records>>
    BY <1>16 DEF ReturnRun
  <2>2. CASE ReturnToShell \/ ReturnToVerifier
    BY <1>6, <2>1, <2>2 DEF ReturnToShell, ReturnToVerifier, End, RunPhases, Phases
  <2>3. CASE ReturnToChat
    <3>1. /\ shown' = [status |-> status, draft |-> draft] /\ phase' = "prompt"
      BY <2>3 DEF ReturnToChat
    <3>2. /\ Run > 0 /\ records[Run].ticket = ticket /\ records[Run].status = status
          /\ Whole(ticket.id, Run, status)
      BY <2>1, WholeNow DEF WritingInv
    <3>3. status = "completed" => draft # 0 /\ draft = vetted /\ draft = records[Run].reply
      BY <1>2, <2>1 DEF AnswerInv
    <3>4. AnswerTellsTheRecord'
      BY <2>1, <3>1, <3>2, <3>3 DEF AnswerTellsTheRecord, Whole, Run
    <3> QED BY <3>1, <3>4 DEF RunPhases
  <2> QED BY <1>16, <2>2, <2>3 DEF ReturnRun
<1>17. CASE RunRaises
  BY <1>6, <1>17 DEF RunRaises, End, RunPhases, Phases
<1>18. CASE UNCHANGED vars
  BY <1>2, <1>18 DEF vars, AnswerTellsTheRecord, Whole, Run
<1> QED
  BY <1>7, <1>8, <1>9, <1>10, <1>11, <1>12, <1>13, <1>14, <1>15, <1>16, <1>17, <1>18 DEF Next

\* The screen and the record agree throughout.
LEMMA AnswersHold == Spec => []AnswerInv
<1>1. Init => AnswerInv
  BY DEF Init, AnswerInv, AnswerTellsTheRecord, RunPhases
<1>2. TypeOK /\ IInv /\ AnswerInv /\ [Next]_vars => AnswerInv'
  BY AnswerStep DEF IInv
<1> QED BY <1>1, <1>2, Invariant, PTL DEF Spec

\* What the chat prints is on record, and a reply printed as completed is the approved one
\* (command_chat); it is other runs' drafts that ShownDraftWasApproved stumbles over.
THEOREM AnswersTellTheRecord == Spec => []AnswerTellsTheRecord
<1>1. AnswerInv => AnswerTellsTheRecord
  BY DEF AnswerInv
<1> QED BY <1>1, AnswersHold, PTL

-----------------------------------------------------------------------------
(* A run, seen from outside, is a lifecycle of its ticket.                 *)

\* A new run is a fresh ticket.
LEMMA StartRefines ==
  ASSUME NEW t, StartRun(t)
  PROVE  Lifecycle!Init'
BY DEF StartRun, Lifecycle!Init, Replied

\* Before the second file nothing of the reply shows.
LEMMA QuietStutters ==
  ASSUME UNCHANGED <<status, draft, vetted>>, ~Replied, ~Replied'
  PROVE  UNCHANGED Lifecycle!lifecycleVars
BY DEF Lifecycle!lifecycleVars, Replied

\* Giving a run up, in the abstract: by its screening, or later.
LEMMA GivenUp ==
  ASSUME UNCHANGED <<draft, vetted>>, ~Replied, ~Replied',
         status = "open", status' \in {"escalated", "failed"}
  PROVE  Lifecycle!GiveUp
BY DEF Lifecycle!GiveUp, Replied

\* The file with the reply makes it visible, and it is that of the lifecycle.
LEMMA RecordRefines ==
  ASSUME TypeOK, PlaceInv, WritingInv, AnswerInv, RecordStep
  PROVE  Lifecycle!Next \/ UNCHANGED Lifecycle!lifecycleVars
<1>1. /\ phase = "writing" /\ phase' = phase /\ UNCHANGED <<status, draft, vetted>>
      /\ progress' = progress + 1 /\ progress \in 0 .. 8
      /\ status \in Lifecycle!Settled
  BY DEF RecordStep, WriteFile, processVars, runVars, TypeOK, WritingInv
<1>2. CASE progress = 0
  BY <1>1, <1>2, QuietStutters DEF Replied
<1>3. CASE progress = 1
  <2>1. ~Replied /\ Replied'
    BY <1>1, <1>3 DEF Replied
  <2>2. status = "completed" => draft = vetted
    BY DEF AnswerInv
  <2>3. Lifecycle!Reply
    BY <1>1, <2>1, <2>2 DEF Lifecycle!Reply, Lifecycle!Settled
  <2> QED BY <2>3 DEF Lifecycle!Next
<1>4. CASE progress > 1
  <2>1. Replied /\ Replied'
    BY <1>1, <1>4 DEF Replied
  <2> QED BY <1>1, <2>1 DEF Lifecycle!lifecycleVars
<1> QED BY <1>1, <1>2, <1>3, <1>4

\* Each step inside a run is one of the lifecycle's, or does not show in it.
LEMMA RunStepRefines ==
  ASSUME TypeOK, PlaceInv, WritingInv, ScreeningInv, AnswerInv, [Next]_vars,
         phase \in RunPhases, phase' \in RunPhases
  PROVE  Lifecycle!Next \/ UNCHANGED Lifecycle!lifecycleVars
<1> USE DEF artifactVars, processVars, runVars, outVars, RunPhases, Phases
<1>1. CASE ScreenInbound
  <2>1. ~Replied /\ ~Replied' /\ UNCHANGED <<draft, vetted>> /\ status = "open"
    BY <1>1 DEF ScreenInbound, BeginTriage, Replied
  <2>2. status' \in {"open", "escalated"}
    BY <1>1 DEF ScreenInbound, EscalateFor
  <2> QED BY <2>1, <2>2, QuietStutters, GivenUp DEF Lifecycle!Next
<1>2. CASE OperatorAnswers
  <2>1. ~Replied /\ ~Replied' /\ UNCHANGED <<draft, vetted>> /\ status = "open"
    BY <1>2 DEF OperatorAnswers, BeginTriage, Replied
  <2>2. status' \in {"open", "escalated"}
    BY <1>2 DEF OperatorAnswers, EscalateFor
  <2> QED BY <2>1, <2>2, QuietStutters, GivenUp DEF Lifecycle!Next
<1>3. CASE TriageStep \/ RetryTriage
  BY <1>3, QuietStutters DEF TriageStep, RetryTriage, BeginTriage, Replied
<1>4. CASE HydrateThenRaise \/ ApplyTriage
  <2>1. ~Replied /\ ~Replied' /\ UNCHANGED <<draft, vetted>> /\ status = "open"
    BY <1>4 DEF HydrateTriage, HydrateThenRaise, ApplyTriage, BeginTriage, Replied
  <2>2. status' \in {"open", "escalated"}
    BY <1>4 DEF HydrateTriage, HydrateThenRaise, ApplyTriage, EscalateFor
  <2> QED BY <2>1, <2>2, QuietStutters, GivenUp DEF Lifecycle!Next
<1>5. CASE HandleTicket
  BY <1>5 DEF HandleTicket, Lifecycle!Next
<1>6. CASE GiveUp
  BY <1>6 DEF GiveUp, Lifecycle!Next
<1>7. CASE BeginRecord
  BY <1>7, QuietStutters DEF BeginRecord, Replied
<1>8. CASE RecordStep
  BY <1>8, RecordRefines
<1>9. CASE \/ RunTicket \/ OpenChat \/ StartBatch \/ RefuseCommand \/ SendMessage \/ OverlongMessage
           \/ CloseChat \/ NextSample \/ SampleUnreadable \/ CloseBatch
  BY <1>9
  DEF RunTicket, OpenChat, StartBatch, Launch, RefuseCommand, SendMessage, OverlongMessage, CloseChat,
      NextSample, SampleUnreadable, CloseBatch
<1>10. CASE ReturnRun \/ RunRaises \/ Die
  BY <1>10 DEF ReturnRun, ReturnToShell, ReturnToChat, ReturnToVerifier, RunRaises, Die, End
<1>11. CASE UNCHANGED vars
  BY <1>11 DEF vars, Lifecycle!lifecycleVars, Replied
<1> QED BY <1>1, <1>2, <1>3, <1>4, <1>5, <1>6, <1>7, <1>8, <1>9, <1>10, <1>11 DEF Next

\* Only the three actions that start a run lead into one.
LEMMA StartsRefine ==
  ASSUME TypeOK, PlaceInv, [Next]_vars, phase \notin RunPhases, phase' \in RunPhases
  PROVE  Lifecycle!Init'
<1> USE DEF artifactVars, processVars, runVars, outVars, RunPhases, Phases
<1>1. CASE RunTicket \/ SendMessage \/ NextSample
  BY <1>1, StartRefines DEF RunTicket, SendMessage, NextSample
<1>2. CASE OpenChat \/ StartBatch \/ RefuseCommand
  BY <1>2 DEF OpenChat, StartBatch, Launch, RefuseCommand
<1>3. CASE OverlongMessage \/ CloseChat \/ SampleUnreadable \/ CloseBatch \/ Die
  BY <1>3 DEF OverlongMessage, CloseChat, SampleUnreadable, CloseBatch, Die, End
<1>4. CASE \/ ScreenInbound \/ OperatorAnswers \/ TriageStep \/ RetryTriage
           \/ HydrateThenRaise \/ ApplyTriage \/ HandleTicket \/ GiveUp \/ BeginRecord \/ RecordStep \/ ReturnRun \/ RunRaises
  BY <1>4
  DEF ScreenInbound, OperatorAnswers, TriageStep, RetryTriage, HydrateTriage, HydrateThenRaise,
      ApplyTriage, HandleTicket, GiveUp,
      BeginRecord, RecordStep, ReturnRun, RunRaises
<1>5. CASE UNCHANGED vars
  BY <1>5 DEF vars
<1> QED BY <1>1, <1>2, <1>3, <1>4, <1>5 DEF Next

\* Screening, triage, handling and the record together implement the lifecycle, run by run
\* (SupportScoutOrchestrator.run, write_run_artifacts).
THEOREM EveryRunIsALifecycle == Spec => RunsAreLifecycles
<1> DEFINE Kept == phase' \in RunPhases =>
                     IF phase \in RunPhases
                     THEN Lifecycle!Next \/ UNCHANGED Lifecycle!lifecycleVars
                     ELSE Lifecycle!Init'
<1>1. TypeOK /\ IInv /\ AnswerInv /\ [Next]_vars => [Kept]_vars
  BY RunStepRefines, StartsRefine DEF IInv
<1> QED BY <1>1, AnswersHold, Invariant, PTL DEF Spec, RunsAreLifecycles
=============================================================================
