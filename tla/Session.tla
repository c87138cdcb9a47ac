------------------------------- MODULE Session -------------------------------
(***************************************************************************)
(* SupportScout from outside (main.py, verify_demos.py): one process after *)
(* the other runs tickets over one output directory.  `run` takes a ticket *)
(* from a file, `chat` makes one of every message, the verifier takes the  *)
(* curated samples; chat and verifier use one orchestrator, and with it    *)
(* one triage workspace, for all their tickets.                            *)
(*                                                                         *)
(* A run is screened, may be put to the operator, triaged, handled, and    *)
(* recorded file by file.  Handling is any behaviour of TicketLifecycle,   *)
(* which Orchestrator implements.  A run may raise anywhere, and a process *)
(* may be killed anywhere.                                                 *)
(***************************************************************************)
EXTENDS TriageTools, RunArtifacts

CONSTANTS
  TicketFiles,   \* the tickets in files, as [id, message]
  Inputs,        \* the messages typed into the chat
  ChatIds,       \* the identifiers a chat message may be given: eight random hex digits
  Samples,       \* the curated samples: [ticket, outcome, reason], as documented
  LaterReasons,  \* what research and review may escalate for
  Answers,       \* what the approval gate can answer
  MaxRuns,       \* bound on the runs that leave a record
  MaxDrafts      \* bound on the drafts of a run

ASSUME SessionAssumption ==
  /\ MaxRuns \in Nat /\ MaxDrafts \in Nat
  /\ Answers \subseteq BOOLEAN
  /\ NoReason \notin LaterReasons
  /\ Inputs \subseteq Messages /\ ChatIds \subseteq Ids
  /\ TicketFiles \subseteq [id : Ids, message : Messages]
  /\ Samples \in Seq([ticket : [id : Ids, message : Messages], outcome : {"completed", "escalated"},
                      reason : STRING])
  /\ \A i, j \in DOMAIN Samples : Samples[i].ticket.id = Samples[j].ticket.id => i = j
  /\ \A i \in DOMAIN Samples : Samples[i].outcome = "escalated" <=> Samples[i].reason # NoReason

VARIABLES
  mode,      \* the command being executed, or "none"
  phase,     \* where its thread is
  exit,      \* the exit code of the last process, by its meaning
  ticket,    \* the ticket of the run
  approved,  \* the operator has approved the ticket
  status,    \* where the run stands, as TicketLifecycle says it
  reason,    \* the reason it was escalated for
  draft,     \* the latest draft
  vetted,    \* the draft QA approved last
  triaged,   \* the triage result in the run's state
  records,   \* the runs that settled, as their files tell of them
  shown,     \* what the chat printed last
  flags      \* what the verifier holds against each sample so far

processVars == <<mode, phase, exit>>
runVars     == <<ticket, approved, status, reason, draft, vetted, triaged>>
outVars     == <<records, shown, flags>>
vars        == <<triageVars, artifactVars, processVars, runVars, outVars>>

Replied == phase = "writing" /\ progress > 1

Lifecycle ==
  INSTANCE TicketLifecycle WITH
    replied <- Replied, reply <- IF Replied /\ status = "completed" THEN draft ELSE 0

NoTriage == [sentiment |-> NoSentiment, classification |-> NoClassification]
NoTicket == [id |-> <<"none", 0>>, message |-> NoMessage]
NoAnswer == [status |-> "none", draft |-> 0]

Run == Len(records)  \* the run that is being recorded

Init ==
  /\ ArtifactsInit
  /\ about = NoMessage /\ sentiment = NoSentiment /\ classification = NoClassification
  /\ mode = "none" /\ phase = "idle" /\ exit = "none"
  /\ ticket = NoTicket /\ approved = FALSE
  /\ status = "open" /\ reason = NoReason /\ draft = 0 /\ vetted = 0 /\ triaged = NoTriage
  /\ records = << >> /\ shown = NoAnswer /\ flags = << >>

-----------------------------------------------------------------------------
(* Processes.                                                              *)

Launch(command) ==
  /\ phase = "idle"
  /\ mode' = command
  /\ exit' = "none"
  /\ shown' = NoAnswer
  /\ flags' = << >>
  /\ UNCHANGED <<triageVars, artifactVars, records>>

StartRun(t) ==
  /\ Run < MaxRuns
  /\ phase' = "screening"
  /\ ticket' = t
  /\ approved' = FALSE
  /\ status' = "open"
  /\ reason' = NoReason
  /\ draft' = 0
  /\ vetted' = 0
  /\ triaged' = NoTriage

RunTicket ==
  /\ Launch("run")
  /\ \E t \in TicketFiles : StartRun(t)

OpenChat ==
  /\ Launch("chat")
  /\ phase' = "prompt"
  /\ UNCHANGED runVars

StartBatch ==
  /\ Launch("verify")
  /\ phase' = "batch"
  /\ UNCHANGED runVars

\* The operations service does not answer, the ticket cannot be read, or the configuration
\* is bad.
RefuseCommand ==
  /\ phase = "idle"
  /\ exit' = "input"
  /\ UNCHANGED <<triageVars, artifactVars, mode, phase, runVars, outVars>>

\* The orchestrator goes with its process; the next one has a new workspace.
End(code) ==
  /\ phase' = "idle"
  /\ mode' = "none"
  /\ exit' = code
  /\ ResetTriage(NoMessage)

\* Every message is a ticket of its own.  Nothing looks whether its random identifier has
\* been given before.
SendMessage ==
  /\ mode = "chat" /\ phase = "prompt"
  /\ \E m \in Inputs, id \in ChatIds : StartRun([id |-> id, message |-> m])
  /\ shown' = NoAnswer
  /\ UNCHANGED <<triageVars, artifactVars, mode, exit, records, flags>>

CloseChat ==
  /\ mode = "chat" /\ phase = "prompt"
  /\ End("closed")
  /\ UNCHANGED <<artifactVars, runVars, outVars>>

\* One that is too long is not answered: it is the end of the session.
OverlongMessage ==
  /\ mode = "chat" /\ phase = "prompt"
  /\ End("input")
  /\ UNCHANGED <<artifactVars, runVars, outVars>>

\* The sample the verifier is at.
Sample == Samples[Len(flags) + 1]

NextSample ==
  /\ mode = "verify" /\ phase = "batch"
  /\ Len(flags) < Len(Samples)
  /\ StartRun(Sample.ticket)
  /\ UNCHANGED <<triageVars, artifactVars, mode, exit, outVars>>

\* Its file cannot be read.
SampleUnreadable ==
  /\ mode = "verify" /\ phase = "batch"
  /\ Len(flags) < Len(Samples)
  /\ flags' = Append(flags, {"script error"})
  /\ UNCHANGED <<triageVars, artifactVars, processVars, runVars, records, shown>>

CloseBatch ==
  /\ mode = "verify" /\ phase = "batch"
  /\ Len(flags) = Len(Samples)
  /\ End(IF \A i \in DOMAIN flags : flags[i] = {} THEN "clean" ELSE "flagged")
  /\ UNCHANGED <<artifactVars, runVars, outVars>>

-----------------------------------------------------------------------------
(* The run of a ticket.                                                    *)

\* What a run is escalated for when one agent has failed too often in a row.
AgentFailure == "agent_execution_failure"

EscalateFor(why) ==
  /\ status' = "escalated"
  /\ reason' = why

\* A ticket that clears screening, or was approved, goes to the Triage Agent.
BeginTriage ==
  /\ phase' = "triage"
  /\ ResetTriage(ticket.message)

ScreenInbound ==
  /\ phase = "screening" /\ status = "open"
  /\ LET why == ScreenTicket(ticket.message)
     IN  \/ /\ why = NoReason
            /\ BeginTriage
            /\ UNCHANGED <<status, reason>>
         \/ /\ RequiresHumanApproval(why)
            /\ phase' = "asking"
            /\ UNCHANGED <<triageVars, status, reason>>
         \/ /\ why # NoReason /\ ~RequiresHumanApproval(why)
            /\ EscalateFor(why)
            /\ UNCHANGED <<triageVars, phase>>
  /\ UNCHANGED <<artifactVars, mode, exit, ticket, approved, draft, vetted, triaged, outVars>>

OperatorAnswers ==
  /\ phase = "asking" /\ status = "open"
  /\ \E answer \in Answers :
       /\ approved' = answer
       /\ IF answer
          THEN BeginTriage /\ UNCHANGED <<status, reason>>
          ELSE EscalateFor(ScreenTicket(ticket.message)) /\ UNCHANGED <<triageVars, phase>>
  /\ UNCHANGED <<artifactVars, mode, exit, ticket, draft, vetted, triaged, outVars>>

TriageStep ==
  /\ phase = "triage" /\ status = "open"
  /\ TriageToolCall
  /\ UNCHANGED <<artifactVars, processVars, runVars, outVars>>

\* The agent failed, or ended having submitted nothing, and is asked again.
RetryTriage ==
  /\ phase = "triage" /\ status = "open"
  /\ BeginTriage
  /\ UNCHANGED <<artifactVars, mode, exit, runVars, outVars>>

\* apply_triage puts the agent's result on record first.
HydrateTriage ==
  /\ phase = "triage" /\ status = "open"
  /\ classification # NoClassification
  /\ triaged' = [sentiment |-> sentiment, classification |-> classification]
  /\ UNCHANGED <<artifactVars, mode, exit, ticket, approved, draft, vetted, outVars>>

\* Its trace raises before the run is routed, which makes it a failed delegation: the agent
\* is asked again, with a result on record that nothing has screened.
HydrateThenRaise ==
  /\ HydrateTriage
  /\ BeginTriage
  /\ UNCHANGED <<status, reason>>

\* Mutation: triage's result is kept, its screening is not.
ApplyTriageUnscreened ==
  /\ HydrateTriage
  /\ phase' = "handling"
  /\ UNCHANGED <<triageVars, status, reason>>

\* No classification is screened for a reason that needs the operator.  Where the trace of
\* the escalation raises, that is a failed delegation too, and if it is the one too many
\* the run is escalated again for it.
ApplyTriage ==
  /\ HydrateTriage
  /\ LET why == ScreenClassification(classification)
     IN  IF why = NoReason
         THEN phase' = "handling" /\ UNCHANGED <<status, reason>>
         ELSE (\E final \in {why, AgentFailure} : EscalateFor(final)) /\ UNCHANGED phase
  /\ UNCHANGED triageVars

\* Research, drafting, review.
HandleTicket ==
  /\ phase = "handling"
  /\ UNCHANGED <<triageVars, artifactVars, processVars, ticket, approved, triaged, outVars>>
  /\ Lifecycle!Work \/ Lifecycle!Complete
  /\ status' # "held" /\ draft' <= MaxDrafts
  /\ IF status' = "escalated" THEN reason' \in LaterReasons \cup {AgentFailure}
     ELSE UNCHANGED reason

\* Mutation: what raises fails the run, also when it has settled.
FailWhateverItReached ==
  /\ phase \in {"screening", "asking", "triage", "handling"}
  /\ status' = "failed"
  /\ UNCHANGED <<triageVars, artifactVars, processVars, ticket, approved, reason, draft, vetted,
                 triaged, outVars>>

\* The orchestrator stops without finalizing, an agent keeps failing, something raises.
GiveUp ==
  /\ phase \in {"screening", "asking", "triage", "handling"}
  /\ UNCHANGED <<triageVars, artifactVars, processVars, ticket, approved, triaged, outVars>>
  /\ Lifecycle!GiveUp
  /\ IF status' = "escalated"
     THEN phase \in {"triage", "handling"} /\ reason' = AgentFailure
     ELSE UNCHANGED reason

-----------------------------------------------------------------------------
(* Its record.                                                             *)

\* Only a completed run gives its draft to customer_response.md.
BeginRecord ==
  /\ phase \in {"screening", "asking", "triage", "handling"}
  /\ status \in Lifecycle!Settled
  /\ records' = Append(records,
       [ticket |-> ticket, approved |-> approved, status |-> status, reason |-> reason,
        triaged |-> triaged, reply |-> IF status = "completed" THEN draft ELSE 0])
  /\ progress' = 0
  /\ phase' = "writing"
  /\ UNCHANGED <<triageVars, disk, mode, exit, runVars, shown, flags>>

RecordStep ==
  /\ phase = "writing"
  /\ WriteFile(ticket.id, Run, status)
  /\ UNCHANGED <<triageVars, processVars, runVars, outVars>>

-----------------------------------------------------------------------------
(* What becomes of a run's end.                                            *)

ReturnToShell ==
  /\ mode = "run"
  /\ End(status)
  /\ UNCHANGED <<shown, flags>>

\* Mutation: the chat answers when there is something to print.
ReturnWithDraft ==
  /\ mode = "chat"
  /\ draft # 0
  /\ phase' = "prompt"
  /\ shown' = [status |-> status, draft |-> draft]
  /\ UNCHANGED <<triageVars, mode, exit, flags>>

\* Any draft there is gets printed, under the run's status.
ReturnToChat ==
  /\ mode = "chat"
  /\ phase' = "prompt"
  /\ shown' = [status |-> status, draft |-> draft]
  /\ UNCHANGED <<triageVars, mode, exit, flags>>

\* Mutation: a wrong reason is not looked for.
OutcomeFlags(sample) ==
  IF status # sample.outcome THEN {"outcome mismatch"} ELSE {}

\* `other` are the flags for retries, repeated submissions and the like.
RedFlags(sample) ==
  {f \in {"hard failure"} : status = "failed"} \cup
  {f \in {"outcome mismatch"} : status # sample.outcome} \cup
  {f \in {"wrong reason"} : NoReason \notin {sample.reason, reason} /\ reason # sample.reason} \cup
  {f \in {"unexpected escalation"} :
     sample.reason = NoReason /\ reason # NoReason /\ sample.outcome = "completed"} \cup
  {f \in {"missing artifacts"} : \E i \in DOMAIN FilesOf(status) :
     status # "failed" /\ disk[ticket.id][FilesOf(status)[i]] = 0}

ReturnToVerifier ==
  /\ mode = "verify"
  /\ phase' = "batch"
  /\ \E other \in SUBSET {"run smells"} : flags' = Append(flags, RedFlags(Sample) \cup other)
  /\ UNCHANGED <<triageVars, mode, exit, shown>>

ReturnRun ==
  /\ phase = "writing"
  /\ AllWritten(status)
  /\ ReturnToShell \/ ReturnToChat \/ ReturnToVerifier
  /\ UNCHANGED <<artifactVars, runVars, records>>

\* A file or its directory cannot be written, or something else escapes the run; only the
\* former is told as an output error.  The verifier goes on.
RunRaises ==
  /\ phase \in {"screening", "asking", "triage", "handling", "writing"}
  /\ \/ /\ mode = "verify"
        /\ flags' = Append(flags, {"script error"})
        /\ phase' = "batch"
        /\ UNCHANGED <<triageVars, mode, exit>>
     \/ /\ mode # "verify"
        /\ \/ phase = "writing" /\ ~AllWritten(status) /\ End("output")
           \/ End("traceback")
        /\ UNCHANGED flags
  /\ UNCHANGED <<artifactVars, runVars, records, shown>>

\* Ctrl-C outside a prompt, or a kill.
Die ==
  /\ phase # "idle"
  /\ End("killed")
  /\ UNCHANGED <<artifactVars, runVars, outVars>>

Next ==
  \/ RunTicket \/ OpenChat \/ StartBatch \/ RefuseCommand
  \/ SendMessage \/ OverlongMessage \/ CloseChat
  \/ NextSample \/ SampleUnreadable \/ CloseBatch
  \/ ScreenInbound \/ OperatorAnswers
  \/ TriageStep \/ RetryTriage \/ HydrateThenRaise \/ ApplyTriage \/ HandleTicket \/ GiveUp
  \/ BeginRecord \/ RecordStep \/ ReturnRun \/ RunRaises
  \/ Die

Spec == Init /\ [][Next]_vars

\* The steps that bring a run closer to its end; the gate's prompt is assumed to be answered.
Advance ==
  \/ ScreenInbound \/ OperatorAnswers \/ ApplyTriage \/ GiveUp
  \/ BeginRecord \/ RecordStep \/ ReturnRun

FairSpec == Spec /\ WF_vars(Advance)

-----------------------------------------------------------------------------
(* Properties.                                                             *)

Tickets == [id : Ids, message : Messages]

Phases ==
  {"idle", "prompt", "batch", "screening", "asking", "triage", "handling", "writing"}

RunPhases == Phases \ {"idle", "prompt", "batch"}

Reasons ==
  {Rules[i] : i \in DOMAIN Rules} \cup {"low_confidence", AgentFailure, NoReason}
    \cup LaterReasons

Sentiments ==
  [label : {"negative", "positive", "neutral"}, intensity : {"strong", "moderate", "mild"}]
    \cup {NoSentiment}

Triages ==
  [sentiment : Sentiments, classification : Verdicts \cup {NoClassification}]

Records ==
  [ticket : Tickets, approved : BOOLEAN, status : Lifecycle!Settled, reason : Reasons,
   triaged : Triages, reply : 0 .. MaxDrafts]

ExitCodes ==
  {"none", "input", "closed", "clean", "flagged", "output", "traceback", "killed"}
    \cup Lifecycle!Settled

Flags ==
  {"hard failure", "outcome mismatch", "wrong reason", "unexpected escalation",
   "missing artifacts", "run smells", "script error"}

\* The values the variables take, from the messages and files there are.
TypeOK ==
  /\ about \in Messages
  /\ sentiment \in Sentiments
  /\ classification \in Verdicts \cup {NoClassification}
  /\ disk \in [Ids -> [Names -> 0 .. MaxRuns]] /\ progress \in 0 .. 8
  /\ mode \in {"none", "run", "chat", "verify"} /\ phase \in Phases
  /\ exit \in ExitCodes
  /\ ticket \in Tickets \cup {NoTicket} /\ approved \in BOOLEAN
  /\ status \in {"open"} \cup Lifecycle!Settled /\ reason \in Reasons
  /\ draft \in 0 .. MaxDrafts /\ vetted \in 0 .. MaxDrafts
  /\ triaged \in Triages /\ shown \in [status : Lifecycle!Settled \cup {"none"}, draft : 0 .. MaxDrafts]
  /\ records \in Seq(Records) /\ Run <= MaxRuns
  /\ flags \in Seq(SUBSET Flags) /\ Len(flags) <= Len(Samples)

\* Whatever the operator approves, no model is given a ticket that holds credentials or
\* tries to give instructions: the rules an operator can waive come after those two, and
\* hide the later ones only (SafetyScreener.screen_ticket).
GateCannotWaiveSecrets ==
  phase \in {"triage", "handling"} =>
    /\ "sensitive" \notin ticket.message.terms
    /\ ~({"injection intent", "instructions"} \subseteq ticket.message.terms)

\* The sentiment on record is that of the ticket's own message, although one workspace
\* serves every ticket of a process (TriageWorkspace.reset).
TriageIsOfThisTicket ==
  \A n \in DOMAIN records :
    records[n].triaged # NoTriage =>
      records[n].triaged.sentiment = Assess(records[n].ticket.message)

\* A directory left half-written by a killed or failed run can be told from its first and
\* its last file: where the two are of the same run, so is everything between them, and
\* an escalation.json is always of a run that escalated (write_run_artifacts).
TornRecordShows ==
  \A id \in Ids :
    LET run == disk[id]["interaction_summary"]
    IN  /\ disk[id]["agent_trace"] = run => \A name \in Names \ {"escalation"} : disk[id][name] = run
        /\ disk[id]["escalation"] # 0 => records[disk[id]["escalation"]].status = "escalated"

\* What the exit code of `run` says is what the ticket's directory says, in every one of
\* its files; an output error never comes with a whole record (_exit_code_for, run_cli).
ExitCodeTellsTheDisk ==
  /\ exit \in Lifecycle!Settled =>
       records[Run].status = exit /\ Whole(records[Run].ticket.id, Run, exit)
  /\ exit = "output" => ~Whole(ticket.id, Run, status)

\* What the chat prints is on disk, in a whole record under the same status, and a draft
\* printed as that of a completed run is the one QA approved and customer_response.md has.
AnswerTellsTheRecord ==
  shown # NoAnswer =>
    /\ Run > 0 /\ records[Run].status = shown.status
    /\ Whole(records[Run].ticket.id, Run, shown.status)
    /\ shown.status = "completed" =>
         shown.draft # 0 /\ shown.draft = vetted /\ shown.draft = records[Run].reply

\* Where the operator waived nothing, a ticket the offline evaluation expects to escalate
\* does not complete, whatever is raised or tried again on the way: it escalates for that
\* very reason unless the run fails, or an agent fails too often -- and then only if it was
\* not stopped before any agent saw it (evaluate_case).
OfflineEvaluationPredicts ==
  \A n \in DOMAIN records :
    LET r         == records[n]
        screened  == ScreenTicket(r.ticket.message)
        predicted == EvaluateCase(r.ticket.message, r.triaged.classification,
                                  {r.reason} \cap EvidenceReasons)
    IN  /\ ~r.approved
        /\ r.triaged # NoTriage \/ screened # NoReason
        /\ predicted # NoReason
        => \/ r.status = "failed"
           \/ r.status = "escalated" /\ r.reason = predicted
           \/ r.status = "escalated" /\ r.reason = AgentFailure /\ screened = NoReason

\* There is a whole record of a run of that sample that ended as documented.
RecordedAsDocumented(i) ==
  \E n \in DOMAIN records :
    /\ records[n].ticket = Samples[i].ticket
    /\ records[n].status = Samples[i].outcome
    /\ records[n].reason = Samples[i].reason
    /\ Whole(Samples[i].ticket.id, n, Samples[i].outcome)

\* When the verifier finds nothing to flag, every sample has a whole record of a run that
\* ended as documented (verify_demos.red_flags).
CleanBatchIsReal == exit = "clean" => \A i \in DOMAIN Samples : RecordedAsDocumented(i)

\* A message typed into the chat is answered, or the chat ends (command_chat).
MessagesAreAnswered ==
  mode = "chat" /\ phase \in RunPhases ~> mode # "chat" \/ phase = "prompt"

-----------------------------------------------------------------------------
(* The inductive invariant.                                                *)

\* What a phase says of the process and its ticket.
PlaceInv ==
  /\ mode = "none" <=> phase = "idle"
  /\ phase = "prompt" => mode = "chat"
  /\ phase = "batch" => mode = "verify"
  /\ mode # "none" => exit = "none"
  /\ phase \in RunPhases =>
       /\ ticket \in Tickets
       /\ mode = "verify" => Len(flags) < Len(Samples)
       /\ phase # "writing" => Run < MaxRuns

\* The record being written is that of the run.
WritingInv ==
  phase = "writing" =>
    /\ Run > 0
    /\ status \in Lifecycle!Settled
    /\ records[Run].ticket = ticket /\ records[Run].status = status /\ records[Run].reason = reason
    /\ progress <= Len(FilesOf(status))
    /\ \A i \in 1 .. Len(FilesOf(status)) :
         disk[ticket.id][FilesOf(status)[i]] = Run <=> i <= progress

\* Files are of runs under their identifier, and no file is newer than one written before it.
DiskInv ==
  /\ \A id \in Ids, name \in Names :
       disk[id][name] # 0 => disk[id][name] <= Run /\ records[disk[id][name]].ticket.id = id
  /\ \A id \in Ids, i, j \in 1 .. 7 : i <= j => disk[id][BaseFiles[j]] <= disk[id][BaseFiles[i]]
  /\ \A id \in Ids :
       disk[id]["escalation"] # 0 => records[disk[id]["escalation"]].status = "escalated"

\* What is in the workspace, and what was taken from it, is about the run's message.
SentimentInv ==
  /\ phase = "triage" =>
       /\ about = ticket.message
       /\ sentiment \in {NoSentiment, Assess(about)}
       /\ classification # NoClassification => sentiment # NoSentiment
  /\ phase \in RunPhases /\ triaged # NoTriage =>
       triaged.sentiment = Assess(ticket.message)

Cleared == ~approved => ScreenTicket(ticket.message) = NoReason

\* How far a run has been screened.
ScreeningInv ==
  /\ status # "escalated" <=> reason = NoReason
  /\ phase \in {"screening", "asking"} => ~approved /\ triaged = NoTriage
  /\ phase \in {"screening", "asking"} /\ status = "escalated" =>
       reason = ScreenTicket(ticket.message) /\ reason # NoReason
  /\ phase = "asking" => RequiresHumanApproval(ScreenTicket(ticket.message))
  /\ phase \in {"triage", "handling"} => Cleared
  /\ phase = "triage" /\ status = "escalated" =>
       /\ reason # NoReason
       /\ reason \in {ScreenClassification(triaged.classification), AgentFailure}
  /\ phase = "handling" => ScreenClassification(triaged.classification) = NoReason
  /\ phase \in {"screening", "asking", "triage"} => status # "completed"

\* The samples without a flag are recorded as they should be, and stay so: no other sample
\* has their directory.
BatchInv ==
  mode = "verify" =>
    /\ phase \in RunPhases => ticket = Sample.ticket
    /\ \A i \in DOMAIN flags : flags[i] = {} => RecordedAsDocumented(i)

IInv ==
  /\ PlaceInv /\ WritingInv /\ DiskInv /\ SentimentInv /\ ScreeningInv /\ BatchInv
  /\ GateCannotWaiveSecrets /\ TriageIsOfThisTicket
  /\ ExitCodeTellsTheDisk /\ OfflineEvaluationPredicts /\ CleanBatchIsReal

-----------------------------------------------------------------------------
(* How far the two claims below hold, and what a run has in common with    *)
(* TicketLifecycle.                                                        *)

\* An escalation.json that is not of the run its directory is about was left by an earlier
\* run of the same ticket, which did escalate.
StaleEscalationIsOlder ==
  \A id \in Ids :
    LET run == disk[id]["interaction_summary"]
        old == disk[id]["escalation"]
    IN  old \notin {0, run} =>
          old < run /\ records[old].ticket.id = id /\ records[old].status = "escalated"

\* escalation.json is there "only when escalated" in the directory of every identifier that
\* was recorded once.
EscalationFileWithoutReruns ==
  \A id \in Ids :
    LET run == disk[id]["interaction_summary"]
    IN  /\ run # 0 /\ Whole(id, run, records[run].status) /\ disk[id]["escalation"] # 0
        /\ \A m, n \in DOMAIN records :
             records[m].ticket.id = id /\ records[n].ticket.id = id => m = n
        => records[run].status = "escalated"

\* From its start to its end every run is a lifecycle of its ticket, the screening and the
\* writing of the files included: it starts as one does, and each step is one of the
\* lifecycle's or does not show in it.
RunsAreLifecycles ==
  [][phase' \in RunPhases =>
       IF phase \in RunPhases
       THEN Lifecycle!Next \/ UNCHANGED Lifecycle!lifecycleVars
       ELSE Lifecycle!Init']_vars

\* escalation.json is written after agent_trace.json.
EscalationFileInv == \A id \in Ids : disk[id]["escalation"] <= disk[id]["agent_trace"]

\* A completed run has an approved draft, its record gives that draft to the customer, and
\* nothing is on the screen while a run is under way.
AnswerInv ==
  /\ status = "completed" => draft # 0 /\ draft = vetted
  /\ phase = "writing" => records[Run].reply = IF status = "completed" THEN draft ELSE 0
  /\ phase \in RunPhases \cup {"batch"} => shown = NoAnswer
  /\ AnswerTellsTheRecord

-----------------------------------------------------------------------------
(* Claims of the documentation that the code does not meet.                *)

\* README.md: escalation.json is there "only when escalated" -- also after another run of
\* the ticket has completed and written a whole record?
EscalationFileOnlyWhenEscalated ==
  \A id \in Ids :
    LET run == disk[id]["interaction_summary"]
    IN  run # 0 /\ Whole(id, run, records[run].status) /\ disk[id]["escalation"] # 0
        => records[run].status = "escalated"

\* prompts/qa-agent.md: QA is "The last check before a reply reaches a customer" -- also
\* of what the chat prints?
ShownDraftWasApproved == shown.draft # 0 => shown.draft = vetted
=============================================================================
