# SupportScout: TLA+ models, model checking and proofs

SupportScout works one customer ticket at a time. An orchestrator agent, a language
model whose tools are five specialists, decides what to try; a deterministic kernel
decides whether that is legal; a human gate, a QA agent with deterministic checks and
three budgets keep the outcome safe. The models are about exactly that control: **a
language model may call any tool, in any order, any number of times, and stop at any
point**. What it writes is abstracted to the few features the code looks at.

## The system

| Component | State it keeps | Operations | Hard to get right | Correct when |
|---|---|---|---|---|
| Workflow kernel (`workflow/kernel.py`) | status, escalation, human decision, specialists' outputs, revision count, failure streaks, call count, delegation log | transition, escalate, fail, request_human_approval, apply_*, finalize, bookkeeping | an output is hydrated, then traced, then routed, and the tracing may raise; escalate and fail run from handlers that do not know the status | one settled status per run, reasons and statuses agree, approval covers the draft |
| Orchestration tools (`tools/orchestration_tools.py`) | none of their own | inspect, delegate (refuse, succeed, fail), finalize | status checked before a specialist runs, result applied after it; exceptions swallowed | refusals, retries and budgets end |
| Orchestrator agent (`agents/orchestrator_agent.py`) | the run's kernel and logger | screen, prescreen gate, orchestrate, close, handlers, write | exceptions late in a run, Ctrl-C | every run settles and leaves artifacts |
| Human gate (`hitl.py`) | the open question | request | answers lost between the operator and the run | restricted work only after a yes |
| Evidence registry (`evidence_registry.py`) | pages and operational records, in order of registration | register_public, register_operational, known ids, reset | deduplication by a folded key, lookup by exact spelling | identifiers are unique and never withdrawn |
| Support agent (`tools/support_tools.py`, `agents/support_agent.py`) | workspace: draft, submitted | five lookups, submit | absences as evidence, outages that are not, repeated submissions | drafts are grounded in what was issued |
| QA agent (`tools/qa_tools.py`, `agents/qa_agent.py`) | workspace: draft, checks, instructions, result | four checks, request revision, submit | one workspace for all reviews, repeated submissions, two calls that make one decision | approval has all checks behind it, revisions can be answered |
| Research agent | workspace: results, validated and fetched URLs, assessment flags, submitted | search, validate, fetch, assess, submit | assessment missing or stale at submission | thin or conflicting evidence escalates |
| Documentation agent | workspace: selection, article, privacy flag, submitted | select, check privacy, submit | checks repeated after submission | the published article passed the privacy check |
| Triage agent (`tools/triage_tools.py`) | workspace: message, sentiment, classification | reset, analyse, submit | one workspace for every ticket of a process; first submission final | what is on record is of the ticket's own message |
| Screening (`services/safety_rules.py`) | none | screen a ticket, screen a classification | the first matching rule hides the others, and only some may be waived | nothing the operator approves takes credentials or injections to a model |
| Content validation, evidence rules (`services/`) | none | pure functions of the sentences of a text | excuses that reach too far; which pattern matched first | no restricted claim gets out, conflicts are real |
| Artifacts (`artifacts.py`) | the ticket's directory | write each file by atomic replacement | reruns and crashes leave a mixture | the files tell of one run, or show that they do not |
| Command line and chat (`main.py`) | one orchestrator for a process | run, chat, serve | workspaces shared by consecutive runs; exceptions that end in different exit codes | exit codes are true, messages are answered |
| Evaluation and verifier (`evaluation/`, `verify_demos.py`) | the summaries of a batch | predict a case, run the samples, flag | a prediction made outside the workflow; artifacts looked for by name | predictions hold, a clean batch is one |
| Operations service (`data_server/`) | a SQLite database | read, seed, reseed | lookups during a reseed, in two commits | absences are real |
| Search, scraper, URL policy (`services/`) | none | fetch, validate | redirects after validation | what was read was allowed |

Interactions: the run is one thread. The orchestrator agent calls a delegation tool, the
tool asks the kernel and calls a runner, the runner starts a specialist agent, that agent
calls its own tools on its own workspace and on the shared registry, and the runner hands
the result back to the kernel through `apply_*`, which may call the human gate. Every
layer writes to the trace, and every write may raise. What a caller sees of an exception
depends on the layer: smolagents turns a tool's exception into a tool result, `_delegate`
turns a specialist's into a failed delegation, `run` turns everything else into a failed
run, and nothing catches a `KeyboardInterrupt`.

## The modules

**`WorkflowKernel`** declares the kernel's state and its methods. `supportDraft` is the
number of the draft and `qaResult` remembers which draft it reviewed, so that "the draft
QA approved" can be told from "the draft there is". `Hydrate...` and `Route...` are the
two halves of an `apply_*` method, because tracing runs between them.

**`Orchestrator`** composes them into the run of one ticket. `phase` is where the thread
is; each action is the code from one point where something outside decides (a model, a
specialist, the operator, a raising trace) to the next. A handler whose trace raises is
*cut*: not at all, before it has routed the run ("early") or after ("late").

| Action | Code |
|---|---|
| `ScreenTicket`, `StartOrchestration`, `EscalateTicket` | `run` up to the orchestrator, `_handle_prescreen_escalation` |
| `AskAboutTicket`, `GateAnswers`, `GateRaises`, `ApprovedTicketStarts` | the gate for a screened ticket |
| `InspectWorkflowState`, `Delegate`, `RejectDelegation`, `FinalizeWorkflow`, `RejectFinalize` | a tool call of the orchestrator model |
| `TriageReturns`, `TriageAsksHuman`, `TriageResumes`, `ResearchReturns`, `SupportReturns`, `QAReturns`, `DocumentationReturns` | a runner and its `apply_*` |
| `SpecialistFails`, `HandleFailure`, `RecordSuccess` | the rest of `_delegate` |
| `OrchestratorStops`, `OrchestratorRaises`, `CloseRun`, `CatchException` | the end of `run`'s `try`, and its handlers |
| `WriteArtifacts`, `EscapeUnwritten`, `Interrupt` | the artifacts, and what escapes them |

**`TicketLifecycle`** is what the system promises about a ticket: it is open, held or
settled; it settles once; one reply is written after that, and it carries a draft only if
review vetted that very draft (`ReplyIsVetted`, `SettledAndRepliedOnce`). `Orchestrator!Lifecycle` is the refinement mapping.

**`EvidenceRegistry`**, **`SupportTools`** and **`QATools`** are the shared registry and
the two agents' tools, **`DraftReview`** their composition: research registers pages, then
Support and QA take turns as the kernel routes them (`Kernel` is an instance of
`WorkflowKernel`, so the routing is the same definition the run uses). `Orchestrator`
lets a specialist hand over anything; `DraftReview` is where what it hands over comes
from. An identifier is a pair `<<"EV", i>>` or `<<"OP", i>>`. A record keeps its type and
spelling and `Folded` gives the key the registry compares. A draft is the identifiers it
cites and its text, field by field as sets of sentences (`ContentRules`). Free-text objections are reduced to whether they
concern operational grounding, which is all the code reads off them. Calls that are
refused change nothing and are stuttering steps.

**`ResearchTools`** and **`DocumentationTools`** are the tools of the agents before and
after those two, **`PublicGuidance`** their composition over the same registry: it follows
the public evidence of a ticket from the page it was read on to the article that cites it.
Drafting and review in between are one step (`DraftApproved`), which adds no page; that
they start with a page at all, which `DraftReview` takes for granted, is
`EmptyResearchEscalates` here. A page is its final URL, its hash, its length, how many terms
of the ticket's domain it has, whether it is about another trade, and its mentions of each
topic; `Serves`
gives the pages a URL may lead to, so a fetch repeated may find another. Search results are
left out, because no tool asks whether a URL came from one. The flags of an assessment also
stand for its reasons: `assess` gives a reason exactly when it raises a flag.

| Action | Code |
|---|---|
| `BeginResearch`, `BeginArticle`, `BeginDraft`, `BeginReview` | an agent's method up to `run_agent`, with the reset of its workspace |
| `ResearchStep`, `DraftingStep`, `ReviewStep`, `ArticleStep` | one call of one of its tools |
| `DeliverResearch`, `DeliverDraft`, `DeliverReview`, `DeliverArticle` | the agent's return, the runner and `apply_*` |
| `AgentRaises` | `run_agent` raises, or returns with nothing submitted |
| `Rest` | the orchestrator delegates nothing |

Three modules below these two are functions the tools call, and the service they ask.
**`EvidenceRules`** says when a page is relevant, which position a mention of a topic takes,
when a page holds one, when two pages conflict and when there is too little. What the
patterns match is given, how hedges and negations combine is the code's.
**`ContentRules`** is the same for drafts and articles: a sentence is a set of traits, and
the rules say which sentences are violations and which are excused. **`OperationsService`**
holds the tables a lookup reads; a reseeding deletes and inserts in two commits
(`DeleteRows`, `InsertRows`), and a lookup may fall between them.

**`SafetyScreening`** has the six rules for a ticket in the order the code tries them, the
screening of a classification, and the offline evaluation, which repeats both in an order
of its own. Of a message the rules see which vocabularies it has a term of.
**`TriageTools`** is the triage agent's workspace, which one process keeps for all its
tickets. **`RunArtifacts`** writes a run's seven or eight files one by one over those of an
earlier run; the content of a file is the number of the run it is of.

**`Session`** composes the three into SupportScout as seen from outside: processes one
after the other (`mode`: `run`, `chat` or the verifier) over one output directory. What a
run does between triage and its end is any behaviour of `TicketLifecycle`, by way of an
instance of it: `Orchestrator` implements that specification (`LifecycleProofs`), so what
holds of `Session` does not depend on how the models behave. A chat message gets any of the
identifiers there are (`ChatIds`): the code takes eight random hex digits and does not compare
them with those it has given, so two tickets may share a directory. An agent that fails too
often (`AgentFailure`) may escalate a run from triage on; where the trace of an escalation
raises, that is a failure too, and its reason may replace the one before.

| Action | Code |
|---|---|
| `RunTicket`, `OpenChat`, `StartBatch`, `RefuseCommand` | `run_cli`, `command_run`, `command_chat`, `run_all` up to the first ticket |
| `SendMessage`, `OverlongMessage`, `CloseChat` | one turn of the chat's loop, one that is not a ticket, its end |
| `NextSample`, `SampleUnreadable`, `CloseBatch` | one turn of the verifier's loop, its exit code |
| `ScreenInbound`, `OperatorAnswers` | the screening of a ticket and the gate it may open |
| `TriageStep`, `RetryTriage`, `HydrateThenRaise`, `ApplyTriage` | triage: a tool call, a new attempt, a result on record whose trace raises before it is screened, its screening and routing |
| `HandleTicket`, `GiveUp` | the rest of the run, as `TicketLifecycle` allows it |
| `BeginRecord`, `RecordStep` | `write_run_artifacts`, file by file |
| `ReturnRun` | what the command line, the chat or the verifier make of the result |
| `RunRaises`, `Die` | an exception that escapes a run, a kill |

`MCOrchestrator`, `MCDraftReview`, `MCPublicGuidance` and `MCSession` give the constants their values for TLC. The
operators commented as mutations are plausible mistakes: put in place of the operator
that follows them, they break the property they are meant for.

## The runs

| Run | Question | Shows |
|---|---|---|
| `clean` | no faults, every choice of the models | the gate, the revision loop, the order of the log, the reason of an escalation, settlement |
| `faults` | traces that raise anywhere, a disk that fails, Ctrl-C anywhere | publication, approval, unasked escalations, streaks, budget, settlement, a measure that every step lowers, termination, refinement |
| `review` | Support and QA, any tool calls, outages, a reseeding | approval is grounded and keeps to its authority, absences are real, decisions stand and say what they mean |
| `guidance` | research and documentation, any tool calls, failed attempts | empty research escalates, conflicts are real, articles are screened and their citations issued |
| `session` | processes over one directory, exceptions and kills anywhere | the gate cannot waive credentials, records are of one run or show it, answers, exit codes and clean batches are true, predictions hold, each run is a lifecycle of its ticket, messages are answered |
| `qa_gate`, `interrupt`, `citable`, `instructed`, `unusable`, `stale_record`, `chat_reply` | one claim of the documentation each | the code does not meet it (below) |

Bounds. One revision (the default of `Settings.max_agent_revisions`), so a draft is
written, sent back, written again, and may be sent back past the limit. Two failures to a
streak: one that is forgiven and one that is not. `clean` allows 7 tool calls and 9
turns: a run without a revision takes 5 delegations and 7 calls are the shortest run with
one, plus finalizing and a turn to spare. `faults` has 5 calls and 6 turns, enough to
complete a run and to lose a trace or a specialist at every point of it. One reason of
every kind the run treats differently stands for the others. `clean` lets triage find a
restricted reason: that is the kernel's contract (`tests/unit/test_kernel.py`), though
today's `screen_classification` returns only unrestricted ones, which is what `faults`
uses. `review` has an order, its misspelling, its shipment and the shipment's own
identifier (four lookups that collide in both ways the registry allows), two URLs of one
page, and four texts: one that may go out, one whose status needs a record behind it, a promise
that a hedge does not excuse, and one that several checks stop. The database is reseeded
once (`MaxReseeds`), in two commits, with lookups before, between and after. `guidance` has three
URLs and a budget of two pages: a page that changes between fetches and then states both
sides of a rule, one that disagrees with it or is off topic, and one that redirects to a
mirror with the content of the first or to a private host; one page alone is too thin. It
has two topics, so that pages may take opposite sides of different ones, and three
identifiers: one that is always issued, one that may not be, and one that must never be
cited. `MaxTurns` stands
for smolagents' `max_steps`. `session` lets two runs leave a record (`MaxRuns`): enough to
run a ticket again after it escalated, failed or was cut off between two files, to answer two
messages of one chat, and to run a batch of two samples; runs that raise leave no record and
are not counted. Three messages: a routine one, one the operator may let pass, and one in
which a rule he may not waive hides that one. A run has one draft (`MaxDrafts`), vetted or not.
There are two identifiers, and a chat message may be given either: each may be that of a ticket
file, of a sample, or of the message before it.

Fairness. `FairSpec` is weak fairness of the whole next-state relation: the program is
one thread that never waits but at the gate's prompt, model calls and specialists end
because their steps are bounded, and an operator is assumed to answer. No action is
assumed to be fair on its own, so the models may choose badly for ever; their steps are
bounded all the same. In `Session` weak fairness is of `Advance` alone, the steps that
bring a run closer to its end: the program keeps running and the operator answers the
gate, but nobody has to type a message or start a process, and no specialist has to get
anywhere: a run that does not may always give up. It cannot stay in triage for ever,
because an agent's steps and its attempts are bounded. `DraftReview` and `PublicGuidance` have no
liveness properties: their agents may be
interrupted at any point, and the bounds on them belong to `Orchestrator`.

Where the code and its documentation disagree:

- `qa_gate`: a restricted reason that QA finds escalates without the human gate.
- `interrupt`: artifacts are not written in a `finally` block.
- `citable`: an order looked up first under another case is afterwards found without an
  identifier to cite, and its facts are not registered.
- `instructed`: a revision justified by issues alone is accepted, and the Support Agent is
  given no instructions.
- `unusable`: research that fetched a page and never assessed it is submitted with the
  flags at their defaults; thin evidence does not escalate.
- `stale_record`: a ticket that escalated and is run again to completion keeps its
  `escalation.json`, beside a whole record of the completed run.
- `chat_reply`: the chat prints any draft the run has, also one that QA sent back or never
  saw. The reply that is written to `customer_response.md` is a vetted one
  (`PublishedDraftWasApproved`).

## The proofs

`tlapm` checks every theorem for every value of the constants, from the assumptions named
in the modules (`BudgetsAssumption`, `RunAssumption`, `RegistryAssumption`,
`ServiceAssumption`, `ReseedAssumption`, `ReviewAssumption`, `EvidenceRulesAssumption`,
`ResearchAssumption`, `TriageAssumption`,
`SessionAssumption`: types of the settings and of the environment) and
nothing else. `SessionAssumption` also says that the curated samples have distinct
identifiers, and that a sample is documented with a reason exactly when it is documented to
escalate. It says nothing of the identifiers of chat messages.

`OrchestratorProofs` first proves `TypeOK` (with the part of the invariant that says whose
turn it is, since the type of a cleared `active` depends on it), then `IInv`, the inductive
invariant: `ThreadInv` says what each point of the thread knows of the kernel's state (a
specialist is running only in a status it may run in, because nothing changes the status
meanwhile), `SettlingInv` that nothing is published before the run has settled and that a
run inside a call has neither completed nor failed, `BudgetInv` that each delegation under
way has been counted but not yet logged. None of the safety properties is inductive alone:
that a published draft was approved needs that approval covers the draft in the statuses
before, which needs the statuses drafting is allowed in. From `IInv` follow
`PublishedDrafts`, `ApprovedDrafts`, `EscalationReasons`, `FailureStreaks`,
`DelegationBudget`, and the action property `Settlement`. `RestrictedEscalations` needs, besides,
that between the answer and its use the thread knows what was asked (`AskedInv`).

`LifecycleProofs` proves that every step of a run is a step of its lifecycle or stutters
(`Refinement`), and then what the lifecycle comes to, from `TicketLifecycle` alone: whoever
gets a reply gets the vetted draft of a completed ticket or the hand-off text
(`CustomersGetVettedReplies`), and gets it once (`OneAnswer`). The orchestrator inherits both
through the refinement.

`UndisturbedProofs` proves four properties under the hypothesis that tracing does not
raise (for the gate, that it does not raise *or* triage finds no restricted reason), and
without the hypothesis they are false: a denial can be lost in the trace between the
operator's answer and the run, a second draft can be written when the trace after the
first raised before routing, a reason can be overwritten by a later streak, and a success
can be missing from the log. The revision limit itself needs no hypothesis (`RevisionLimit`
in `OrchestratorProofs`). `DelegationLog` is the hardest of the four: `LogInv` says, for each
status, how many successes there are, counting the one about to be recorded, and that each
stands in its own place of the pipeline. The log is not filtered into a sequence, whose
induction is out of the prover's reach; the place of an entry is the number of successes up
to it, and the lemmas say that appending an entry leaves the places before it
(`PlacesStay`) and that a success takes the next one (`SuccessTakesNextPlace`). Ctrl-C is
allowed: it may lose the success about to be recorded, but only of a run that does not
complete.

`TerminationProofs` is what can be proved about the end of a run. `Remaining` counts the
model's remaining tool calls, each worth the five steps its handling can take, and the
distance of the thread from the end. Every step that changes anything makes it smaller,
faults and Ctrl-C included (`StepsSpend`), and it is a natural number of at most
`5 * MaxTurns + 9` (`RunsAreShort`), so a run has no more steps than that.
`ReturnedIsSettled` says that `run` returns settled and with its artifacts whatever was
raised on the way, `UndisturbedEnd` that without faults or Ctrl-C it ends in no other way.
What is missing from the proof of `RunSettles` is only the fairness step: that a program
that can take a step takes one.

`ReviewProofs` proves every property of `review`. The invariant: the draft under review is
the one that was delivered (`TurnInv`), a passed check still holds of it and an approval has
all four behind it (`ChecksInv`), what a draft cites was issued and stays issued
(`CitesInv`, resting on the lemma that the registry only grows), and a decision's reason is
one its checks gave. `RealAbsences`: a record the service holds is on record as
absent only if its database was reseeded meanwhile. `EvidenceKept` is the action property
behind every citation: an entry of the registry keeps its place and its content, so an
identifier never comes to stand for something else.

`GuidanceProofs` proves `TypeOK` of research and documentation and the other four
properties of `guidance`. Behind them is that pages are only ever added (`PagesStay`), so a
raised conflict flag keeps its cause and an identifier that was selected or cited stays
issued. `EmptyResearchEscalates` is not inductive: a submission without evidence must have
gone through an assessment that raised `insufficient`, which needs that a raised
`conflict` means there are pages (`ResearchInv`). `PublishedArticleIsPublic` needs the same
of the article that is kept, submitted or not, and of the selection (`ArticleInv`).

`SessionProofs` proves `TypeOK`, the seven safety invariants of `session` and its action
property. None of the seven is inductive. `PlaceInv` says what each phase
knows of the process and its ticket. `WritingInv` says that while a run writes, exactly its
first `progress` files are its own; `DiskInv` that along the order of writing files only get
older, and that they are of runs under their identifier. Those three
carry `TornRecordShows` and `ExitCodeTellsTheDisk`, and with `AnswerInv` below
`AnswerTellsTheRecord`. `SentimentInv` follows the sentiment from
the workspace into the state, `ScreeningInv` the screening's verdict from the ticket to the
reason on record. `OfflineEvaluationPredicts` rests on it: a run in triage may have a
classification on record that nothing has screened, but it leaves triage for drafting only with
one that was, and what escalates it there is its screening or the streak of failures.
`BatchInv` says that a
sample without a flag stays recorded as documented while the batch goes on, because no
other sample has its directory.

Behind `RunsAreLifecycles` is, besides, that a completed run has an approved draft and that
the reply appears with the second file (`AnswerInv`, `RecordRefines`): it closes the circle
with `LifecycleProofs`, because `Session` takes only the middle of a run from
`TicketLifecycle`; screening, triage and the files are its own.

Four of the claims that the code does not meet are proved as far as it does meet them. What
is true of `qa_gate` and `chat_reply` is checked by `faults` and `session`; the other formulas
were checked by TLC on the bounds of the runs above before they were proved.

- `qa_gate`: a run escalated for a restricted reason asked the operator about that very
  reason, unless it was QA that escalated (`RestrictedEscalations`, all faults included).
- `citable`: a lookup that learned something returns an identifier that can be cited, or,
  if a record of the registry has a second spelling, none (`LookupsNameEvidence`); never
  another record's (`LookupsAreNotMixedUp`). Where spellings are unique the claim holds (`CitableLookups`).
- `stale_record`: an `escalation.json` that is not of the run its directory is about is of an
  earlier run of the same ticket, which did escalate (`StaleEscalationsAreOlder`); for an
  identifier recorded once the claim holds (`EscalationFiles`).
- `chat_reply`: what the chat prints is on disk in a whole record under the same status, and
  a reply printed as completed is the approved one, which `customer_response.md` has too
  (`AnswersTellTheRecord`).

Only model-checked: liveness (`RunSettles`, `RunEnds`, `MessagesAreAnswered`), which is beyond
the prover. Every other property of a passing run is a theorem.

## Not modelled

Text itself: the terms and regular expressions of screening, content validation and
evidence rules, prompts and argument coercion. Network I/O of search and scraping.
The sanitizing of search queries, the layout of files, traces and tables. Metrics and
reports of the evaluation and the verifier, and those of its flags that count tool calls,
repeated submissions or retries (any of them may be there, `"run smells"`). Assembly,
configuration and the schemas' validation, which build the values the models start from.
A bound over the pages of all attempts at research: the code promises none, and what bounds
the attempts is a limit inside smolagents. The hazards that `PROJECT.json` lists without a property,
such as a lookup between the two commits of a reseeding or a directory that cannot be made, are
ones the code does not exclude; the note of each says what does hold. `SafeUrls` is fixed: what a name
resolves to at the time of a request, and the intermediate hops of a redirect, are outside it.
`DraftReview` leaves the escalation of a failure streak to `Orchestrator`. That `DraftReview` and `PublicGuidance` implement
the specialists' part of `Orchestrator` is not stated as a refinement: they instantiate the
same `WorkflowKernel`, so the routing is the same definition, and `Orchestrator` lets a
specialist hand over anything.

## What is left

1. A measure for `Session` like that of `TerminationProofs`: the safety half of
   `MessagesAreAnswered`.
2. How far the claims of `unusable`, `instructed` and `interrupt` hold, which takes memory of
   the assessment, the issues and the fault that the models do not keep.
3. The verifier's remaining flags, over the trace a run leaves.
