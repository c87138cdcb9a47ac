-------------------------- MODULE TerminationProofs --------------------------
(***************************************************************************)
(* Proofs that a run of Orchestrator.tla ends, and how.  Liveness itself   *)
(* is TLC's; what is proved here is the rest of the argument, for every    *)
(* value of the constants: a measure of what remains of the run is a       *)
(* natural number that every step makes smaller, so that no behaviour has  *)
(* more than 5 * MaxTurns + 9 steps of its own, and the only states it can *)
(* stop in are those the theorems of the second part describe.             *)
(***************************************************************************)
EXTENDS OrchestratorProofs

-----------------------------------------------------------------------------
(* The measure.                                                            *)

\* The distances, spelt out; a tool call is worth more than the way to a specialist.
LEMMA Distances ==
  /\ Distance["screening"] = 9
  /\ Distance["screened"] = 8
  /\ Distance["specialist"] = 7
  /\ Distance["awaiting"] = 6
  /\ Distance["decided"] = 5
  /\ Distance["applied"] = 4
  /\ Distance["raised"] = 4
  /\ Distance["orchestrating"] = 3
  /\ Distance["closing"] = 2
  /\ Distance["caught"] = 2
  /\ Distance["writing"] = 1
  /\ Distance["returned"] = 0
  /\ Distance["escaped"] = 0
  /\ \A p \in Phases : Distance[p] \in 0 .. 9
  /\ \A p \in Phases \ Over : Distance[p] > 0
BY DEF Distance, Phases, Over

\* smolagents' max_steps: the model never makes more tool calls than it is given.
TurnsBounded == turns <= MaxTurns

\* Only a turn of the model changes the number of turns, by one and within the bound.
LEMMA TurnsCount ==
  ASSUME TypeOK, [Next]_vars
  PROVE  \/ turns' = turns
         \/ turns < MaxTurns /\ turns' = turns + 1
<1>1. CASE ModelTurn
  BY <1>1 DEF ModelTurn, Turn, InspectWorkflowState, Delegate, RejectDelegation,
              FinalizeWorkflow, RejectFinalize
<1>2. CASE SpecialistEnds
  BY <1>2 DEF SpecialistEnds, SpecialistFails, TriageReturns, TriageAsksHuman, TriageResumes,
              ResearchReturns, SupportReturns, QAReturns, DocumentationReturns, RunnerUnchanged
<1>3. CASE ScreenTicket \/ StartOrchestration \/ Gate \/ EscalateTicket
  BY <1>3 DEF ScreenTicket, StartOrchestration, Gate, AskAboutTicket, GateAnswers, GateRaises,
              ApprovedTicketStarts, EscalateTicket
<1>4. CASE \/ RecordSuccess \/ HandleFailure \/ OrchestratorStops \/ OrchestratorRaises
           \/ CloseRun \/ CatchException \/ WriteArtifacts \/ EscapeUnwritten \/ Interrupt
  BY <1>4 DEF RecordSuccess, HandleFailure, OrchestratorStops, OrchestratorRaises, CloseRun,
              CatchException, WriteArtifacts, EscapeUnwritten, Interrupt, CutOff
<1>5. CASE UNCHANGED vars
  BY <1>5 DEF vars, runVars
<1>6. QED
  BY <1>1, <1>2, <1>3, <1>4, <1>5 DEF Next, RunIsOver

\* The bound on the turns holds throughout a run.
LEMMA Turns == Spec => [](TypeOK /\ IInv /\ TurnsBounded)
<1>1. Init => TurnsBounded
  BY RunAssumption DEF Init, TurnsBounded
<1>2. TypeOK /\ TurnsBounded /\ [Next]_vars => TurnsBounded'
  BY TurnsCount, RunAssumption DEF TypeOK, TurnsBounded
<1>3. QED
  BY <1>1, <1>2, Invariance, PTL DEF Spec

\* Within the bound, what remains is a natural number.
LEMMA RemainingType ==
  ASSUME TypeOK, TurnsBounded
  PROVE  Remaining \in 0 .. 5 * MaxTurns + 9
<1>1. Distance[phase] \in 0 .. 9 /\ turns \in Nat /\ turns <= MaxTurns /\ MaxTurns \in Nat
  BY Distances, RunAssumption DEF TypeOK, TurnsBounded
<1>2. QED
  BY <1>1 DEF Remaining

\* A step inside the program takes the thread nearer the end, at no cost in turns.
LEMMA ThreadAdvances ==
  ASSUME TypeOK, turns' = turns, phase' \in Phases, Distance[phase'] < Distance[phase]
  PROVE  Remaining' < Remaining
<1>1. Distance[phase] \in Nat /\ Distance[phase'] \in Nat /\ turns \in Nat /\ MaxTurns \in Nat
  BY Distances, RunAssumption DEF TypeOK
<1>2. Remaining' = 5 * (MaxTurns - turns) + Distance[phase']
  BY DEF Remaining, Distance
<1>3. QED
  BY <1>1, <1>2 DEF Remaining

\* Every step spends a turn or advances the thread.
LEMMA StepSpends ==
  ASSUME TypeOK, IInv, [Next]_vars
  PROVE  Remaining' < Remaining \/ UNCHANGED vars
<1> USE DEF Phases
<1>1. CASE ScreenTicket \/ StartOrchestration \/ Gate \/ EscalateTicket
  <2>1. /\ turns' = turns /\ phase' \in Phases
        /\ Distance[phase'] < Distance[phase]
    BY <1>1, Distances
       DEF ScreenTicket, StartOrchestration, Gate, AskAboutTicket, AskHuman, GateAnswers,
           GateRaises, ApprovedTicketStarts, EscalateTicket
  <2>2. QED
    BY <2>1, ThreadAdvances
<1>2. CASE ModelTurn
  <2>1. /\ turns' = turns + 1
        /\ phase = "orchestrating"
        /\ phase' \in {"orchestrating", "specialist"}
    BY <1>2 DEF ModelTurn, Turn, InspectWorkflowState, Delegate, RejectDelegation,
                FinalizeWorkflow, RejectFinalize
  <2>2. turns \in Nat /\ MaxTurns \in Nat /\ Distance[phase'] \in 0 .. 7 /\ Distance[phase] = 3
    BY <2>1, Distances, RunAssumption DEF TypeOK
  <2>3. Remaining' = 5 * (MaxTurns - turns') + Distance[phase']
    BY DEF Remaining, Distance
  <2>4. QED
    BY <2>1, <2>2, <2>3 DEF Remaining
<1>3. CASE SpecialistEnds
  <2>1. /\ turns' = turns /\ phase' \in Phases
        /\ Distance[phase'] < Distance[phase]
    BY <1>3, Distances
       DEF SpecialistEnds, SpecialistFails, TriageReturns, TriageAsksHuman, AskHuman,
           TriageResumes, ResearchReturns, SupportReturns, QAReturns, DocumentationReturns,
           RunnerUnchanged, Running, Applied
  <2>2. QED
    BY <2>1, ThreadAdvances
<1>4. CASE \/ RecordSuccess \/ HandleFailure \/ OrchestratorStops \/ OrchestratorRaises
           \/ CloseRun \/ CatchException \/ WriteArtifacts
  <2>1. /\ turns' = turns /\ phase' \in Phases
        /\ Distance[phase'] < Distance[phase]
    BY <1>4, Distances
       DEF RecordSuccess, HandleFailure, BackToModel, OrchestratorStops, OrchestratorRaises,
           CloseRun, CatchException, WriteArtifacts
  <2>2. QED
    BY <2>1, ThreadAdvances
<1>5. CASE EscapeUnwritten \/ Interrupt
  <2>1. /\ turns' = turns /\ phase' = "escaped"
        /\ phase \in Phases \ Over
    BY <1>5 DEF EscapeUnwritten, Interrupt, CutOff, TypeOK, Over
  <2>2. Distance[phase'] < Distance[phase]
    BY <2>1, Distances
  <2>3. QED
    BY <2>1, <2>2, ThreadAdvances
<1>6. QED
  BY <1>1, <1>2, <1>3, <1>4, <1>5 DEF Next, RunIsOver

\* What remains of a run is bounded by the model's tool calls alone.
THEOREM RunsAreShort == Spec => [](Remaining \in 0 .. 5 * MaxTurns + 9)
BY Turns, RemainingType, PTL

\* No step goes round in a circle (run, _delegate, _handle_delegation_failure).
THEOREM StepsSpend == Spec => EveryStepSpends
<1>1. TypeOK /\ IInv /\ [Next]_vars => [Remaining' < Remaining]_vars
  BY StepSpends
<1>2. QED
  BY <1>1, Invariance, PTL DEF Spec, EveryStepSpends

-----------------------------------------------------------------------------
(* The end.                                                                *)

\* A new run has not ended.
LEMMA EndStart == Init => EndInv
BY DEF Init, EndInv

\* Only run()'s own return reports artifacts, and only a fault or Ctrl-C leaves it otherwise.
LEMMA EndStep ==
  ASSUME TypeOK, EndInv, [Next]_vars
  PROVE  EndInv'
<1> USE DEF EndInv
<1>1. CASE WriteArtifacts
  BY <1>1 DEF WriteArtifacts, Cuts
<1>2. CASE EscapeUnwritten \/ Interrupt
  BY <1>2 DEF EscapeUnwritten, Interrupt, CutOff
<1>3. CASE ModelTurn \/ SpecialistEnds
  BY <1>3
     DEF ModelTurn, Turn, InspectWorkflowState, Delegate, RejectDelegation, FinalizeWorkflow,
         RejectFinalize, SpecialistEnds, SpecialistFails, TriageReturns, TriageAsksHuman,
         AskHuman, TriageResumes, ResearchReturns, SupportReturns, QAReturns,
         DocumentationReturns, Applied
<1>4. CASE \/ ScreenTicket \/ StartOrchestration \/ Gate \/ EscalateTicket \/ RecordSuccess
           \/ HandleFailure \/ OrchestratorStops \/ OrchestratorRaises \/ CloseRun \/ CatchException
  BY <1>4
     DEF ScreenTicket, StartOrchestration, Gate, AskAboutTicket, AskHuman, GateAnswers,
         GateRaises, ApprovedTicketStarts, EscalateTicket, RecordSuccess, HandleFailure,
         BackToModel, OrchestratorStops, OrchestratorRaises, CloseRun, CatchException
<1>5. CASE UNCHANGED vars
  BY <1>5 DEF vars, runVars
<1>6. QED
  BY <1>1, <1>2, <1>3, <1>4, <1>5 DEF Next, RunIsOver

\* How a run ends: returned, it has settled and written its artifacts.
LEMMA Ends == Spec => [](TypeOK /\ IInv /\ EndInv)
<1>1. TypeOK /\ EndInv /\ [Next]_vars => EndInv'
  BY EndStep
<1>2. QED
  BY <1>1, EndStart, Invariance, PTL DEF Spec

\* run() never returns from an unsettled run or without its artifacts, whatever was raised
\* on the way ("always write artifacts").
THEOREM ReturnedIsSettled ==
  Spec => [](phase = "returned" => written /\ currentState \in TerminalStatuses)
<1>1. IInv /\ EndInv => (phase = "returned" => written /\ currentState \in TerminalStatuses)
  BY DEF IInv, SettlingInv, EndInv
<1>2. QED
  BY <1>1, Ends, PTL

\* The state RunSettles waits for is the only one an undisturbed run can be over in.
THEOREM UndisturbedEnd ==
  ASSUME ~IOFaults, ~Interrupts
  PROVE  Spec => [](phase \in Over =>
                      phase = "returned" /\ written /\ currentState \in TerminalStatuses)
<1>1. IInv /\ EndInv /\ phase \in Over =>
        phase = "returned" /\ written /\ currentState \in TerminalStatuses
  BY DEF IInv, SettlingInv, EndInv, Over
<1>2. QED
  BY <1>1, Ends, PTL
=============================================================================
