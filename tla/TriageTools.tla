----------------------------- MODULE TriageTools -----------------------------
(***************************************************************************)
(* The Triage Agent's tools (tools/triage_tools.py): measure the sentiment *)
(* of the message, submit a classification.  One workspace serves every    *)
(* ticket of a process.  A refused call changes nothing.                   *)
(***************************************************************************)
EXTENDS SafetyScreening

CONSTANT Verdicts  \* the classifications the model may submit

ASSUME TriageAssumption == Verdicts \subseteq Classifications

VARIABLES
  about,          \* TriageWorkspace.customer_message
  sentiment,      \* TriageWorkspace.sentiment
  classification  \* TriageWorkspace.classification, once submitted

triageVars == <<about, sentiment, classification>>

NoMessage        == [terms |-> {}, negative |-> 0, positive |-> 0, intensifiers |-> 0]
NoSentiment      == [label |-> "none", intensity |-> "none"]
NoClassification == [domain |-> "none", confident |-> FALSE]

\* Praise counts only where there is no complaint, and only complaints are intensified.
Assess(message) ==
  LET label    == IF message.negative > message.positive THEN "negative"
                  ELSE IF message.positive > 0 /\ message.negative = 0 THEN "positive"
                  ELSE "neutral"
      strength == IF label = "negative" THEN message.negative + message.intensifiers
                  ELSE IF label = "positive" THEN message.positive
                  ELSE 0
  IN  [label |-> label,
       intensity |-> IF strength >= 3 THEN "strong" ELSE IF strength = 2 THEN "moderate" ELSE "mild"]

\* Mutation: the reset forgets the sentiment.
ResetForMessage(message) ==
  /\ about' = message
  /\ classification' = NoClassification
  /\ UNCHANGED sentiment

ResetTriage(message) ==
  /\ about' = message
  /\ sentiment' = NoSentiment
  /\ classification' = NoClassification

AnalyzeSentiment ==
  /\ sentiment' = Assess(about)
  /\ UNCHANGED <<about, classification>>

SubmitTriage(verdict) ==
  /\ classification = NoClassification
  /\ sentiment # NoSentiment
  /\ classification' = verdict
  /\ UNCHANGED <<about, sentiment>>

TriageToolCall ==
  \/ AnalyzeSentiment
  \/ \E verdict \in Verdicts : SubmitTriage(verdict)
=============================================================================
