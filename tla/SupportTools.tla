----------------------------- MODULE SupportTools -----------------------------
(***************************************************************************)
(* The Support Agent's tools (tools/support_tools.py): read-only lookups   *)
(* in the operations service, whose findings the registry turns into       *)
(* citable evidence, and the submission of one draft.                      *)
(*                                                                         *)
(* A refused call changes nothing and is a stuttering step here: the model *)
(* reads the reason and may try again, or give up.                         *)
(***************************************************************************)
EXTENDS EvidenceRegistry, OperationsService

CONSTANTS
  Citable  \* the identifiers the model may write into a draft, issued or not

ASSUME ServiceAssumption ==
  /\ DOMAIN Holds \subseteq Records
  /\ \A r \in DOMAIN Holds : Holds[r] \in Records

VARIABLES
  draft,   \* SupportWorkspace.draft
  answer   \* the result of the agent's last lookup

supportVars == <<draft, answer>>

NoAnswer == [kind |-> "none", id |-> NoId]

ResetSupport ==
  /\ draft'  = NoDraft
  /\ answer' = NoAnswer

\* The five lookup tools share this body.  A record the service does not have is
\* registered as a finding too, under the identifier that was asked for; the result
\* carries the identifier that was minted, or that the registry has for that spelling.
LookUp(asked) ==
  LET found  == asked \in rows
      record == IF found THEN Holds[asked] ELSE asked
  IN  /\ RegisterOperational(record, found)
      /\ answer' = [kind |-> IF found THEN "found" ELSE "absent",
                    id   |-> IdFor(record, operational')]
      /\ UNCHANGED <<public, serviceVars, draft>>

\* Mutation: an outage is taken for an absence.
LookUpOutageAsAbsence ==
  \E asked \in Records :
    /\ RegisterOperational(asked, FALSE)
    /\ answer' = [kind |-> "outage", id |-> IdFor(asked, operational')]
    /\ UNCHANGED <<public, serviceVars, draft>>

\* The service cannot be reached: nothing was learned, nothing is registered.
LookUpOutage ==
  /\ answer' = [kind |-> "outage", id |-> NoId]
  /\ UNCHANGED <<registryVars, serviceVars, draft>>

\* Mutations: any citation goes; a second submission replaces the first.
SubmitUnchecked(d) ==
  /\ draft = NoDraft
  /\ draft' = d
  /\ UNCHANGED <<registryVars, serviceVars, answer>>

ResubmitDraft(d) ==
  /\ d.cites \subseteq KnownIds
  /\ d.text.steps /\ d.cites = {} => KnownIds = {}
  /\ draft' = d
  /\ UNCHANGED <<registryVars, serviceVars, answer>>

\* The first submission is final, cites what exists, and steps need a citation while
\* there is anything to cite.
SubmitDraft(d) ==
  /\ draft = NoDraft
  /\ d.cites \subseteq KnownIds
  /\ d.text.steps /\ d.cites = {} => KnownIds = {}
  /\ draft' = d
  /\ UNCHANGED <<registryVars, serviceVars, answer>>

SupportToolCall ==
  \/ \E asked \in Records : LookUp(asked)
  \/ LookUpOutage
  \/ \E cites \in SUBSET Citable, text \in Texts : SubmitDraft([cites |-> cites, text |-> text])
=============================================================================
