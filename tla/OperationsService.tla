-------------------------- MODULE OperationsService --------------------------
(***************************************************************************)
(* The synthetic operations service (src/data_server).  It is read-only to *)
(* the agents, but its database may be reseeded under a running service:   *)
(* the rows are deleted in one transaction and inserted in the next, and a *)
(* reseeding that dies in between is made good by the next start only.     *)
(***************************************************************************)
EXTENDS Naturals

CONSTANTS
  Holds,       \* the lookups the seeded service answers, and the record of each answer
  MaxReseeds   \* bound on the reseedings during one ticket

ASSUME ReseedAssumption == MaxReseeds \in Nat

VARIABLES
  rows,    \* the lookups the database answers now
  reseeds  \* how often it was emptied since the ticket began

serviceVars == <<rows, reseeds>>

ServiceInit ==
  /\ rows = DOMAIN Holds
  /\ reseeds = 0

DeleteRows ==
  /\ rows # {}
  /\ reseeds < MaxReseeds
  /\ rows' = {}
  /\ reseeds' = reseeds + 1

\* Inserting fails on the keys of rows that are still there.
InsertRows ==
  /\ rows = {}
  /\ rows' = DOMAIN Holds
  /\ UNCHANGED reseeds

Reseed == DeleteRows \/ InsertRows
=============================================================================
