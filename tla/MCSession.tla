------------------------------ MODULE MCSession ------------------------------
(* Session with a routine message, one an operator may let pass, and one   *)
(* where a rule he may not waive hides that one.                           *)
EXTENDS Session

Message(terms, negative, positive) ==
  [terms |-> terms, negative |-> negative, positive |-> positive, intensifiers |-> 1]

Routine == Message({}, 2, 0)
Refund  == Message({"money", "authorization"}, 0, 1)
Secret  == Message({"money", "authorization", "sensitive"}, 0, 0)

RefundFile  == [id |-> <<"TKT", 1>>, message |-> Refund]
RoutineFile == [id |-> <<"TKT", 2>>, message |-> Routine]

\* A message of the chat may be given the identifier of any other ticket.
MCIds     == {RefundFile.id, RoutineFile.id}
MCChatIds == MCIds
MCFiles   == {RefundFile}
MCInputs  == {Routine, Secret}
MCSamples == <<[ticket |-> RefundFile, outcome |-> "escalated", reason |-> "financial_authorization"],
               [ticket |-> RoutineFile, outcome |-> "completed", reason |-> NoReason]>>
MCVerdicts == {[domain |-> "returns_refunds", confident |-> TRUE],
               [domain |-> "uncertain", confident |-> TRUE]}
MCLater   == {"insufficient_evidence"}
MCAnswers == BOOLEAN
=============================================================================
