--------------------------- MODULE MCDraftReview ---------------------------
(* DraftReview on a small instance.  Four lookups: an order found under its *)
(* own spelling and absent under another, and its shipment, found under an  *)
(* identifier of its own, which asked for itself is absent.                 *)
EXTENDS DraftReview, TLC

Order    == <<"order", "ORD-1">>
Misspelt == <<"order", "ord-1">>
Shipment == <<"shipment", "ORD-1">>
Parcel   == <<"shipment", "SHP-1">>

MCRecords == {Order, Misspelt, Shipment, Parcel}
MCFolded  == [r \in MCRecords |-> IF r = Misspelt THEN Order ELSE r]
MCHolds   == Order :> Order @@ Shipment :> Parcel

\* Two URLs of one page.  Nothing tells them apart.
CONSTANTS shop, mirror
MCPages    == {[url |-> u, hash |-> 1] : u \in {shop, mirror}}
MCSymmetry == Permutations({shop, mirror})

MCCitable == {<<"EV", 1>>, <<"OP", 1>>}

\* A harmless text, two that a check must stop, and one that needs a record to stand on.
Text(steps, reply, notes, exposes) ==
  [steps |-> steps, reply |-> reply, notes |-> notes, exposes |-> exposes]

Advice    == Text(TRUE, {{"outcome", "hedged"}, {"inspection", "missing"}}, {{"status"}}, {})
Status    == Text(FALSE, {{"status"}, {"acts", "negated"}}, {}, {})
Promise   == Text(FALSE, {{"acts", "hedged"}, {"status", "general"}}, {}, {})
Completed == Text(FALSE, {{"outcome", "status"}}, {{"inspection"}}, {"secret request"})

MCTexts == {Advice, Status, Promise, Completed}
=============================================================================
