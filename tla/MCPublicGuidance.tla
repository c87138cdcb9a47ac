-------------------------- MODULE MCPublicGuidance --------------------------
(* PublicGuidance on a small instance: three URLs, one of them serving two   *)
(* versions of its page, one redirecting to a mirror or to a private host.   *)
EXTENDS PublicGuidance

MCTopics == {"returns", "fees"}

Yes    == [hedged |-> FALSE, negated |-> FALSE]
No     == [hedged |-> FALSE, negated |-> TRUE]
Unless == [hedged |-> TRUE, negated |-> TRUE]

Page(url, hash, size, matches, returns, fees) ==
  [url |-> url, hash |-> hash, size |-> size, matches |-> matches, offDomain |-> hash = 4,
   mentions |-> [t \in MCTopics |-> IF t = "returns" THEN returns ELSE fees]]

Shop    == Page("a", 1, 1, 2, {Yes}, {Unless})
ShopNew == Page("a", 2, 1, 2, {Yes, No}, {Yes})
Carrier == Page("b", 3, 2, 2, {No, Unless}, {})
Stamps  == Page("b", 4, 2, 2, {No}, {No})
Mirror  == Page("cdn", 1, 1, 2, {Yes}, {Unless})
Intern  == Page("private", 5, 2, 2, {}, {})

MCUrls     == {"a", "b", "c"}
MCSafeUrls == {"a", "b", "c", "cdn"}
MCServes   == [a |-> {Shop, ShopNew}, b |-> {Carrier, Stamps}, c |-> {Mirror, Intern}]

MCRecords == {<<"order", "ORD-1">>}
MCFolded  == [r \in MCRecords |-> r]

\* The second page is not registered in every run, and the record may never be cited.
MCMentionable == {<<"EV", 1>>, <<"EV", 2>>, <<"OP", 1>>}
=============================================================================
