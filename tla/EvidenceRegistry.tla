--------------------------- MODULE EvidenceRegistry ---------------------------
(***************************************************************************)
(* The run's registry of evidence (evidence_registry.py) and the draft     *)
(* that cites it (schemas.SupportDraft).  No model chooses an identifier:  *)
(* the registry mints the next one for material it has not seen, so the    *)
(* length of a list says which identifiers of that kind exist.             *)
(***************************************************************************)
EXTENDS Naturals, Sequences, ContentRules

CONSTANTS
  Records,  \* <<record type, record id>> as a lookup or the service spells them
  Folded,   \* the key register_operational compares: the record, case-folded
  Texts     \* what drafts may say, as far as the rules can tell

ASSUME RegistryAssumption ==
  /\ DOMAIN Folded = Records
  /\ Texts \subseteq DraftTexts

VARIABLES
  public,       \* EvidenceRegistry._public: the pages, as [url, hash]
  operational   \* EvidenceRegistry._operational: the records, as [record, available]

registryVars == <<public, operational>>

Ids(prefix, list) == {<<prefix, i>> : i \in 1 .. Len(list)}

PublicIds      == Ids("EV", public)
OperationalIds == Ids("OP", operational)
KnownIds       == PublicIds \cup OperationalIds

RegistryInit ==
  /\ public = << >>
  /\ operational = << >>

\* A page is known by its normalised URL and by the hash of its content.
RegisterPublic(page) ==
  public' = IF \E i \in DOMAIN public : public[i].hash = page.hash \/ public[i].url = page.url
            THEN public
            ELSE Append(public, page)

\* Mutation: the duplicate test compares spellings.
RegisterEverySpelling(record, available) ==
  operational' = IF \E i \in DOMAIN operational : operational[i].record = record
                 THEN operational
                 ELSE Append(operational, [record |-> record, available |-> available])

RegisterOperational(record, available) ==
  operational' =
    IF \E i \in DOMAIN operational : Folded[operational[i].record] = Folded[record]
    THEN operational
    ELSE Append(operational, [record |-> record, available |-> available])

NoId == <<"none", 0>>

\* The identifier a list holds for a record in that very spelling.
IdFor(record, list) ==
  LET matches == {i \in DOMAIN list : list[i].record = record}
  IN  IF matches = {} THEN NoId ELSE <<"OP", CHOOSE i \in matches : TRUE>>

-----------------------------------------------------------------------------
(* Drafts.                                                                 *)

NoDraft ==
  [cites |-> {}, text |-> [steps |-> FALSE, reply |-> {{"none"}}, notes |-> {}, exposes |-> {}]]

OperationalCites(d) == {id \in d.cites : id[1] = "OP"}

\* What unknown_ids and the citation rule ask of a draft, at submission and in review.
Grounded(d) ==
  /\ d.cites \subseteq KnownIds
  /\ d.text.steps => d.cites # {}
=============================================================================
