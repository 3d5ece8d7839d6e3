------------------------ MODULE OrganisationRegister ------------------------
(***************************************************************************)
(* The table of organisations under concurrent requests: schools and       *)
(* Klassen are created, renamed, deleted, moved between Traeger, replaced  *)
(* (PUT) and enabled for itslearning.  A request reads rows into its own   *)
(* identity map, validates over several awaits and writes at the end; only *)
(* the column version, compared by update() and by the UPDATE itself,      *)
(* protects a row against what was written meanwhile.                      *)
(*                                                                         *)
(* A school stands for its Kennung, a Klasse for its name.  The rows above *)
(* the schools are fixed: two children of the root and one Traeger.        *)
(***************************************************************************)
EXTENDS Naturals, FiniteSets, TLC

CONSTANTS
    Schools,    \* the schools there are at the start
    NewIds,     \* ids of rows that requests create
    Names,      \* names of Klassen and Kennungen of schools
    Parents,    \* bound: the rows above the schools that requests name
    Requests,   \* requests that may be under way at the same time
    MaxCalls    \* bound: requests made in all

ASSUME RegisterAssumption ==
    /\ Schools \cap NewIds = {}
    /\ Cardinality(Schools) <= Cardinality(Names)
    /\ Parents \subseteq {"oeffentlich", "ersatz", "traeger"}
    /\ MaxCalls \in Nat

VARIABLES
    orga,       \* the rows
    call,       \* the requests
    calls,      \* requests made so far
    raced       \* history: where two requests were under way at once

registerVars == <<orga, call, calls, raced>>

Ids == Schools \cup NewIds
Klasse == "KLASSE"
Schule == "SCHULE"

\* The rows above the schools; the schools of LAND rows have their own branch.
Lands == {"oeffentlich", "ersatz"}
Above == Lands \cup {"traeger"}
\* findOrganisationZuordnungErsatzOderOeffentlich() climbs administriertVon.
Zuordnung(adm) == IF adm = "ersatz" THEN "ERSATZ" ELSE "OEFFENTLICH"

Unborn == [typ |-> "unborn"]
Deleted == [typ |-> "deleted"]
Row == [typ : {Klasse, Schule}, adm : Above \cup Ids, zug : Above \cup Ids,
        name : Names, its : BOOLEAN, version : 1 .. MaxCalls + 1]

Idle == [pc |-> "idle"]

\* The fields that a request sets.
NoWish == <<>>
Enabling == [its |-> TRUE]
Placed(typ, adm, zug, name) == [typ |-> typ, adm |-> adm, zug |-> zug, name |-> name]
Wish == [typ : {Klasse, Schule}, adm : Above \cup Ids, zug : Above \cup Ids, name : Names]
        \cup [name : Names] \cup [zug : Above] \cup {NoWish, Enabling}

Live(id) == orga[id].typ \in {Klasse, Schule}
IsSchool(id) == id \in Ids /\ orga[id].typ = Schule
IsKlasse(id) == orga[id].typ = Klasse
KlassenOf(school) == {k \in Ids : IsKlasse(k) /\ orga[k].adm = school}
Busy(r) == call[r] # Idle

\* Mutant: the Kennung is not compared with that of other schools.
MutantNameFree(typ, adm, name) ==
    typ = Klasse => \A k \in KlassenOf(adm) : orga[k].name # name

\* KlassenNameAnSchuleEindeutig and SchuleKennungEindeutig: every row counts,
\* that of the request itself included.
NameFree(typ, adm, name) ==
    IF typ = Klasse
    THEN \A k \in KlassenOf(adm) : orga[k].name # name
    ELSE \A s \in Ids : IsSchool(s) => orga[s].name # name

-----------------------------------------------------------------------------
(* Requests begin.  sites: where the request may meet another.  Requests   *)
(* that place a row name one parent for both of its relations.             *)

Begin(r, op, id, wish, page, sites) ==
    /\ call[r] = Idle
    /\ calls < MaxCalls
    /\ calls' = calls + 1
    /\ call' = [call EXCEPT ![r] =
           [pc |-> "load", op |-> op, id |-> id, wish |-> wish, page |-> page,
            row |-> Unborn, entity |-> 0, its |-> FALSE, sites |-> sites]]
    /\ raced' = raced \cup
           UNION {sites \cap call[q].sites : q \in {q \in Requests \ {r} : Busy(q)}}
    /\ UNCHANGED orga

FreshId(id) ==
    /\ id \in NewIds
    /\ orga[id] = Unborn
    /\ \A q \in Requests : Busy(q) => call[q].id # id

CreateKlasse(r) ==
    \E id \in NewIds, school \in Ids, name \in Names :
        /\ FreshId(id)
        /\ Begin(r, "create", id, Placed(Klasse, school, school, name),
                 0, {school})

CreateSchool(r) ==
    \E id \in NewIds, parent \in Parents, name \in Names :
        /\ FreshId(id)
        /\ Begin(r, "create", id, Placed(Schule, parent, parent, name),
                 0, {id, "kennung"})

\* The page of the client shows some earlier version of the Klasse.
Rename(r) ==
    \E id \in Ids, name \in Names :
        /\ IsKlasse(id)
        /\ \E page \in 1 .. orga[id].version :
               Begin(r, "rename", id, [name |-> name], page, {orga[id].adm})

DeleteKlasse(r) ==
    \E id \in Ids : Live(id) /\ Begin(r, "delete", id, NoWish, 0, {orga[id].adm} \cap Ids)

Enable(r) == \E id \in Ids : IsSchool(id) /\ Begin(r, "enable", id, Enabling, 0, {id})

Move(r) ==
    \E id \in Ids, parent \in Parents :
        IsSchool(id) /\ Begin(r, "move", id, [zug |-> parent], 0, {})

\* PUT replaces every field; the typ is kept.
PutKlasse(r) ==
    \E id \in Ids, school \in Ids, name \in Names :
        /\ IsKlasse(id)
        /\ Begin(r, "put", id, Placed(Klasse, school, school, name),
                 0, {orga[id].adm, school})

PutSchool(r) ==
    \E id \in Ids, parent \in Parents, name \in Names :
        /\ IsSchool(id)
        /\ Begin(r, "put", id, Placed(Schule, parent, parent, name),
                 0, {id, "kennung"})

Ask(r) ==
    \/ CreateKlasse(r) \/ CreateSchool(r) \/ Rename(r) \/ DeleteKlasse(r)
    \/ Enable(r) \/ Move(r) \/ PutKlasse(r) \/ PutSchool(r)

-----------------------------------------------------------------------------
(* Requests go on.                                                         *)

At(r, op, pc) == call[r] # Idle /\ call[r].op = op /\ call[r].pc = pc
Refuse(r) == call' = [call EXCEPT ![r] = Idle] /\ UNCHANGED <<orga, calls, raced>>
Go(r, pc) == call' = [call EXCEPT ![r].pc = pc] /\ UNCHANGED <<orga, calls, raced>>

\* What the request reads first; the school's itslearning flag stays in its
\* identity map until the end, the handlers of its events included.
Read(r, pc, its) ==
    /\ call' = [call EXCEPT ![r].pc = pc, ![r].row = orga[call[r].id], ![r].its = its,
                            ![r].entity = orga[call[r].id].version]
    /\ UNCHANGED <<orga, calls, raced>>

\* createOrganisation(): the parent of a Klasse must be a school.
LoadCreate(r) ==
    /\ At(r, "create", "load")
    /\ LET adm == call[r].wish.adm
       IN  IF call[r].wish.typ = Schule THEN Go(r, "check")
           ELSE IF IsSchool(adm)
                THEN /\ call' = [call EXCEPT ![r].pc = "check", ![r].its = orga[adm].its]
                     /\ UNCHANGED <<orga, calls, raced>>
                ELSE Refuse(r)

\* updateOrganisationName(): the name is checked only if it changes.
LoadRename(r) ==
    /\ At(r, "rename", "load")
    /\ LET id == call[r].id
       IN  IF Live(id)
           THEN Read(r, IF orga[id].name = call[r].wish.name THEN "save" ELSE "check",
                     orga[orga[id].adm].its)
           ELSE Refuse(r)

\* deleteKlasse(): refused while somebody has a Personenkontext at the Klasse.
LoadDelete(r) ==
    /\ At(r, "delete", "load")
    /\ \/ IsKlasse(call[r].id) /\ Read(r, "save", FALSE)
       \/ Refuse(r)

LoadOther(r) ==
    /\ call[r] # Idle
    /\ call[r].op \in {"enable", "move", "put"} /\ call[r].pc = "load"
    /\ IF Live(call[r].id)
       THEN Read(r, IF call[r].op = "enable" THEN "save" ELSE "check", FALSE)
       ELSE Refuse(r)

\* A row with the fields that are set, and those it had.
With(fields, row) ==
    [f \in DOMAIN fields \cup DOMAIN row |-> IF f \in DOMAIN fields THEN fields[f] ELSE row[f]]

\* The row as the request wants to write it.
Wanted(r) == With(call[r].wish, call[r].row)

\* findChildOrgasForIds() and findParentOrgasForIdSortedByDepthAsc() map raw
\* rows and so bring the identity map up to date.
Refreshed(r, ids) ==
    IF call[r].id \in ids /\ Live(call[r].id) THEN orga[call[r].id].version ELSE call[r].entity

CheckName(r) ==
    /\ call[r] # Idle
    /\ call[r].op \in {"create", "rename", "put"} /\ call[r].pc = "check"
    /\ LET want == Wanted(r)
       IN  IF /\ want.typ = Klasse => IsSchool(want.adm)
              /\ NameFree(want.typ, want.adm, want.name)
           THEN /\ call' = [call EXCEPT ![r].pc = "save",
                       ![r].entity = Refreshed(r, KlassenOf(want.adm))]
                /\ UNCHANGED <<orga, calls, raced>>
           ELSE Refuse(r)

\* validateZugehoerigZu(): one branch, and a school is administered by a LAND.
CheckMove(r) ==
    /\ At(r, "move", "check")
    /\ LET id == call[r].id
       IN  IF /\ Zuordnung(orga[id].adm) = Zuordnung(call[r].wish.zug)
              /\ call[r].row.adm \in Lands
           THEN /\ call' = [call EXCEPT ![r].pc = "save", ![r].entity = Refreshed(r, {id})]
                /\ UNCHANGED <<orga, calls, raced>>
           ELSE Refuse(r)

Store(r, row, pc) ==
    /\ orga' = [orga EXCEPT ![call[r].id] = row]
    /\ call' = [call EXCEPT ![r] = IF pc = "idle" THEN Idle ELSE [call[r] EXCEPT !.pc = pc]]
    /\ UNCHANGED <<calls, raced>>

\* create(): SchuleCreatedEvent has no handler here.
Insert(r) ==
    /\ At(r, "create", "save")
    /\ LET wish == call[r].wish
       IN  Store(r, With(wish, [its |-> FALSE, version |-> 1]),
                 IF wish.typ = Klasse THEN "published" ELSE "idle")

\* removeAndFlush(): the foreign key may refuse; a row that is gone is no error.
Remove(r) ==
    /\ At(r, "delete", "save")
    /\ Store(r, Deleted, "published") \/ Refuse(r)

\* The version that update() compares with that of the entity.
Expected(r) == IF call[r].op = "rename" THEN call[r].page ELSE call[r].row.version

\* Mutant: versions are compared in memory and not by the UPDATE.
MutantUpToDate(r) == Expected(r) = call[r].entity /\ Live(call[r].id)

\* update(), setEnabledForitslearning(): UPDATE ... WHERE version = entity's.
UpToDate(r) ==
    /\ Expected(r) = call[r].entity
    /\ Live(call[r].id)
    /\ orga[call[r].id].version = call[r].entity

\* The row as update() leaves it.
Written(r) ==
    LET row == Wanted(r)
    IN  [typ |-> row.typ, adm |-> row.adm, zug |-> row.zug, name |-> row.name,
         its |-> row.its, version |-> call[r].entity + 1]

Update(r) ==
    /\ call[r] # Idle
    /\ call[r].op \in {"rename", "move", "put", "enable"} /\ call[r].pc = "save"
    /\ IF UpToDate(r)
       THEN Store(r, Written(r),
                  IF call[r].op \in {"rename", "enable"}
                  THEN "published" ELSE "idle")
       ELSE Refuse(r)

Step(r) ==
    \/ Ask(r) \/ LoadCreate(r) \/ LoadRename(r) \/ LoadDelete(r) \/ LoadOther(r)
    \/ CheckName(r) \/ CheckMove(r) \/ Insert(r) \/ Remove(r) \/ Update(r)

\* The event is published and the answer sent.
Answer(r) == call[r] # Idle /\ call[r].pc = "published" /\ Refuse(r)

\* Schools with and without itslearning, and the Klassen they have by then.
First(typ, parents, names) ==
    [typ : {typ}, adm : parents, zug : parents, name : names, its : BOOLEAN, version : {1}]

Init ==
    /\ orga \in [Ids -> {Unborn} \cup First(Schule, {"oeffentlich"}, Names)
                            \cup First(Klasse, Schools, Names)]
    /\ \A id \in Ids :
        /\ IsSchool(id) <=> id \in Schools
        /\ IsKlasse(id) => orga[id].adm = orga[id].zug /\ ~orga[id].its
    /\ \A a, b \in Ids :
        a # b /\ orga[a].typ = orga[b].typ /\ Live(a) /\ orga[a].adm = orga[b].adm
        => orga[a].name # orga[b].name
    /\ call = [r \in Requests |-> Idle]
    /\ calls = 0
    /\ raced = {}

RegisterNext == \E r \in Requests : Step(r) \/ Answer(r)

RegisterSpec == Init /\ [][RegisterNext]_registerVars
=============================================================================
