--------------------------- MODULE RolleRegister ---------------------------
(***************************************************************************)
(* The Rollen under concurrent requests, with what hangs on them: the      *)
(* Personenkontexte that are given meanwhile, the Angebote (service        *)
(* providers) they serve, and what RolleUpdatedEvent told about these.     *)
(* save() compares the name with other rows long before it writes, the     *)
(* controller asks for Personenkontexte before that, and a whole row is    *)
(* written at the end; the column version is compared by update() and by   *)
(* the UPDATE itself.                                                      *)
(***************************************************************************)
EXTENDS Naturals, FiniteSets

CONSTANTS
    Rollen,         \* the Rollen there are at the start
    NewIds,         \* ids of Rollen that requests create
    Names, Knoten,  \* names, and the Schulstrukturknoten that administer Rollen
    Merkmale, Pflicht, \* Merkmale; the one that stands for BEFRISTUNG_PFLICHT
    Rechte,         \* Systemrechte
    Angebote,       \* ids of service providers
    Requests,       \* requests that may be under way at the same time
    MaxCalls,       \* bound: requests made in all
    DatabaseFails   \* a flush may fail for reasons of the database

ASSUME RolleAssumption ==
    /\ Rollen \cap NewIds = {}
    /\ (Rollen \cup NewIds) \cap Knoten = {}
    /\ IsFiniteSet(Merkmale) /\ Pflicht \in Merkmale
    /\ MaxCalls \in Nat
    /\ DatabaseFails \in BOOLEAN

VARIABLES
    rollen,     \* the rows
    kontexte,   \* of each Rolle: kontexte with (TRUE) and without Befristung
    angebote,   \* the service providers there are
    told,       \* of each Rolle: the Angebote of its last event
    call, calls, \* the requests, and how many were made so far
    raced,      \* history: where two requests were under way at once
    silent      \* history: Rollen whose Angebote changed without an event

vars == <<rollen, kontexte, angebote, told, call, calls, raced, silent>>

Ids == Rollen \cup NewIds
Row == [name : Names, knoten : Knoten, merkmale : SUBSET Merkmale, rechte : SUBSET Rechte,
        angebote : SUBSET Angebote, version : Nat \ {0}]
Unborn == [version |-> 0, gone |-> FALSE]
Deleted == [version |-> 0, gone |-> TRUE]
Live(id) == rollen[id].version > 0

Idle == [pc |-> "idle"]
Busy(r) == call[r] # Idle
At(r, ops, pc) == call[r].pc = pc /\ call[r].op \in ops

\* Requests that change a Rolle that is there.
Changing == {"put", "recht", "attach", "detach"}

-----------------------------------------------------------------------------
(* Requests begin.  wish: what they bring; page: the version their client   *)
(* shows; sites: the row and the name space they depend on.                 *)

Begin(r, op, pc, id, wish, page, sites) ==
    /\ ~Busy(r)
    /\ calls < MaxCalls
    /\ calls' = calls + 1
    /\ call' = [call EXCEPT ![r] =
           [pc |-> pc, op |-> op, id |-> id, wish |-> wish, page |-> page,
            row |-> Unborn, entity |-> 0, assigned |-> FALSE, sites |-> sites]]
    /\ raced' = raced \cup UNION {sites \cap call[q].sites : q \in {q \in Requests : Busy(q)}}
    /\ UNCHANGED <<rollen, kontexte, angebote, told, silent>>

\* createRolle(): without Angebote.
AskCreate(r) ==
    \E id \in NewIds, name \in Names, knoten \in Knoten,
       merkmale \in SUBSET Merkmale, rechte \in SUBSET Rechte :
        /\ rollen[id] = Unborn
        /\ \A q \in Requests : Busy(q) => call[q].id # id
        /\ Begin(r, "create", "check", id,
                 [name |-> name, knoten |-> knoten, merkmale |-> merkmale, rechte |-> rechte,
                  angebote |-> {}, version |-> 1], 0, {knoten})

\* updateRolle(): everything but knoten and Rollenart is replaced.
AskPut(r) ==
    \E id \in Ids, name \in Names, merkmale \in SUBSET Merkmale, rechte \in SUBSET Rechte,
       wanted \in SUBSET angebote :
        /\ Live(id)
        /\ \E page \in 1 .. rollen[id].version :
               Begin(r, "put", "assigned", id,
                     [name |-> name, merkmale |-> merkmale, rechte |-> rechte, angebote |-> wanted],
                     page, {id, rollen[id].knoten})

\* addSystemRecht(), updateServiceProvidersById(), removeServiceProviderById().
AskChange(r) ==
    \E id \in Ids :
        /\ Live(id)
        /\ LET sites == {id, rollen[id].knoten}
           IN  \/ \E recht \in Rechte : Begin(r, "recht", "load", id, {recht}, 0, sites)
               \/ \E page \in 1 .. rollen[id].version, some \in SUBSET angebote,
                     op \in {"attach", "detach"} :
                      Begin(r, op, "load", id, some, page, sites)

AskDelete(r) == \E id \in Ids : Live(id) /\ Begin(r, "delete", "load", id, {}, 0, {id})

\* An update of Personenkontexte gives the Rolle, with a Befristung or without.
AskAssign(r) ==
    \E id \in Ids, befristet \in BOOLEAN :
        Live(id) /\ Begin(r, "assign", "load", id, befristet, 0, {id})

Ask(r) == AskCreate(r) \/ AskPut(r) \/ AskChange(r) \/ AskDelete(r) \/ AskAssign(r)

-----------------------------------------------------------------------------
(* Requests go on.                                                         *)

Set(r, c) == call' = [call EXCEPT ![r] = c] /\ UNCHANGED <<calls, raced>>
Go(r, c) == Set(r, c) /\ UNCHANGED <<rollen, kontexte, angebote, told, silent>>
Refuse(r) == Go(r, Idle)

\* isRolleAlreadyAssigned().
CheckAssigned(r) ==
    /\ At(r, {"put"}, "assigned")
    /\ Go(r, [call[r] EXCEPT !.pc = "load", !.assigned = kontexte[call[r].id] # {}])

\* What the row is to become, as far as the request can tell when it reads it;
\* its version is the one that update() compares.
Wanted(c, row) ==
    CASE c.op = "put" ->
           [row EXCEPT !.name = c.wish.name, !.merkmale = c.wish.merkmale, !.rechte = c.wish.rechte,
                       !.angebote = c.wish.angebote, !.version = c.page]
      [] c.op = "recht"  -> [row EXCEPT !.rechte = @ \cup c.wish]
      [] c.op = "attach" -> [row EXCEPT !.angebote = c.wish, !.version = c.page]
      [] c.op = "detach" -> [row EXCEPT !.angebote = @ \ c.wish, !.version = c.page]
      [] OTHER -> row

\* Mutant: Merkmale may be added to a Rolle that is assigned.
MutantMayChange(c, row) ==
    /\ c.op = "put" /\ c.assigned => ~Cardinality(c.wish.merkmale) < Cardinality(row.merkmale)
    /\ c.op = "detach" => c.wish \subseteq row.angebote

\* The Merkmale of a Rolle that is assigned, and detatchServiceProvider().
MayChange(c, row) ==
    /\ c.op = "put" /\ c.assigned =>
           c.wish.merkmale = {} /\ ~Cardinality(c.wish.merkmale) < Cardinality(row.merkmale)
    /\ c.op = "detach" => c.wish \subseteq row.angebote

\* findById(); a later look at the row by the same request changes nothing
\* that the versions would not tell.
LoadRow(r) ==
    /\ At(r, Changing \cup {"delete"}, "load")
    /\ LET c == call[r]  row == rollen[c.id]
       IN  IF Live(c.id) /\ MayChange(c, row)
           THEN Go(r, [c EXCEPT !.row = Wanted(c, row), !.entity = row.version,
                                !.pc = IF c.op = "delete" THEN "save" ELSE "offers"])
           ELSE Refuse(r)

\* attachServiceProvider() and updateServiceProviders() look for every one.
CheckOffers(r) ==
    /\ At(r, Changing, "offers")
    /\ LET c == call[r]
       IN  IF /\ c.op = "put" => c.wish.angebote \subseteq angebote
              /\ c.op = "attach" => c.wish \subseteq angebote
           THEN Go(r, [c EXCEPT !.pc = "check"])
           ELSE Refuse(r)

\* The row that save() is called with.
Target(r) == IF call[r].op = "create" THEN call[r].wish ELSE call[r].row

\* Mutant: the names of all Knoten are compared but not with those of the same.
MutantNameFree(id, row) ==
    \A k \in Ids \ {id} : Live(k) /\ rollen[k].knoten # row.knoten => rollen[k].name # row.name

\* RolleNameUniqueOnSsk.
NameFree(id, row) ==
    \A k \in Ids \ {id} : Live(k) /\ rollen[k].knoten = row.knoten => rollen[k].name # row.name

\* save(): what findByName() loads may bring the entity up to date.  Three of
\* the endpoints ignore that a name was refused, and answer as if it were not.
CheckName(r) ==
    /\ At(r, Changing \cup {"create"}, "check")
    /\ LET c == call[r]
       IN  IF NameFree(c.id, Target(r))
           THEN \E version \in {c.entity, rollen[c.id].version} :
                    Go(r, [c EXCEPT !.pc = "save", !.entity = version])
           ELSE Refuse(r)

-----------------------------------------------------------------------------
(* Requests write.  A flush is one transaction: all of it or nothing.      *)

Insert(r) ==
    /\ At(r, {"create"}, "save")
    /\ rollen' = [rollen EXCEPT ![call[r].id] = call[r].wish]
    /\ told' = [told EXCEPT ![call[r].id] = {}]
    /\ Set(r, Idle)
    /\ UNCHANGED <<kontexte, angebote, silent>>

\* Mutant: the version of the request is not compared.
MutantUpToDate(r) == Live(call[r].id) /\ rollen[call[r].id].version = call[r].entity

\* update(), and the UPDATE with the version of the entity in its condition.
UpToDate(r) ==
    /\ call[r].row.version = call[r].entity
    /\ Live(call[r].id) /\ rollen[call[r].id].version = call[r].entity

\* The foreign key of rolle_service_provider holds too.
Update(r) ==
    /\ At(r, Changing, "save")
    /\ UpToDate(r) /\ call[r].row.angebote \subseteq angebote
    /\ LET c == call[r]
       IN  /\ rollen' = [rollen EXCEPT ![c.id] = [c.row EXCEPT !.version = c.entity + 1]]
           /\ silent' = IF c.op \in {"attach", "detach"} THEN silent \cup {c.id} ELSE silent
           /\ Set(r, IF c.op = "put" THEN [c EXCEPT !.pc = "tell"] ELSE Idle)
    /\ UNCHANGED <<kontexte, angebote, told>>

\* Mutant: updateRolleAuthorized() goes on when save() has refused.
MutantUpdateFails(r) ==
    /\ At(r, Changing, "save")
    /\ ~UpToDate(r) \/ ~call[r].row.angebote \subseteq angebote \/ DatabaseFails
    /\ IF call[r].op = "put" THEN Go(r, [call[r] EXCEPT !.pc = "tell"]) ELSE Refuse(r)

\* Outdated, a foreign key that is violated, or a failing database: the
\* request throws and nothing is written.
UpdateFails(r) ==
    /\ At(r, Changing, "save")
    /\ ~UpToDate(r) \/ ~call[r].row.angebote \subseteq angebote \/ DatabaseFails
    /\ Refuse(r)

InsertFails(r) == At(r, {"create"}, "save") /\ DatabaseFails /\ Refuse(r)

\* RolleUpdatedEvent.
Tell(r) ==
    /\ At(r, {"put"}, "tell")
    /\ told' = [told EXCEPT ![call[r].id] = call[r].wish.angebote]
    /\ silent' = silent \ {call[r].id}
    /\ Set(r, Idle)
    /\ UNCHANGED <<rollen, kontexte, angebote>>

\* What refers to the row and does not go with it: Personenkontexte, and what
\* was added to it since it was loaded.
Referred(r) ==
    LET now == rollen[call[r].id]  row == call[r].row
    IN  \/ kontexte[call[r].id] # {}
        \/ ~now.merkmale \subseteq row.merkmale
        \/ ~now.rechte \subseteq row.rechte
        \/ ~now.angebote \subseteq row.angebote

\* removeAndFlush(): a row that is gone already is no error.
Remove(r) ==
    /\ At(r, {"delete"}, "save")
    /\ Live(call[r].id) => ~Referred(r)
    /\ rollen' = [rollen EXCEPT ![call[r].id] = Deleted]
    /\ Set(r, Idle)
    /\ UNCHANGED <<kontexte, angebote, told, silent>>

RemoveRefused(r) ==
    /\ At(r, {"delete"}, "save")
    /\ Live(call[r].id) /\ Referred(r)
    /\ Refuse(r)

\* deleteAuthorized() catches every error and tells only that of a foreign
\* key; any other is answered like success.
RemoveFails(r) ==
    /\ At(r, {"delete"}, "save")
    /\ DatabaseFails
    /\ Refuse(r)

-----------------------------------------------------------------------------
(* Personenkontexte and service providers.                                 *)

\* CheckBefristungSpecification.
CheckBefristung(r) ==
    /\ At(r, {"assign"}, "load")
    /\ LET c == call[r]
       IN  IF Live(c.id) /\ Pflicht \in rollen[c.id].merkmale => c.wish
           THEN Go(r, [c EXCEPT !.pc = "save"])
           ELSE Refuse(r)

\* The row of the Personenkontext: its foreign key needs the Rolle.
InsertKontext(r) ==
    /\ At(r, {"assign"}, "save")
    /\ Live(call[r].id)
    /\ kontexte' = [kontexte EXCEPT ![call[r].id] = @ \cup {call[r].wish}]
    /\ Set(r, Idle)
    /\ UNCHANGED <<rollen, angebote, told, silent>>

InsertKontextFails(r) ==
    /\ At(r, {"assign"}, "save")
    /\ ~Live(call[r].id) \/ DatabaseFails
    /\ Refuse(r)

\* A Personenkontext ends.
RemoveKontext ==
    \E id \in Ids : \E befristet \in kontexte[id] :
        /\ kontexte' = [kontexte EXCEPT ![id] = @ \ {befristet}]
        /\ UNCHANGED <<rollen, angebote, told, call, calls, raced, silent>>

\* deleteServiceProvider(), which the foreign key refuses while a Rolle has it.
DeleteAngebot ==
    \E a \in angebote :
        /\ \A id \in Ids : Live(id) => a \notin rollen[id].angebote
        /\ angebote' = angebote \ {a}
        /\ UNCHANGED <<rollen, kontexte, told, call, calls, raced, silent>>

Step(r) ==
    \/ CheckAssigned(r) \/ LoadRow(r) \/ CheckOffers(r) \/ CheckName(r)
    \/ Insert(r) \/ InsertFails(r) \/ Update(r) \/ UpdateFails(r) \/ Tell(r)
    \/ Remove(r) \/ RemoveRefused(r) \/ RemoveFails(r)
    \/ CheckBefristung(r) \/ InsertKontext(r) \/ InsertKontextFails(r)

\* Seeded Rollen, whose Angebote the seeding has told.
Init ==
    /\ rollen \in [Ids -> {Unborn} \cup [name : Names, knoten : Knoten,
                             merkmale : SUBSET Merkmale, rechte : {{}},
                             angebote : SUBSET Angebote, version : {1}]]
    /\ \A id \in Ids : Live(id) <=> id \in Rollen
    /\ \A a, b \in Rollen : a # b /\ rollen[a].knoten = rollen[b].knoten
                            => rollen[a].name # rollen[b].name
    /\ kontexte \in [Ids -> SUBSET BOOLEAN]
    /\ \A id \in Ids : /\ id \notin Rollen => kontexte[id] = {}
                       /\ FALSE \in kontexte[id] => Pflicht \notin rollen[id].merkmale
    /\ angebote = Angebote
    /\ told = [id \in Ids |-> IF id \in Rollen THEN rollen[id].angebote ELSE {}]
    /\ call = [r \in Requests |-> Idle]
    /\ calls = 0
    /\ raced = {} /\ silent = {}

Next == RemoveKontext \/ DeleteAngebot \/ \E r \in Requests : Ask(r) \/ Step(r)

Spec == Init /\ [][Next]_vars

-----------------------------------------------------------------------------
(* Properties.                                                             *)

\* Rows, and references between them, are those the foreign keys allow.
TypeOK ==
    /\ \A id \in Ids : rollen[id] \in Row \cup {Unborn, Deleted}
    /\ \A id \in Ids : kontexte[id] \subseteq BOOLEAN /\ told[id] \subseteq Angebote
    /\ \A id \in Ids : kontexte[id] # {} => Live(id)
    /\ \A id \in Ids : Live(id) => rollen[id].angebote \subseteq angebote
    /\ angebote \subseteq Angebote
    /\ calls \in 0 .. MaxCalls

\* A Rolle with BEFRISTUNG_PFLICHT is held by nobody without a Befristung,
\* unless requests for it overlapped: its Merkmale are fixed while somebody has
\* it, and a Personenkontext is checked against them.
BefristungAlone ==
    \A id \in Ids \ raced :
        Live(id) /\ Pflicht \in rollen[id].merkmale => FALSE \notin kontexte[id]

\* Two Rollen of one Knoten have different names, unless requests that look at
\* its names overlapped.
NamesUniqueAlone ==
    \A a, b \in Ids :
        a # b /\ Live(a) /\ Live(b) /\ rollen[a].knoten = rollen[b].knoten
              /\ rollen[a].knoten \notin raced
        => rollen[a].name # rollen[b].name

\* Whoever replays RolleUpdatedEvent knows the Angebote of a Rolle, unless an
\* endpoint that publishes nothing changed them, or updates of it overlapped.
ToldAlone ==
    \A id \in Ids \ (raced \cup silent) :
        Live(id) /\ (\A r \in Requests : Busy(r) => ~(call[r].id = id /\ call[r].pc = "tell"))
        => told[id] = rollen[id].angebote

\* A request writes a whole row, but changes only what it names, and, if a
\* client sent a version, only the row of that version: nothing that another
\* request wrote meanwhile is lost.
ChangesOnlyWhatItNames ==
    [][\A r \in Requests :
         At(r, Changing, "save") /\ call'[r] # call[r] /\ rollen' # rollen =>
             LET op == call[r].op  old == rollen[call[r].id]  new == rollen'[call[r].id]
             IN  /\ op # "recht" => old.version = call[r].page
                 /\ new.version = old.version + 1 /\ new.knoten = old.knoten
                 /\ op # "put" => new.name = old.name /\ new.merkmale = old.merkmale
                 /\ op \in {"attach", "detach"} => new.rechte = old.rechte
                 /\ op = "recht" => /\ new.angebote = old.angebote
                                    /\ new.rechte = old.rechte \cup call[r].wish]_vars
=============================================================================
