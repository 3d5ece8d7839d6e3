------------------------- MODULE ItslearningPersons -------------------------
(***************************************************************************)
(* One person in itslearning: the entry with its name and role, and the    *)
(* memberships in the groups of a school and of one of its Klassen.  The   *)
(* handlers of updates, renamings and new addresses take turns on a mutex  *)
(* and work from the data of their event; the synchronisation works from   *)
(* the database and does not know the mutex.  A call to itslearning may    *)
(* fail; what is done then depends on the handler.                         *)
(***************************************************************************)
EXTENDS Naturals, FiniteSets, Sequences, FiniteSetsExt

CONSTANTS
    Kontexte,       \* the Personenkontexte that the person may have
    Serving,        \* Rollen with itslearning as a service provider
    RankOf,         \* the Rollenart of a Rolle, as its rank in ROLLENART_VALUES
    MaxEvents,      \* bound: changes in the database
    MaxSyncs,       \* bound: synchronisations
    MaxRefusals     \* bound: calls to itslearning that fail

School == "schule"      \* may be enabled for itslearning
SchoolKlasse == "klasse"      \* a Klasse of that school
Other  == "andere"      \* a school without itslearning
Extern == 1             \* ranks, shifted by one
Lehr   == 3
Sysadmin == 6

ASSUME PersonAssumption ==
    /\ \A k \in Kontexte : k.orga \in {School, SchoolKlasse, Other} /\ k.rolle \in DOMAIN RankOf
    /\ \A rolle \in DOMAIN RankOf : RankOf[rolle] \in Extern .. 8
    /\ MaxEvents \in Nat /\ MaxSyncs \in Nat /\ MaxRefusals \in Nat

VARIABLES
    kontexte,   \* the person's rows
    fullName,       \* the person's name
    enabled,    \* whether the school has itslearning
    update,     \* an update that has loaded the person and not yet published
    person,     \* the entry in itslearning
    members,    \* its memberships
    queue,      \* events whose handlers wait for the mutex
    run,        \* the handler that has the mutex, and the synchronisation
    events, syncs, refusals,    \* counters of the bounds
    sound       \* history: nothing went wrong since the last repair

personsVars == <<kontexte, fullName, enabled, update, person, members, queue, run,
          events, syncs, refusals, sound>>
db == <<kontexte, fullName, enabled, update>>
entry == <<person, members>>
counters == <<events, syncs>>

RootGroup == "root"
Groups == {School, SchoolKlasse, Other, RootGroup}
None == [name |-> 0, role |-> 0]
NoMembers == [g \in Groups |-> 0]
NoRun == [pc |-> "idle", kind |-> "none", name |-> 0, rows |-> {}, its |-> FALSE,
         role |-> 0, read |-> NoMembers, alone |-> TRUE]
Processes == {"handler", "sync"}

-----------------------------------------------------------------------------
(* What the person should have.                                            *)

\* filterRelevantKontexte(), and the filters of the synchronisation: a Klasse
\* counts only if the person has a Kontext at its school as well.
Relevant(rows, its) ==
    {k \in rows :
        /\ its /\ k.rolle \in Serving
        /\ \/ k.orga = School
           \/ k.orga = SchoolKlasse /\ \E s \in rows : s.orga = School}

Highest(rows) == Max({Extern} \cup {RankOf[k.rolle] : k \in rows})

\* setMemberships(): one role per group, the highest; at the root groups, of
\* which only those count that the person is in, at most LEHR.
TargetMembers(rows, its, current) ==
    LET relevant == Relevant(rows, its)
    IN  [g \in Groups |->
            IF g = RootGroup
            THEN IF current[RootGroup] = 0 THEN 0 ELSE Min({Lehr, Highest(relevant)})
            ELSE LET here == {k \in relevant : k.orga = g}
                 IN  IF here = {} THEN 0 ELSE Highest(here)]

\* The handler takes the highest role of the relevant Kontexte, the synchronisation
\* that of all Rollen with itslearning, wherever the person has them; none is more
\* than SYSADMIN.
RoleFor(kind, rows, its) ==
    LET counted == IF kind = "sync" THEN {k \in rows : k.rolle \in Serving}
                                    ELSE Relevant(rows, its)
    IN  Min({Sysadmin, Highest(counted)})

-----------------------------------------------------------------------------
(* Changes in the database and their events.                               *)

AllHandled == queue = <<>> /\ \A p \in Processes : run[p].pc = "idle"
Syncing == run["sync"].pc # "idle"

Event(kind, nm, rows, its) ==
    [NoRun EXCEPT !.kind = kind, !.name = nm, !.rows = rows, !.its = its]
Publish(e) == queue' = Append(queue, e)

\* What a synchronisation under way may have read is changed.
Disturb ==
    /\ run' = [run EXCEPT !["sync"] = [run["sync"] EXCEPT !.alone = FALSE]]
    /\ events < MaxEvents
    /\ events' = events + 1
    /\ UNCHANGED <<entry, syncs, refusals>>

LoadForUpdate ==
    /\ update = 0
    /\ update' = fullName
    /\ events < MaxEvents
    /\ UNCHANGED <<kontexte, fullName, enabled, entry, queue, run, counters, refusals, sound>>

\* update() of PersonenkontexteUpdate, which adds or removes one row: the event
\* carries the name read before.
UpdateRows ==
    /\ update # 0
    /\ \E k \in Kontexte :
        kontexte' = IF k \in kontexte THEN kontexte \ {k} ELSE kontexte \cup {k}
    /\ Publish(Event("update", update, kontexte', enabled))
    /\ update' = 0
    /\ sound' = (sound /\ update = fullName /\ ~Syncing)
    /\ Disturb
    /\ UNCHANGED <<fullName, enabled>>

RenamePerson ==
    /\ fullName' = fullName + 1
    /\ Publish(Event("rename", fullName + 1, {}, FALSE))
    /\ sound' = (sound /\ ~Syncing)
    /\ Disturb
    /\ UNCHANGED <<kontexte, enabled, update>>

\* OX has a new address for the person.
NewAddress ==
    /\ Publish(Event("email", 0, {}, FALSE))
    /\ sound' = (sound /\ ~Syncing)
    /\ Disturb
    /\ UNCHANGED db

\* setEnabledForitslearning(): its handler sends no persons.
EnableSchool ==
    /\ ~enabled
    /\ enabled' = TRUE
    /\ sound' = FALSE
    /\ Disturb
    /\ UNCHANGED <<kontexte, fullName, update, queue>>

-----------------------------------------------------------------------------
(* itslearning, as the handlers use it.                                    *)

PutPerson(p) ==
    /\ person' = p
    /\ members' = IF person = None THEN [members EXCEPT ![RootGroup] = Extern] ELSE members

RemovePerson == person' = None /\ members' = NoMembers

\* Memberships of nobody are refused.
SetMembers(m) == members' = (IF person = None THEN NoMembers ELSE m) /\ UNCHANGED person

-----------------------------------------------------------------------------
(* The handlers.                                                           *)

Stands(p, pc) == run[p].pc = pc
FirstStep(rows, its) == IF Relevant(rows, its) # {} THEN "person" ELSE "delete"

\* runExclusive(): one handler at a time, in the order of the events.
Take ==
    /\ Stands("handler", "idle") /\ queue # <<>>
    /\ queue' = Tail(queue)
    /\ LET e == Head(queue)
           pc == IF e.kind # "update" THEN "read" ELSE FirstStep(e.rows, e.its)
       IN  run' = [run EXCEPT !["sync"] = [run["sync"] EXCEPT !.alone = FALSE],
                              !["handler"] = [e EXCEPT !.pc = pc]]
    /\ sound' = (sound /\ ~Syncing)
    /\ UNCHANGED <<db, entry, counters, refusals>>

AskSync ==
    /\ Stands("sync", "idle") /\ syncs < MaxSyncs
    /\ syncs' = syncs + 1
    /\ LET alone == queue = <<>> /\ Stands("handler", "idle")
       IN  /\ run' = [run EXCEPT !["sync"] =
                   [NoRun EXCEPT !.pc = "load", !.kind = "sync", !.alone = alone]]
           /\ sound' = (sound /\ alone)
    /\ UNCHANGED <<db, entry, queue, events, refusals>>

LoadPerson ==
    /\ Stands("sync", "load")
    /\ run' = [run EXCEPT !["sync"] = [run["sync"] EXCEPT !.pc = "rows", !.name = fullName]]
    /\ UNCHANGED <<db, entry, queue, counters, refusals, sound>>

LoadRows ==
    /\ Stands("sync", "rows")
    /\ run' = [run EXCEPT !["sync"] = [run["sync"] EXCEPT
           !.rows = kontexte, !.its = enabled, !.pc = FirstStep(kontexte, enabled)]]
    /\ UNCHANGED <<db, entry, queue, counters, refusals, sound>>

\* A synchronisation that nothing disturbed repairs what went wrong before.
Finish(p) ==
    /\ run' = [run EXCEPT ![p] = NoRun]
    /\ sound' = (sound \/ (p = "sync" /\ run[p].alone))

GoOn(p, pc) == run' = [run EXCEPT ![p] = [run[p] EXCEPT !.pc = pc]] /\ UNCHANGED sound

\* Mutant: the mutex is not released by a handler that fails.
MutantFail(p, pc) ==
    /\ refusals < MaxRefusals
    /\ refusals' = refusals + 1
    /\ sound' = FALSE
    /\ run' = [run EXCEPT ![p].pc = IF pc = "idle" THEN "stuck" ELSE pc, ![p].alone = FALSE]
    /\ UNCHANGED entry

\* A call fails: the handler gives up, or logs it and goes on.
Fail(p, pc) ==
    /\ refusals < MaxRefusals
    /\ refusals' = refusals + 1
    /\ sound' = FALSE
    /\ run' = [run EXCEPT ![p] = IF pc = "idle" THEN NoRun
                                 ELSE [run[p] EXCEPT !.pc = pc, !.alone = FALSE]]
    /\ UNCHANGED entry

\* readPerson() before a renaming or a new address: the role is written back, with
\* the name when only the address is new.
ReadPerson(p) ==
    /\ Stands(p, "read")
    /\ \/ /\ IF person = None THEN Finish(p)
             ELSE LET r == run[p]
                      nm == IF r.kind = "email" THEN person.name ELSE r.name
                  IN  /\ run' = [run EXCEPT ![p] =
                             [r EXCEPT !.pc = "person", !.role = person.role, !.name = nm]]
                      /\ UNCHANGED sound
          /\ UNCHANGED <<entry, refusals>>
       \/ Fail(p, "idle")

\* createOrUpdatePerson(): the synchronisation stops if it fails, the handler of
\* an update goes on with the memberships.
SendPerson(p) ==
    /\ Stands(p, "person")
    /\ LET r == run[p]
           whole == r.kind \in {"update", "sync"}
           role == IF whole THEN RoleFor(r.kind, r.rows, r.its) ELSE r.role
       IN  \/ /\ PutPerson([name |-> r.name, role |-> role])
              /\ IF whole THEN GoOn(p, "members") ELSE Finish(p)
              /\ UNCHANGED refusals
           \/ Fail(p, IF r.kind = "update" THEN "members" ELSE "idle")

DeletePerson(p) ==
    /\ Stands(p, "delete")
    /\ \/ RemovePerson /\ Finish(p) /\ UNCHANGED refusals
       \/ Fail(p, "idle")

ReadMembers(p) ==
    /\ Stands(p, "members")
    /\ \/ /\ run' = [run EXCEPT ![p] = [run[p] EXCEPT !.pc = "remove", !.read = members]]
          /\ UNCHANGED <<entry, refusals, sound>>
       \/ Fail(p, "idle")

WantedMembers(p) == TargetMembers(run[p].rows, run[p].its, run[p].read)

\* Mutant: the memberships that are no longer wanted stay.
MutantRemoveMembers(p) ==
    Stands(p, "remove") /\ GoOn(p, "create") /\ UNCHANGED <<entry, refusals>>

RemoveMembers(p) ==
    /\ Stands(p, "remove")
    /\ LET gone == {g \in Groups : run[p].read[g] # 0 /\ WantedMembers(p)[g] = 0}
       IN  \/ /\ SetMembers([g \in Groups |-> IF g \in gone THEN 0 ELSE members[g]])
              /\ GoOn(p, "create")
              /\ UNCHANGED refusals
           \/ gone # {} /\ Fail(p, "create")

CreateMembers(p) ==
    /\ Stands(p, "create")
    /\ \/ /\ SetMembers([g \in Groups |-> IF WantedMembers(p)[g] # 0 THEN WantedMembers(p)[g] ELSE members[g]])
          /\ Finish(p)
          /\ UNCHANGED refusals
       \/ Fail(p, "idle")

Proceed(p) ==
    /\ \/ ReadPerson(p) \/ SendPerson(p) \/ DeletePerson(p)
       \/ ReadMembers(p) \/ RemoveMembers(p) \/ CreateMembers(p)
    /\ UNCHANGED <<db, queue, counters>>

PersonsInit ==
    /\ kontexte \in SUBSET Kontexte
    /\ fullName = 1
    /\ enabled \in BOOLEAN
    /\ update = 0
    /\ IF Relevant(kontexte, enabled) = {}
       THEN person = None /\ members = NoMembers
       ELSE /\ person = [name |-> 1, role |-> RoleFor("update", kontexte, enabled)]
            /\ members = [TargetMembers(kontexte, enabled, NoMembers) EXCEPT
                   ![RootGroup] = Min({Lehr, Highest(Relevant(kontexte, enabled))})]
    /\ queue = <<>>
    /\ run = [p \in Processes |-> NoRun]
    /\ events = 0 /\ syncs = 0 /\ refusals = 0
    /\ sound = TRUE

Change == LoadForUpdate \/ UpdateRows \/ RenamePerson \/ NewAddress \/ EnableSchool
Synchronise == LoadPerson \/ LoadRows \/ Proceed("sync")

PersonsNext == Change \/ AskSync \/ Take \/ Synchronise \/ Proceed("handler")

PersonsSpec == PersonsInit /\ [][PersonsNext]_personsVars

\* Handlers go on; nobody has to change anything.
FairPersonsSpec == PersonsSpec /\ WF_personsVars(Take \/ Proceed("handler")) /\ WF_personsVars(Synchronise)

-----------------------------------------------------------------------------
(* Properties.                                                             *)

\* The variables keep their types; nobody is more than LEHR at the root groups,
\* and who is not in itslearning is in no group.
PersonsTypeOK ==
    /\ kontexte \subseteq Kontexte
    /\ fullName \in 1 .. MaxEvents + 1 /\ update \in 0 .. fullName
    /\ enabled \in BOOLEAN /\ sound \in BOOLEAN
    /\ person.name \in 0 .. fullName /\ person.role \in 0 .. Sysadmin
    /\ members \in [Groups -> 0 .. 8]
    /\ members[RootGroup] <= Lehr
    /\ person = None => members = NoMembers
    /\ Len(queue) <= MaxEvents
    /\ events \in 0 .. MaxEvents /\ syncs \in 0 .. MaxSyncs /\ refusals \in 0 .. MaxRefusals

\* itslearning agrees with the database; the role is the handler's or that of the
\* synchronisation, which differ for a person with a higher Rolle elsewhere.
Agrees ==
    LET relevant == Relevant(kontexte, enabled)
    IN  IF relevant = {} THEN person = None
        ELSE /\ person.name = fullName
             /\ \E kind \in {"update", "sync"} : person.role = RoleFor(kind, kontexte, enabled)
             /\ members = TargetMembers(kontexte, enabled, members) /\ members[RootGroup] # 0

\* Once all handlers have ended, itslearning agrees with the database, unless a
\* call failed, a synchronisation met a handler, an update carried an old name or
\* the school was enabled, and no synchronisation has run alone since.
SoundAgrees == AllHandled /\ sound => Agrees

\* Every event's handler gets the mutex and ends, whatever fails before it.
QueueDrains == (queue # <<>>) ~> (queue = <<>> /\ run["handler"].pc = "idle")
=============================================================================
