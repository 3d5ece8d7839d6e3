--------------------------- MODULE LdapDirectory ---------------------------
(***************************************************************************)
(* The directory that follows the database: an entry per teacher and a     *)
(* group of teachers per school.  Handlers of events call the operations   *)
(* of LdapClientService, each a chain of LDAP calls that is tried again as *)
(* a whole when a call fails.  All but the two that change one group take  *)
(* a mutex, which they give back between two tries.                        *)
(***************************************************************************)
EXTENDS Naturals, Sequences, FiniteSets

CONSTANTS
    Persons,
    Kontexte,       \* records [school, art, rolle]
    Mails,          \* addresses
    Retries,        \* RETRY_WRAPPER_DEFAULT_RETRIES
    MaxEvents,      \* bound: events published
    MaxTroubles     \* bound: calls that fail although the directory could do them,
                    \* and events that come while an earlier one is handled

ASSUME LdapAssumption ==
    /\ Retries \in Nat \ {0} /\ MaxEvents \in Nat /\ MaxTroubles \in Nat
    /\ IsFiniteSet(Persons) /\ IsFiniteSet(Kontexte)
    /\ Mails \cap {"", "empty"} = {} /\ "nobody" \notin Persons

VARIABLES
    db,         \* person, Personenkontexte, addresses and externalIds.LDAP
    entries,    \* the directory's entries, by uid
    groups,     \* the members of each school's group; {} when there is none
    mutex,      \* the operation that holds the mutex
    ops,        \* the operations under way
    events,     \* the handlers under way
    troubles,   \* how many calls have failed and how many events overlapped
    synced      \* whose synchronisation was the last event, undisturbed

luck == <<troubles, synced>>
vars == <<db, entries, groups, mutex, ops, events, luck>>

Schools == {k.school : k \in Kontexte}
Names == 1 .. 2                             \* bound: one renaming per person
Uids == Persons \X Names
Nobody == "nobody"
Free == <<>>

Uid(p) == <<p, db[p].name>>
Lehr(k) == k.art = "LEHR"
Teaches(p, s) == \E k \in db[p].kontexte : Lehr(k) /\ k.school = s
Members(uid) == {s \in Schools : uid \in groups[s]}
NoCopies == [s \in Schools |-> {}]

Entry(naming, mail) == [naming |-> naming, mail |-> mail, alt |-> mail]
Request(kind, uid) ==
    [kind |-> kind, uid |-> uid, school |-> "", rolle |-> "", mail |-> "", new |-> 0]

-----------------------------------------------------------------------------
(* The wrapper around an operation, executeWithRetry(), and the mutex.      *)

Kind(o) == o[2].kind
\* Mutant: an operation on an entry without the mutex.
MutantMutexed(o) == Kind(o) \notin {"add", "remove", "keep", "delete"}
Mutexed(o) == Kind(o) \notin {"add", "remove", "keep"}
First(o) == CASE Kind(o) \in {"add", "remove", "create"} -> "search"
              [] Kind(o) = "keep" -> "store"
              [] OTHER -> "lookup"
MayCall(o) == ~Mutexed(o) \/ mutex \in {Free, o}

Begun(o, try) ==
    [pc |-> First(o), try |-> try, inner |-> 1, seen |-> NoCopies, mail |-> ""]
Without(o) == [x \in DOMAIN ops \ {o} |-> ops[x]]
Releases(o) == mutex' = IF mutex = o THEN Free ELSE mutex

\* Where an operation that is called inside another one starts again.
Inner(o) == CASE Kind(o) = "create" /\ ops[o].pc \in {"search", "write"} -> "search"
              [] Kind(o) = "modify" /\ ops[o].pc = "members" -> "members"
              [] OTHER -> ""

\* The operation goes on with what "to" says, at step to.pc.
Continue(o, to) ==
    CASE to.pc = "end" -> ops' = Without(o) /\ Releases(o)
      [] to.pc = "store" -> ops' = [ops EXCEPT ![o] = to] /\ Releases(o)
      [] OTHER -> /\ ops' = [ops EXCEPT ![o] = to]
                  /\ mutex' = IF Mutexed(o) THEN o ELSE mutex
Goto(o, pc) == Continue(o, [ops[o] EXCEPT !.pc = pc])

Fail(o) ==
    \/ /\ Inner(o) # "" /\ ops[o].inner < Retries
       /\ Continue(o, [ops[o] EXCEPT !.pc = Inner(o), !.inner = @ + 1])
    \/ /\ Inner(o) = "" \/ ops[o].inner = Retries
       /\ ops' = IF ops[o].try < Retries
                 THEN [ops EXCEPT ![o] = Begun(o, ops[o].try + 1)]
                 ELSE Without(o)
       /\ Releases(o)

CallFails ==
    /\ troubles < MaxTroubles
    /\ troubles' = troubles + 1
    /\ synced' = Nobody

\* The directory did what it was asked; the answer comes or is lost.
Answered(o, pc) ==
    \/ Goto(o, pc) /\ UNCHANGED luck
    \/ CallFails /\ Fail(o)

Refused(o) == Fail(o) /\ UNCHANGED <<entries, groups, luck>>

-----------------------------------------------------------------------------
(* addPersonToGroup() and removePersonFromGroup()                           *)

Search(o) ==
    /\ ops[o].pc = "search"
    /\ MayCall(o)
    /\ LET r == o[2]
           found == groups[r.school]
           seen == [ops[o].seen EXCEPT ![r.school] = found]
           write == [ops[o] EXCEPT !.pc = "write", !.seen = seen]
       IN  \/ Kind(o) # "remove" /\ r.uid \notin found /\ Continue(o, write)
           \/ Kind(o) # "remove" /\ r.uid \in found
              /\ Goto(o, IF Kind(o) = "add" THEN "end" ELSE "lookup")
           \/ Kind(o) = "remove" /\ r.uid \in found /\ Continue(o, write)
           \/ Kind(o) = "remove" /\ r.uid \notin found /\ Fail(o)
    /\ UNCHANGED <<db, entries, groups, events, luck>>

\* The first member comes with the group, and goes with it.
AddMember(o) ==
    LET s == o[2].school
        uid == o[2].uid
    IN  /\ ops[o].pc = "write" /\ Kind(o) \in {"add", "create"}
        /\ IF /\ (ops[o].seen[s] = {}) = (groups[s] = {})
              /\ uid \notin groups[s]
           THEN /\ groups' = [groups EXCEPT ![s] = @ \cup {uid}]
                /\ Answered(o, IF Kind(o) = "add" THEN "end" ELSE "lookup")
                /\ UNCHANGED entries
           ELSE Refused(o)
        /\ UNCHANGED <<db, events>>

RemoveMember(o) ==
    LET s == o[2].school
        uid == o[2].uid
        whole == ops[o].seen[s] = {uid}
        may == IF whole THEN groups[s] # {}
                        ELSE uid \in groups[s] /\ groups[s] # {uid}
    IN  /\ ops[o].pc = "write" /\ Kind(o) = "remove"
        /\ IF may
           THEN /\ groups' = [groups EXCEPT ![s] = IF whole THEN {} ELSE @ \ {uid}]
                /\ Answered(o, "end")
                /\ UNCHANGED entries
           ELSE Refused(o)
        /\ UNCHANGED <<db, events>>

-----------------------------------------------------------------------------
(* The operations on entries.  Each first looks for the uid.                *)

\* createLehrer() and getPersonAttributes() add the entry that is missing,
\* the others fail.
LookupMissing(o) ==
    /\ o[2].uid \notin DOMAIN entries
    /\ IF Kind(o) \in {"create", "attributes"} THEN Goto(o, "insert") ELSE Fail(o)
    /\ UNCHANGED events

\* createLehrer() has nothing to do when there is an entry: the person it
\* answers with is the event's, as it is.
LookupFound(o) ==
    LET e == o[1]
        found == entries[o[2].uid]
    IN  /\ o[2].uid \in DOMAIN entries
        /\ \/ Kind(o) = "create" /\ Goto(o, "store") /\ UNCHANGED events
           \/ Kind(o) = "modify" /\ Goto(o, "modify") /\ UNCHANGED events
           \/ Kind(o) = "delete" /\ Goto(o, "delete") /\ UNCHANGED events
           \/ Kind(o) = "groups" /\ Goto(o, "members") /\ UNCHANGED events
           \/ /\ Kind(o) = "mail"
              /\ Continue(o, [ops[o] EXCEPT !.pc = "primary", !.mail = found.mail])
              /\ UNCHANGED events
           \/ /\ Kind(o) = "attributes" /\ Goto(o, "end")
              /\ events' = [events EXCEPT ![e] = [events[e] EXCEPT
                     !.mail = found.mail, !.alt = found.alt,
                     !.plan = <<{Request("groups", o[2].uid)}>>]]

Lookup(o) ==
    /\ ops[o].pc = "lookup"
    /\ MayCall(o)
    /\ LookupMissing(o) \/ LookupFound(o)
    /\ UNCHANGED <<db, entries, groups, luck>>

SetEntry(uid, entry) ==
    entries' = [u \in DOMAIN entries \cup {uid} |->
                    IF u = uid THEN entry ELSE entries[u]]

\* createEmptyPersonEntry() writes the word "empty" where createLehrer()
\* writes the person's names and no address.
Insert(o) ==
    /\ ops[o].pc = "insert"
    /\ SetEntry(o[2].uid, IF Kind(o) = "create" THEN Entry(o[2].uid[2], "")
                                                ELSE Entry(0, "empty"))
    /\ Answered(o, "uuid")
    /\ UNCHANGED <<db, groups, events>>

ReadUuid(o) ==
    LET e == o[1]
        plan == IF Kind(o) = "create" THEN events[e].plan
                ELSE <<{Request("groups", o[2].uid)}>>
    IN  /\ ops[o].pc = "uuid"
        /\ Goto(o, "store")
        /\ events' = [events EXCEPT ![e] = [events[e] EXCEPT !.uuid = TRUE, !.plan = plan]]
        /\ UNCHANGED <<db, entries, groups, luck>>

ModifyNames(o) ==
    /\ ops[o].pc = "modify"
    /\ SetEntry(o[2].uid, [entries[o[2].uid] EXCEPT !.naming = o[2].new])
    /\ Answered(o, IF o[2].uid[2] = o[2].new THEN "members" ELSE "rename")
    /\ UNCHANGED <<db, groups, events>>

NewUid(o) == <<o[2].uid[1], o[2].new>>

ModifyDn(o) ==
    LET old == o[2].uid
    IN  /\ ops[o].pc = "rename"
        /\ IF NewUid(o) \notin DOMAIN entries
           THEN /\ entries' = [u \in (DOMAIN entries \ {old}) \cup {NewUid(o)} |->
                                  entries[IF u = NewUid(o) THEN old ELSE u]]
                /\ Answered(o, "members")
                /\ UNCHANGED groups
           ELSE Refused(o)
        /\ UNCHANGED <<db, events>>

Delete(o) ==
    /\ ops[o].pc = "delete"
    /\ entries' = [u \in DOMAIN entries \ {o[2].uid} |-> entries[u]]
    /\ Answered(o, "end")
    /\ UNCHANGED <<db, groups, events>>

Primary(o) ==
    /\ ops[o].pc = "primary"
    /\ SetEntry(o[2].uid, [entries[o[2].uid] EXCEPT !.mail = o[2].mail])
    /\ Answered(o, "alt")
    /\ UNCHANGED <<db, groups, events>>

\* The alternative address is the primary one that this try has read.
Alternative(o) ==
    /\ ops[o].pc = "alt"
    /\ SetEntry(o[2].uid, [entries[o[2].uid] EXCEPT !.alt = ops[o].mail])
    /\ Answered(o, "end")
    /\ UNCHANGED <<db, groups, events>>

\* Mutant: the groups are looked for by the new uid.
MutantCopyMembers(o) ==
    LET found == Members(NewUid(o))
        copies == [s \in Schools |-> IF s \in found THEN groups[s] ELSE {}]
    IN  /\ ops[o].pc = "members" /\ Kind(o) = "modify"
        /\ Continue(o, [ops[o] EXCEPT !.seen = copies,
                            !.pc = IF copies = NoCopies THEN "end" ELSE "replace"])
        /\ UNCHANGED <<db, entries, groups, events, luck>>

\* updateMemberDnInGroups() copies the members of the groups it finds.
CopyMembers(o) ==
    LET copies == [s \in Schools |-> IF s \in Members(o[2].uid) THEN groups[s] ELSE {}]
    IN  /\ ops[o].pc = "members" /\ Kind(o) = "modify"
        /\ Continue(o, [ops[o] EXCEPT !.seen = copies,
                            !.pc = IF copies = NoCopies THEN "end" ELSE "replace"])
        /\ UNCHANGED <<db, entries, groups, events, luck>>

\* Each group is given its copy with the new uid for the old one, all at once
\* and in any order; what the directory refuses, or fails to do, is logged.
Replace(o, s) ==
    LET copy == ops[o].seen[s]
        left == [ops[o].seen EXCEPT ![s] = {}]
        done == groups[s] # {} /\ (NewUid(o) = o[2].uid \/ NewUid(o) \notin copy)
        members == [groups EXCEPT ![s] = (copy \ {o[2].uid}) \cup {NewUid(o)}]
    IN  /\ ops[o].pc = "replace" /\ copy # {}
        /\ \/ groups' = (IF done THEN members ELSE groups) /\ UNCHANGED luck
           \/ groups' \in {members, groups} /\ done /\ CallFails
        /\ Continue(o, [ops[o] EXCEPT !.seen = left,
                            !.pc = IF left = NoCopies THEN "end" ELSE "replace"])
        /\ UNCHANGED <<db, entries, events>>

\* Any call may fail before it has an effect, that of Replace apart.
CallLost(o) ==
    /\ ops[o].pc \notin {"store", "replace"}
    /\ MayCall(o)
    /\ CallFails
    /\ Fail(o)
    /\ UNCHANGED <<db, entries, groups, events>>

-----------------------------------------------------------------------------
(* The handlers: an event's plan is a sequence of sets of requests, each    *)
(* set made when the one before it is answered.                             *)

\* What a handler does after its last call: externalIds.LDAP, or a disabled
\* address that only the directory knew.
Store(o) ==
    LET p == o[2].uid[1]
    IN  /\ ops[o].pc = "store"
        /\ db' = IF db[p].gone THEN db
                 ELSE [db EXCEPT ![p] =
                          IF Kind(o) = "keep"
                          THEN [db[p] EXCEPT !.old = db[p].old \cup {o[2].mail}]
                          ELSE [db[p] EXCEPT !.uuid = events[o[1]].uuid]]
        /\ Goto(o, "end")
        /\ UNCHANGED <<entries, groups, events, luck>>

\* Mutant: a group of a former school is kept.
MutantLists(uid, wanted, member) ==
    {[Request("add", uid) EXCEPT !.school = k.school, !.rolle = k.rolle] :
        k \in {x \in wanted : x.school \notin member}}

\* What the person's groups lack, once per Rolle, and what they should not have.
Lists(uid, wanted, member) ==
    {[Request("add", uid) EXCEPT !.school = k.school, !.rolle = k.rolle] :
        k \in {x \in wanted : x.school \notin member}} \cup
    {[Request("remove", uid) EXCEPT !.school = s] :
        s \in member \ {k.school : k \in wanted}}

\* syncDataToLdap()
SyncPlan(e, uid, member) ==
    LET ev == events[e]
        change == {[Request("mail", uid) EXCEPT !.mail = ev.data.mail]}
        keep == {[Request("keep", uid) EXCEPT !.mail = ev.alt]}
        wanted == {k \in ev.data.kontexte : Lehr(k)}
        names == {[Request("modify", uid) EXCEPT !.new = uid[2]]}
        lists == Lists(uid, wanted, member)
    IN  IF ev.mail = ev.data.mail THEN <<names, lists>>
        ELSE IF ev.mail = "" \/ ev.alt = "" THEN <<change, names, lists>>
        ELSE <<change, keep, names, lists>>

\* The address in the directory is neither the person's nor a former one.
SyncAborts(ev) == ev.mail \notin {"", ev.data.mail} \cup ev.data.old

GroupsFound(o) ==
    LET e == o[1]
        aborts == SyncAborts(events[e])
        plan == IF aborts THEN <<>> ELSE SyncPlan(e, o[2].uid, Members(o[2].uid))
    IN  /\ ops[o].pc = "members" /\ Kind(o) = "groups"
        /\ Goto(o, "end")
        /\ events' = [events EXCEPT ![e] = [events[e] EXCEPT !.plan = plan]]
        /\ synced' = IF aborts THEN Nobody ELSE synced
        /\ UNCHANGED <<db, entries, groups, troubles>>

OpsOf(e) == {o \in DOMAIN ops : o[1] = e}

Advance(e) ==
    LET next == {e} \X Head(events[e].plan)
        rest == Tail(events[e].plan)
    IN  /\ events[e].plan # <<>> /\ OpsOf(e) = {}
        /\ ops' = [o \in DOMAIN ops \cup next |->
                       IF o \in DOMAIN ops THEN ops[o] ELSE Begun(o, 1)]
        /\ events' = [events EXCEPT ![e] = [events[e] EXCEPT !.plan = rest]]
        /\ UNCHANGED <<db, entries, groups, mutex, luck>>

Over == [plan |-> <<>>, uuid |-> FALSE, mail |-> "", alt |-> "", data |-> <<>>]

Return(e) ==
    /\ events[e].plan = <<>> /\ OpsOf(e) = {} /\ events[e] # Over
    /\ events' = [events EXCEPT ![e] = Over]
    /\ UNCHANGED <<db, entries, groups, mutex, ops, luck>>

Quiet == DOMAIN ops = {} /\ \A e \in DOMAIN events : events[e] = Over

Event(p, plan) ==
    [plan |-> plan, uuid |-> FALSE, mail |-> "", alt |-> "", data |-> db'[p]]

\* The database has changed, and the handlers of the events start.
Publish(new) ==
    /\ Len(events) + Len(new) <= MaxEvents
    /\ events' = events \o new
    /\ IF Quiet THEN troubles' = troubles
                ELSE troubles < MaxTroubles /\ troubles' = troubles + 1
    /\ UNCHANGED <<entries, groups, mutex, ops>>

Removals(uid, removed, current) ==
    {[Request("remove", uid) EXCEPT !.school = k.school, !.rolle = k.rolle] :
        k \in {x \in removed : Lehr(x) /\ ~\E c \in current : c.school = x.school}}
Creations(uid, created) ==
    {[Request("create", uid) EXCEPT !.school = k.school, !.rolle = k.rolle] :
        k \in {x \in created : Lehr(x)}}

Update(p, kontexte) ==
    LET old == db[p].kontexte
        plan == <<Removals(Uid(p), old \ kontexte, kontexte),
                  Creations(Uid(p), kontexte \ old)>>
    IN  /\ kontexte # old
        /\ db' = [db EXCEPT ![p] = [db[p] EXCEPT !.kontexte = kontexte]]
        /\ Publish(<<Event(p, plan)>>)
        /\ synced' = Nobody

Rename(p) ==
    LET name == db[p].name + 1
        request == [Request("modify", Uid(p)) EXCEPT !.new = name]
    IN  /\ name \in Names
        /\ db' = [db EXCEPT ![p] = [db[p] EXCEPT !.name = name]]
        /\ Publish(<<Event(p, <<{request}>>)>>)
        /\ synced' = Nobody

ChangeMail(p, mail) ==
    LET request == [Request("mail", Uid(p)) EXCEPT !.mail = mail]
    IN  /\ mail \notin db[p].old \cup {db[p].mail}
        /\ db' = [db EXCEPT ![p] = [db[p] EXCEPT
               !.mail = mail, !.old = db[p].old \cup ({db[p].mail} \ {""})]]
        /\ Publish(<<Event(p, <<{request}>>)>>)
        /\ synced' = Nobody

\* deletePerson() publishes two events, one after the other.
DeletePerson(p) ==
    /\ db' = [db EXCEPT ![p] = [db[p] EXCEPT !.gone = TRUE, !.kontexte = {}]]
    /\ Publish(<<Event(p, <<Removals(Uid(p), db[p].kontexte, {})>>),
                 Event(p, <<{Request("delete", Uid(p))}>>)>>)
    /\ synced' = Nobody

\* fetchDataAndSync() gives up without an enabled address or a Personenkontext.
Sync(p) ==
    /\ db[p].mail # "" /\ db[p].kontexte # {}
    /\ UNCHANGED db
    /\ Publish(<<Event(p, <<{Request("attributes", Uid(p))}>>)>>)
    /\ synced' = IF Quiet THEN p ELSE Nobody

Publishes ==
    \E p \in Persons :
        /\ ~db[p].gone
        /\ \/ \E kontexte \in SUBSET Kontexte : Update(p, kontexte)
           \/ Rename(p)
           \/ \E mail \in Mails : ChangeMail(p, mail)
           \/ DeletePerson(p)
           \/ Sync(p)

\* The directory mirrors whatever the database holds, but for the persons whose
\* removal from a group has failed before.
Init ==
    /\ \E has \in [Persons -> SUBSET Kontexte],
          addressed \in [Persons -> Mails \cup {""}],
          left \in SUBSET (Persons \X Schools) :
           /\ \A l \in left : \A k \in has[l[1]] : k.school # l[2]
           /\ Cardinality(left) <= MaxTroubles
           /\ troubles = Cardinality(left)
           /\ db = [p \in Persons |->
                  [name |-> 1, kontexte |-> has[p], mail |-> addressed[p], old |-> {},
                   uuid |-> \/ \E k \in has[p] : Lehr(k)
                            \/ \E s \in Schools : <<p, s>> \in left,
                   gone |-> FALSE]]
           /\ groups = [s \in Schools |-> {Uid(p) : p \in
                  {x \in Persons : Teaches(x, s) \/ <<x, s>> \in left}}]
    /\ entries = [u \in {Uid(p) : p \in {x \in Persons : db[x].uuid}} |->
                     Entry(1, db[u[1]].mail)]
    /\ mutex = Free
    /\ ops = <<>>
    /\ events = <<>>
    /\ synced = Nobody

Step(o) ==
    \/ Search(o) \/ AddMember(o) \/ RemoveMember(o)
    \/ Lookup(o) \/ Insert(o) \/ ReadUuid(o)
    \/ ModifyNames(o) \/ ModifyDn(o) \/ CopyMembers(o)
    \/ \E s \in Schools : Replace(o, s)
    \/ Delete(o) \/ Primary(o) \/ Alternative(o)
    \/ GroupsFound(o) \/ Store(o) \/ CallLost(o)

Idle == Quiet /\ UNCHANGED vars

Next ==
    \/ Publishes
    \/ \E e \in DOMAIN events : Advance(e) \/ Return(e)
    \/ \E o \in DOMAIN ops : Step(o)
    \/ Idle

Spec == Init /\ [][Next]_vars

-----------------------------------------------------------------------------
\* Every variable holds what the code can put there; in particular no try or
\* nested try goes beyond the number of tries.
TypeOK ==
    /\ \A p \in Persons : /\ db[p].name \in Names /\ db[p].kontexte \subseteq Kontexte
                          /\ db[p].mail \in Mails \cup {""}
    /\ DOMAIN entries \subseteq Uids
    /\ \A u \in DOMAIN entries : entries[u].naming \in Names \cup {0}
    /\ groups \in [Schools -> SUBSET Uids]
    /\ mutex \in {Free} \cup DOMAIN ops
    /\ \A o \in DOMAIN ops :
           /\ o[1] \in DOMAIN events
           /\ ops[o].try \in 1 .. Retries /\ ops[o].inner \in 1 .. Retries
           /\ ops[o].seen \in [Schools -> SUBSET Uids]
    /\ troubles \in 0 .. MaxTroubles
    /\ synced \in Persons \cup {Nobody}

\* What an operation has looked up under the mutex still holds when it
\* writes: nobody has added, renamed or deleted the entry, or changed the
\* address that becomes the alternative one (runExclusive()).
LookupHolds ==
    \A o \in DOMAIN ops :
        LET uid == o[2].uid
        IN  /\ ops[o].pc = "insert" => uid \notin DOMAIN entries
            /\ ops[o].pc \in {"modify", "rename", "delete", "primary", "alt"}
                   => mutex = o /\ uid \in DOMAIN entries
            /\ ops[o].pc = "primary" => entries[uid].mail = ops[o].mail

Calm == Quiet /\ troubles = 0
Living == {p \in Persons : ~db[p].gone}

\* The groups hold teachers only (the tests of handlePersonenkontextUpdated-
\* Event() in ldap-event-handler.spec.ts: removed unless a Personenkontext
\* "with rollenArt LEHR" is left), when no call has failed and every event was
\* handled before the next one came.
TeachersOnly ==
    Calm => \A s \in Schools :
        groups[s] \subseteq {Uid(p) : p \in {x \in Living : Teaches(x, s)}}

\* Under the same conditions, where every Rolle is a teacher's, the directory
\* holds the teachers and nobody else: a school's group has its teachers, a
\* teacher has an entry under the current username, no former username and no
\* deleted person is left, and no entry has a former address.
CalmMirrors ==
    /\ TeachersOnly
    /\ Calm =>
        /\ DOMAIN entries \subseteq {Uid(p) : p \in Living}
        /\ \A p \in Living :
               /\ \A s \in Schools : Teaches(p, s) =>
                      Uid(p) \in groups[s] \cap DOMAIN entries
               /\ Uid(p) \in DOMAIN entries =>
                      /\ entries[Uid(p)].naming = db[p].name
                      /\ entries[Uid(p)].mail \in {"", db[p].mail}

\* Whatever has gone wrong before, a synchronisation that nothing disturbs,
\* and that does not stop at an unknown address, leaves the person's entry,
\* address and groups as the database has them (fetchDataAndSync()).
SyncMirrors ==
    \A p \in Persons : Quiet /\ synced = p =>
        /\ Uid(p) \in DOMAIN entries
        /\ entries[Uid(p)].mail = db[p].mail
        /\ entries[Uid(p)].naming = db[p].name
        /\ Members(Uid(p)) = {s \in Schools : Teaches(p, s)}
=============================================================================
