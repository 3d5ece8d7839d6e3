----------------------- MODULE PersonenkontexteUpdate -----------------------
(***************************************************************************)
(* The workflow that replaces the Personenkontexte of one person: the      *)
(* method update() of PersonenkontexteUpdate, called by an administrator   *)
(* with what an earlier page load showed, or by the cron job that removes  *)
(* expired Befristungen.  Calls run concurrently; every await of the code  *)
(* is a point where another call may run, so a call is a process with a pc.*)
(* No transaction and no lock spans a call: the only protections are the   *)
(* count / lastModified check of validate() and the unique constraint of   *)
(* the table.  PersonDeleteService.deletePerson runs beside the calls.     *)
(***************************************************************************)
EXTENDS Naturals, FiniteSets

CONSTANTS
    Clients,        \* update() calls made for an administrator's page
    CronCalls,      \* update() calls made by the cron job kontext-expired
    Deletions,      \* deletePerson() calls
    Keys,           \* the (organisation, rolle) pairs a kontext can have
    RollenartOf,    \* the Rollenart of the rolle of a key
    BefristungPflicht, \* the keys whose rolle has the merkmal BEFRISTUNG_PFLICHT
    Fristen,        \* values of befristung
    Unbefristet,    \* the member of Fristen that stands for undefined
    Vergangen,      \* the members of Fristen that lie before the current time
    Abgelaufen,     \* those of them that lie before the current day
    Faults,         \* database operations that may fail: delete and insert of
                    \* a kontext, save and remove of the person
    MaxParallel     \* bound on calls that are between their first and last await

Calls == Clients \cup CronCalls

ASSUME CallsAssumption ==
    /\ Clients \cap CronCalls = {}
    /\ Calls \cap Deletions = {}
ASSUME DataAssumption ==
    /\ Unbefristet \in Fristen
    /\ Vergangen \subseteq Fristen \ {Unbefristet}
    /\ Abgelaufen \subseteq Vergangen
    /\ BefristungPflicht \subseteq Keys
    /\ Faults \subseteq {"delete", "insert", "save", "remove"}

VARIABLES
    db,         \* the rows of table personenkontext of this person
    person,     \* the person's row exists
    unassigned, \* orgUnassignmentDate of the person is set
    clock,      \* the newest createdAt/updatedAt that was ever given out
    known,      \* the keys a consumer knows that replays new/removed of the events
    pc,         \* where each call is
    view,       \* the rows a caller saw when it prepared its call
    asOf,       \* the time at which the cron job called commit
    sent,       \* the kontexte of the request body
    old,        \* the rows that getSentPersonenkontexte found for them
    todo,       \* what the current loop still has to visit
    existing,   \* existingPKs, read by update()
    deleted,    \* deletedPKs, the result of delete()
    created,    \* createdPKs, the result of add()
    inserting,  \* the row that add() is inserting, with its time, not yet visible
    after,      \* existingPKsAfterUpdate
    dateSeen,   \* orgUnassignmentDate is set in the loaded person
    overtaken   \* history: the clients whose page showed a row that was no older
                \* than one still being inserted

callVars == <<pc, view, asOf, sent, old, todo, existing, deleted, created,
              inserting, after, dateSeen, overtaken>>
vars == <<db, person, unassigned, clock, known, callVars>>

Kontext == [key : Keys, frist : Fristen]
Row     == [key : Keys, frist : Fristen, stamp : Nat]

Steps == {"idle", "prepared", "reading", "read", "checked", "delete", "add",
          "reread", "loaded", "saved", "rejected", "failed", "unknown", "published"}
DeletionSteps == {"idle", "collected", "announced", "rejected", "failed", "gone"}

\* Rows compare with the kontexte of a body by key and befristung (update,
\* delete and add), never by id.
KontextOf(row) == [key |-> row.key, frist |-> row.frist]
KontexteOf(rows) == {KontextOf(row) : row \in rows}
KeysOf(ks) == {k.key : k \in ks}

\* Calls whose update() has begun and not returned.
Running == {c \in Calls : pc[c] \notin
               {"idle", "prepared", "rejected", "failed", "unknown", "published"}}
             \cup {d \in Deletions : pc[d] \in {"collected", "announced"}}
MayStart == Cardinality(Running) < MaxParallel

\* A person that was saved before: its rows were loaded at time 1, their keys
\* are distinct, their rollen have one Rollenart, and orgUnassignmentDate is
\* set exactly if the last update left no row.
Init ==
    /\ db \in SUBSET [key : Keys, frist : Fristen, stamp : {1}]
    /\ IsFiniteSet(db)
    /\ \A x, y \in db : x.key = y.key => x = y
    /\ \A x, y \in db : RollenartOf[x.key] = RollenartOf[y.key]
    /\ \A x \in db : x.key \in BefristungPflicht => x.frist # Unbefristet
    /\ person = TRUE
    /\ unassigned = (db = {})
    /\ clock = 1
    /\ known = KeysOf(db)
    /\ pc = [c \in Calls \cup Deletions |-> "idle"]
    /\ view = [c \in Calls \cup Deletions |-> {}]
    /\ asOf = [c \in Calls |-> 0]
    /\ sent = [c \in Calls |-> {}]
    /\ old = [c \in Calls |-> {}]
    /\ todo = [c \in Calls |-> {}]
    /\ existing = [c \in Calls |-> {}]
    /\ deleted = [c \in Calls |-> {}]
    /\ created = [c \in Calls |-> {}]
    /\ inserting = [c \in Calls |-> {}]
    /\ after = [c \in Calls |-> {}]
    /\ dateSeen = [c \in Calls |-> FALSE]
    /\ overtaken = {}

-----------------------------------------------------------------------------
(* Preparing a call.                                                       *)

\* A row whose time was taken before, and that is not visible yet, is no newer
\* than one that the table shows.
RowIsUnderWay == \E e \in Calls : \E row \in inserting[e], shown \in db : shown.stamp >= row.stamp

\* The page shows the kontexte and the newest updatedAt (createZuordnungen-
\* ForKontexte); the cron job loads the kontexte of persons with at least one
\* befristung in the past.
Prepare(c) ==
    /\ pc[c] = "idle"
    /\ person
    /\ c \in CronCalls => \E row \in db : row.frist \in Vergangen
    /\ view' = [view EXCEPT ![c] = db]
    /\ pc' = [pc EXCEPT ![c] = "prepared"]
    /\ overtaken' = IF c \in Clients /\ RowIsUnderWay THEN overtaken \cup {c} ELSE overtaken
    /\ UNCHANGED <<db, person, unassigned, clock, known, asOf, sent, old, todo,
                   existing, deleted, created, inserting, after, dateSeen>>

\* The call of update() with the body ks; count and lastModified are those of
\* the view for an administrator, the view's count and the current time for
\* the cron job.
Begin(c, ks) ==
    /\ pc[c] = "prepared"
    /\ MayStart
    /\ sent' = [sent EXCEPT ![c] = ks]
    /\ todo' = [todo EXCEPT ![c] = ks]
    /\ asOf' = [asOf EXCEPT ![c] = clock]
    /\ pc' = [pc EXCEPT ![c] = "reading"]
    /\ UNCHANGED <<db, person, unassigned, clock, known, view, old, existing,
                   deleted, created, inserting, after, dateSeen, overtaken>>

\* The administrator asks for any kontexte.
Submit(c) == c \in Clients /\ \E ks \in SUBSET Kontext : Begin(c, ks)

\* removePersonenKontexteWithExpiredBefristungFromUsers keeps what has not expired.
SubmitCron(c) ==
    /\ c \in CronCalls
    /\ Begin(c, {k \in KontexteOf(view[c]) : k.frist \notin Abgelaufen})

-----------------------------------------------------------------------------
(* update()                                                                *)

\* One turn of the loop of getSentPersonenkontexte: a kontext that the table
\* has with the same befristung keeps its id (old), another one is new.
FindSent(c) ==
    /\ pc[c] = "reading"
    /\ \E k \in todo[c] :
        /\ todo' = [todo EXCEPT ![c] = @ \ {k}]
        /\ old' = [old EXCEPT ![c] = @ \cup {row \in db : KontextOf(row) = k}]
    /\ UNCHANGED <<db, person, unassigned, clock, known, pc, view, asOf, sent,
                   existing, deleted, created, inserting, after, dateSeen, overtaken>>

ReadExisting(c) ==
    /\ pc[c] = "reading"
    /\ todo[c] = {}
    /\ existing' = [existing EXCEPT ![c] = db]
    /\ pc' = [pc EXCEPT ![c] = "read"]
    /\ UNCHANGED <<db, person, unassigned, clock, known, view, asOf, sent, old,
                   todo, deleted, created, inserting, after, dateSeen, overtaken>>

\* Mutant: the kontexte of the table are not consulted.
MutantRollenartOk(ks, rows) ==
    \A k, l \in ks : RollenartOf[k.key] = RollenartOf[l.key]

\* CheckRollenartSpecification reads the table again, and compares with the
\* Rollenart of the first role it finds there: any of them.
RollenartOk(ks, rows) ==
    \/ ks = {}
    \/ rows = {} /\ \A k, l \in ks : RollenartOf[k.key] = RollenartOf[l.key]
    \/ \E row \in rows : \A k \in ks : RollenartOf[k.key] = RollenartOf[row.key]

\* Mutant: some instead of every.
MutantBefristungOk(ks) ==
    ks = {} \/ \E k \in ks : k.key \in BefristungPflicht => k.frist # Unbefristet

BefristungOk(ks) == \A k \in ks : k.key \in BefristungPflicht => k.frist # Unbefristet

CheckSpecifications(c) ==
    /\ pc[c] = "read"
    /\ pc' = [pc EXCEPT ![c] = IF RollenartOk(sent[c], db) /\ BefristungOk(sent[c])
                               THEN "checked" ELSE "rejected"]
    /\ UNCHANGED <<db, person, unassigned, clock, known, view, asOf, sent, old,
                   todo, existing, deleted, created, inserting, after, dateSeen, overtaken>>

\* Mutant: every caller is compared as the cron job is, by the present time.
MutantOutdated(c) == \E row \in existing[c] : row.stamp > clock

\* A row of the table is newer than what the caller knows: newer than every
\* row it saw, or than the time at which the cron job called commit.
Outdated(c) ==
    \E row \in existing[c] :
        IF c \in CronCalls THEN row.stamp > asOf[c]
                           ELSE \A seen \in view[c] : row.stamp > seen.stamp

\* validate() and checkPermissionsForChanged(), whose outcome is the caller's
\* business.  The person is loaded here, with its orgUnassignmentDate.
Validate(c) ==
    /\ pc[c] = "checked"
    /\ dateSeen' = [dateSeen EXCEPT ![c] = unassigned]
    /\ \E permitted \in BOOLEAN :
        IF /\ person
           /\ Cardinality(existing[c]) = Cardinality(view[c])
           /\ ~Outdated(c)
           /\ permitted
        THEN /\ pc' = [pc EXCEPT ![c] = "delete"]
             /\ todo' = [todo EXCEPT ![c] =
                           {row \in existing[c] : KontextOf(row) \notin sent[c]}]
        ELSE /\ pc' = [pc EXCEPT ![c] = "rejected"]
             /\ UNCHANGED todo
    /\ UNCHANGED <<db, person, unassigned, clock, known, view, asOf, sent, old,
                   existing, deleted, created, inserting, after, overtaken>>

\* One turn of the loop of delete(): the row is named by its key, so whatever
\* row has this key now goes, and none is no error.  A failure is only logged.
DeleteOne(c) ==
    /\ pc[c] = "delete"
    /\ \E row \in todo[c] :
        /\ todo' = [todo EXCEPT ![c] = @ \ {row}]
        /\ \/ /\ db' = {r \in db : r.key # row.key}
              /\ deleted' = [deleted EXCEPT ![c] = @ \cup {row}]
           \/ /\ "delete" \in Faults
              /\ UNCHANGED <<db, deleted>>
    /\ UNCHANGED <<person, unassigned, clock, known, pc, view, asOf, sent, old,
                   existing, created, inserting, after, dateSeen, overtaken>>

DeleteDone(c) ==
    /\ pc[c] = "delete"
    /\ todo[c] = {}
    /\ pc' = [pc EXCEPT ![c] = "add"]
    /\ todo' = [todo EXCEPT ![c] = sent[c] \ KontexteOf(existing[c])]
    /\ UNCHANGED <<db, person, unassigned, clock, known, view, asOf, sent, old,
                   existing, deleted, created, inserting, after, dateSeen, overtaken>>

\* create() of the internal repo: a new row.  Its time is taken when the row is
\* flushed, before the statement is sent, so a row with a later time of another
\* call may be there first.
StampRow(c, k) ==
    /\ k \notin KontexteOf(old[c])
    /\ inserting' = [inserting EXCEPT ![c] =
                        {[key |-> k.key, frist |-> k.frist, stamp |-> clock + 1]}]
    /\ clock' = clock + 1
    /\ UNCHANGED created

\* update() of the internal repo, for a kontext that had an id when it was
\* looked up: it writes no new row, and reports success if the entity manager
\* still holds the entity of the deleted row.
UpdateRow(c, k) ==
    /\ \E row \in old[c] :
        /\ KontextOf(row) = k
        /\ created' = [created EXCEPT ![c] = @ \cup {row}]
    /\ UNCHANGED <<clock, inserting>>

\* The row that had the id is gone, or a database failure: logged.
NotUpdated(c, k) ==
    /\ k \in KontexteOf(old[c])
    /\ UNCHANGED <<clock, created, inserting>>

\* One turn of the loop of add(), up to the INSERT of a new row.
AddOne(c) ==
    /\ pc[c] = "add"
    /\ inserting[c] = {}
    /\ \E k \in todo[c] :
        /\ todo' = [todo EXCEPT ![c] = @ \ {k}]
        /\ StampRow(c, k) \/ UpdateRow(c, k) \/ NotUpdated(c, k)
    /\ UNCHANGED <<db, person, unassigned, known, pc, view, asOf, sent, old,
                   existing, deleted, after, dateSeen, overtaken>>

\* The foreign key and the unique constraint of the table.
MayInsert(new) == person /\ \A row \in db : row.key # new.key

\* Mutant: the new row is not reported as created.
MutantInsertRow(c, new) ==
    /\ MayInsert(new)
    /\ db' = db \cup {new}
    /\ UNCHANGED created

\* The row is committed, and reported as created.
InsertRow(c, new) ==
    /\ MayInsert(new)
    /\ db' = db \cup {new}
    /\ created' = [created EXCEPT ![c] = @ \cup {new}]

\* Mutant: the kontext is reported as created before it is saved.
MutantNotInserted(c, new) ==
    /\ ~MayInsert(new) \/ "insert" \in Faults
    /\ created' = [created EXCEPT ![c] = @ \cup {new}]
    /\ UNCHANGED db

\* A violated constraint or a database failure: logged.
NotInserted(c, new) ==
    /\ ~MayInsert(new) \/ "insert" \in Faults
    /\ UNCHANGED <<db, created>>

\* The end of that turn: the INSERT is committed or fails.
InsertOne(c) ==
    /\ pc[c] = "add"
    /\ \E new \in inserting[c] : InsertRow(c, new) \/ NotInserted(c, new)
    /\ inserting' = [inserting EXCEPT ![c] = {}]
    /\ UNCHANGED <<person, unassigned, clock, known, pc, view, asOf, sent, old, todo,
                   existing, deleted, after, dateSeen, overtaken>>

\* Mutant: the call waits until everything that it was sent is in the table.
MutantReread(c) ==
    /\ pc[c] = "add"
    /\ todo[c] = {}
    /\ inserting[c] = {}
    /\ \A k \in sent[c] : k.key \in KeysOf(db)
    /\ after' = [after EXCEPT ![c] = db]
    /\ pc' = [pc EXCEPT ![c] = "reread"]
    /\ UNCHANGED <<db, person, unassigned, clock, known, view, asOf, sent, old, todo,
                   existing, deleted, created, inserting, dateSeen, overtaken>>

Reread(c) ==
    /\ pc[c] = "add"
    /\ todo[c] = {}
    /\ inserting[c] = {}
    /\ after' = [after EXCEPT ![c] = db]
    /\ pc' = [pc EXCEPT ![c] = "reread"]
    /\ UNCHANGED <<db, person, unassigned, clock, known, view, asOf, sent, old,
                   todo, existing, deleted, created, inserting, dateSeen, overtaken>>

\* findById returns the person the request's entity manager holds since
\* validate(), or reads it again.
LoadPerson(c) ==
    /\ pc[c] = "reread"
    /\ \E date \in {dateSeen[c], unassigned} : dateSeen' = [dateSeen EXCEPT ![c] = date]
    /\ pc' = [pc EXCEPT ![c] = "loaded"]
    /\ UNCHANGED <<db, person, unassigned, clock, known, view, asOf, sent, old,
                   todo, existing, deleted, created, inserting, after, overtaken>>

\* Mutant: a date is never cleared.
MutantSaveKeepsDate(c, set) ==
    /\ unassigned' = (unassigned \/ (person /\ set))
    /\ pc' = [pc EXCEPT ![c] = "saved"]

Save(c, set) ==
    /\ unassigned' = IF person THEN set ELSE unassigned
    /\ pc' = [pc EXCEPT ![c] = "saved"]

\* orgUnassignmentDate is set if no kontext is left, cleared if one is there
\* and the date is in the loaded person.
SavePerson(c) ==
    /\ pc[c] = "loaded"
    /\ IF after[c] = {} THEN Save(c, TRUE)
       ELSE IF dateSeen[c] THEN Save(c, FALSE) ELSE Save(c, unassigned)
    /\ UNCHANGED <<db, person, clock, known, view, asOf, sent, old, todo,
                   existing, deleted, created, inserting, after, dateSeen, overtaken>>

\* Saving the date, or the personalnummer that a call may bring, throws:
\* update() ends there, and no event is published.
SaveFails(c) ==
    /\ pc[c] = "loaded"
    /\ ~person \/ "save" \in Faults
    /\ pc' = [pc EXCEPT ![c] = "failed"]
    /\ UNCHANGED <<db, person, unassigned, clock, known, view, asOf, sent, old,
                   todo, existing, deleted, created, inserting, after, dateSeen, overtaken>>

\* publishEvent(): a consumer removes what the event says was removed and adds
\* what it says is new; the event names kontexte by organisation and rolle.
PublishEvent(c) ==
    /\ pc[c] = "saved"
    /\ known' = (known \ KeysOf(deleted[c])) \cup KeysOf(created[c])
    /\ pc' = [pc EXCEPT ![c] = "published"]
    /\ UNCHANGED <<db, person, unassigned, clock, view, asOf, sent, old, todo,
                   existing, deleted, created, inserting, after, dateSeen, overtaken>>

\* publishEvent() finds no person and returns without an event.
PublishNothing(c) ==
    /\ pc[c] = "saved"
    /\ ~person
    /\ pc' = [pc EXCEPT ![c] = "unknown"]
    /\ UNCHANGED <<db, person, unassigned, clock, known, view, asOf, sent, old,
                   todo, existing, deleted, created, inserting, after, dateSeen, overtaken>>

-----------------------------------------------------------------------------
(* deletePerson()                                                          *)

\* getPersonkontextData().
Collect(d) ==
    /\ pc[d] = "idle"
    /\ person
    /\ MayStart
    /\ view' = [view EXCEPT ![d] = db]
    /\ pc' = [pc EXCEPT ![d] = "collected"]
    /\ UNCHANGED <<db, person, unassigned, clock, known, asOf, sent, old, todo,
                   existing, deleted, created, inserting, after, dateSeen, overtaken>>

\* The events go out before the row does.
Announce(d) ==
    /\ pc[d] = "collected"
    /\ person
    /\ known' = known \ KeysOf(view[d])
    /\ pc' = [pc EXCEPT ![d] = "announced"]
    /\ UNCHANGED <<db, person, unassigned, clock, view, asOf, sent, old, todo,
                   existing, deleted, created, inserting, after, dateSeen, overtaken>>

\* The person is gone, or the caller may not delete it.
DeletionRejected(d) ==
    /\ pc[d] = "collected"
    /\ pc' = [pc EXCEPT ![d] = "rejected"]
    /\ UNCHANGED <<db, person, unassigned, clock, known, view, asOf, sent, old,
                   todo, existing, deleted, created, inserting, after, dateSeen, overtaken>>

\* The kontexte go with the person (on delete cascade).
RemovePerson(d) ==
    /\ pc[d] = "announced"
    /\ person' = FALSE
    /\ db' = {}
    /\ pc' = [pc EXCEPT ![d] = "gone"]
    /\ UNCHANGED <<unassigned, clock, known, view, asOf, sent, old, todo,
                   existing, deleted, created, inserting, after, dateSeen, overtaken>>

RemovePersonFails(d) ==
    /\ pc[d] = "announced"
    /\ "remove" \in Faults
    /\ pc' = [pc EXCEPT ![d] = "failed"]
    /\ UNCHANGED <<db, person, unassigned, clock, known, view, asOf, sent, old,
                   todo, existing, deleted, created, inserting, after, dateSeen, overtaken>>

-----------------------------------------------------------------------------
\* The steps of update() and of deletePerson() once they have begun.
Update(c) ==
    \/ FindSent(c) \/ ReadExisting(c) \/ CheckSpecifications(c) \/ Validate(c)
    \/ DeleteOne(c) \/ DeleteDone(c) \/ AddOne(c) \/ InsertOne(c) \/ Reread(c)
    \/ LoadPerson(c) \/ SavePerson(c) \/ SaveFails(c)
    \/ PublishEvent(c) \/ PublishNothing(c)

DeletePerson(d) ==
    Announce(d) \/ DeletionRejected(d) \/ RemovePerson(d) \/ RemovePersonFails(d)

Next ==
    \/ \E c \in Calls : Prepare(c) \/ Submit(c) \/ SubmitCron(c) \/ Update(c)
    \/ \E d \in Deletions : Collect(d) \/ DeletePerson(d)

Spec == Init /\ [][Next]_vars

\* Nobody has to make a call; the event loop runs every call that was made.
Fairness ==
    /\ \A c \in Calls : WF_vars(Update(c))
    /\ \A d \in Deletions : WF_vars(DeletePerson(d))
FairSpec == Spec /\ Fairness

-----------------------------------------------------------------------------
(* Properties.                                                             *)

TypeOK ==
    /\ db \subseteq Row
    /\ person \in BOOLEAN
    /\ unassigned \in BOOLEAN
    /\ clock \in Nat
    /\ known \subseteq Keys
    /\ pc \in [Calls \cup Deletions -> Steps \cup DeletionSteps]
    /\ view \in [Calls \cup Deletions -> SUBSET Row]
    /\ asOf \in [Calls -> Nat]
    /\ sent \in [Calls -> SUBSET Kontext]
    /\ old \in [Calls -> SUBSET Row]
    /\ todo \in [Calls -> SUBSET (Row \cup Kontext)]
    /\ \A c \in Calls : pc[c] = "delete" => todo[c] \subseteq Row
    /\ existing \in [Calls -> SUBSET Row]
    /\ deleted \in [Calls -> SUBSET Row]
    /\ created \in [Calls -> SUBSET Row]
    /\ inserting \in [Calls -> SUBSET Row]
    /\ after \in [Calls -> SUBSET Row]
    /\ dateSeen \in [Calls -> BOOLEAN]
    /\ overtaken \subseteq Clients

\* The calls of update() that have passed validate().
Validated == {"delete", "add", "reread", "loaded", "saved", "failed",
              "unknown", "published"}

\* An administrator's update that passes validate() works on exactly the rows
\* the administrator saw: count and newest updatedAt together tell any two
\* states of the table apart, whatever calls ran in between or run beside it.
\* They do not where the page was loaded while an INSERT was under way whose time
\* is no newer than the page's: that row may come later, one of the page's
\* go, and neither count nor newest updatedAt changes.
ValidatedSawAll ==
    \A c \in Clients : pc[c] \in Validated /\ c \notin overtaken => existing[c] = view[c]

\* A rolle that needs a befristung is never held without one, however the
\* deletions and insertions of concurrent calls interleave.
BefristungKept ==
    \A row \in db : row.key \in BefristungPflicht => row.frist # Unbefristet

\* Every row that an update inserted is in the event of a call that has
\* published it or still will; only a call that failed while it saved the
\* person leaves a row nobody announces.
NoSilentKontext ==
    \A row \in db : row.stamp > 1 =>
        \E c \in Calls : /\ row \in created[c]
                         /\ pc[c] \in Validated \ {"unknown"}

\* Every call that began comes to its end: no loop of update() revisits what it
\* handled and no outcome of a read leaves a call without a next step.
CallsEnd ==
    /\ \A c \in Calls : pc[c] = "reading" ~>
           pc[c] \in {"rejected", "failed", "unknown", "published"}
    /\ \A d \in Deletions : pc[d] = "collected" ~> pc[d] \in {"rejected", "failed", "gone"}
=============================================================================
