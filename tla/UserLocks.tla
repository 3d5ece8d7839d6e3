----------------------------- MODULE UserLocks -----------------------------
(***************************************************************************)
(* The locks of one person: rows of table user_lock, one per occasion, and *)
(* the enabled flag of the person's account in Keycloak.  updateKeycloak-  *)
(* UserStatus() writes one after the other; it is called by administrators, *)
(* by the cron jobs that lock for a missing Personalnummer and unlock what *)
(* has expired, and by updatePersonMetadata() when the number is entered.  *)
(***************************************************************************)
EXTENDS Naturals, FiniteSets

CONSTANTS
    Calls,      \* requests, each made at most once
    Crons,      \* the cron jobs' calls, made again and again
    Overlap     \* whether a call that locks may overlap other calls

ASSUME LocksAssumption ==
    /\ Calls \cap Crons = {} /\ IsFiniteSet(Calls \cup Crons)
    /\ Overlap \in BOOLEAN

VARIABLES
    locks,      \* the rows of user_lock
    enabled,    \* the account's flag in Keycloak
    numbered,   \* the person has a Personalnummer
    stage,      \* where each call is
    job,        \* what updateKeycloakUserStatus() was asked to do, and what follows
    target,     \* the id of the row that update() of the repository found
    matches,    \* the revision of the request is that of the loaded person
    refused     \* history: some call failed after it wrote the table

lockVars == <<locks, enabled, numbered, stage, job, target, matches, refused>>

All == Calls \cup Crons
Manuell == "MANUELL_GESPERRT"
KoPers  == "KOPERS_GESPERRT"
Occasions == {Manuell, KoPers}
Until == {"never", "later", "past"}

\* Enough ids for the rows and for those that calls may still refer to.
Ids == 1 .. Cardinality(All) + 3
Lock == [id : Ids, occasion : Occasions, until : Until]
Job  == [lock : BOOLEAN, occasion : Occasions, until : Until, next : {"done", "save"}]

Inside == {"create", "find", "flush", "disable", "reread", "enable"}
Steps == Inside \cup {"idle", "asked", "metadata", "save", "done", "rejected",
                      "failed"}

Has(rows, occasion) == \E l \in rows : l.occasion = occasion
LockJob(occasion, until) ==
    [lock |-> TRUE, occasion |-> occasion, until |-> until, next |-> "done"]
UnlockJob(occasion, next) ==
    [lock |-> FALSE, occasion |-> occasion, until |-> "never", next |-> next]

LocksInit ==
    /\ locks = {}
    /\ enabled = TRUE
    /\ numbered \in BOOLEAN
    /\ stage = [c \in All |-> "idle"]
    /\ job = [c \in All |-> LockJob(Manuell, "never")]
    /\ target = [c \in All |-> 0]
    /\ matches = [c \in All |-> FALSE]
    /\ refused = FALSE

AskFor(c, j) ==
    /\ stage[c] = "idle"
    /\ job' = [job EXCEPT ![c] = j]
    /\ stage' = [stage EXCEPT ![c] = "asked"]
    /\ UNCHANGED <<locks, enabled, numbered, target, matches, refused>>

-----------------------------------------------------------------------------
(* The callers.                                                            *)

\* lockPerson() of the person controller.
AskLock(c) == c \in Calls /\ \E until \in {"never", "later"} : AskFor(c, LockJob(Manuell, until))
AskUnlock(c) == c \in Calls /\ AskFor(c, UnlockJob(Manuell, "done"))

\* koPersUserLock(): the list names persons without number and without this
\* lock; the calls follow.
CronKoPers(c) ==
    /\ c \in Crons
    /\ ~numbered
    /\ ~Has(locks, KoPers)
    /\ AskFor(c, LockJob(KoPers, "never"))

\* Mutant: locked_until is compared the wrong way round.
MutantCronExpired(c) ==
    /\ c \in Crons
    /\ \E l \in locks : l.until = "later" /\ AskFor(c, UnlockJob(l.occasion, "done"))

\* unlockUsersWithExpiredLocks(): one call for every lock that is over.
CronExpired(c) ==
    /\ c \in Crons
    /\ \E l \in locks : l.until = "past" /\ AskFor(c, UnlockJob(l.occasion, "done"))

\* updatePersonMetadata() with a Personalnummer, up to its reading of the locks.
AskMetadata(c) ==
    /\ c \in Calls
    /\ stage[c] = "idle"
    /\ \E same \in BOOLEAN : matches' = [matches EXCEPT ![c] = same]
    /\ stage' = [stage EXCEPT ![c] = "metadata"]
    /\ UNCHANGED <<locks, enabled, numbered, job, target, refused>>

FindKoPersLock(c) ==
    /\ stage[c] = "metadata"
    /\ IF Has(locks, KoPers)
       THEN /\ job' = [job EXCEPT ![c] = UnlockJob(KoPers, "save")]
            /\ stage' = [stage EXCEPT ![c] = "asked"]
       ELSE /\ stage' = [stage EXCEPT ![c] = "save"]
            /\ UNCHANGED job
    /\ UNCHANGED <<locks, enabled, numbered, target, matches, refused>>

\* The revision is compared only now, with the person as it was loaded.
SaveMetadata(c) ==
    /\ stage[c] = "save"
    /\ IF matches[c]
       THEN numbered' = TRUE /\ stage' = [stage EXCEPT ![c] = "done"]
       ELSE numbered' = numbered /\ stage' = [stage EXCEPT ![c] = "rejected"]
    /\ UNCHANGED <<locks, enabled, job, target, matches, refused>>

\* A cron job's call ended, well or not: the job will run again.
CronAgain(c) ==
    /\ c \in Crons
    /\ stage[c] \in {"done", "failed"}
    /\ stage' = [stage EXCEPT ![c] = "idle"]
    /\ job' = [job EXCEPT ![c] = LockJob(Manuell, "never")]
    /\ target' = [target EXCEPT ![c] = 0]
    /\ UNCHANGED <<locks, enabled, numbered, matches, refused>>

\* A lock's locked_until passes.
TimePasses ==
    /\ \E l \in locks :
        /\ l.until = "later"
        /\ locks' = (locks \ {l}) \cup {[l EXCEPT !.until = "past"]}
    /\ UNCHANGED <<enabled, numbered, stage, job, target, matches, refused>>

-----------------------------------------------------------------------------
(* updateKeycloakUserStatus()                                              *)

MayEnter(c) ==
    Overlap \/ \A e \in All : stage[e] \in Inside => ~job[c].lock /\ ~job[e].lock

GoTo(c, step) == stage' = [stage EXCEPT ![c] = step]

\* Only a manual lock is looked for, whatever the occasion of the new one.
LookForLock(c) ==
    /\ stage[c] = "asked"
    /\ job[c].lock
    /\ MayEnter(c)
    /\ GoTo(c, IF Has(locks, Manuell) THEN "find" ELSE "create")
    /\ UNCHANGED <<locks, enabled, numbered, job, target, matches, refused>>

FreshId == CHOOSE n \in Ids : /\ \A l \in locks : l.id # n
                              /\ \A c \in All : target[c] # n

\* createUserLock(): one row per occasion.
CreateLock(c) ==
    /\ stage[c] = "create"
    /\ IF Has(locks, job[c].occasion)
       THEN GoTo(c, "failed") /\ UNCHANGED locks
       ELSE /\ GoTo(c, "disable")
            /\ locks' = locks \cup {[id |-> FreshId, occasion |-> job[c].occasion,
                                     until |-> job[c].until]}
    /\ UNCHANGED <<enabled, numbered, job, target, matches, refused>>

\* update(): any row of the person.
FindRow(c) ==
    /\ stage[c] = "find"
    /\ IF locks = {}
       THEN GoTo(c, "failed") /\ UNCHANGED target
       ELSE GoTo(c, "flush") /\ \E l \in locks : target' = [target EXCEPT ![c] = l.id]
    /\ UNCHANGED <<locks, enabled, numbered, job, matches, refused>>

\* The row takes the new occasion and end; if it is gone nothing is written.
FlushRow(c) ==
    /\ stage[c] = "flush"
    /\ LET rest == {l \in locks : l.id # target[c]}
       IN IF rest = locks
          THEN GoTo(c, "disable") /\ UNCHANGED locks
          ELSE IF Has(rest, job[c].occasion)
          THEN GoTo(c, "failed") /\ UNCHANGED locks
          ELSE /\ GoTo(c, "disable")
               /\ locks' = rest \cup {[id |-> target[c], occasion |-> job[c].occasion,
                                       until |-> job[c].until]}
    /\ UNCHANGED <<enabled, numbered, job, target, matches, refused>>

Disable(c) ==
    /\ stage[c] = "disable"
    /\ enabled' = FALSE
    /\ GoTo(c, "done")
    /\ UNCHANGED <<locks, numbered, job, target, matches, refused>>

DeleteLock(c) ==
    /\ stage[c] = "asked"
    /\ ~job[c].lock
    /\ MayEnter(c)
    /\ locks' = {l \in locks : l.occasion # job[c].occasion}
    /\ GoTo(c, "reread")
    /\ UNCHANGED <<enabled, numbered, job, target, matches, refused>>

\* Mutant: the locks are not read again.
MutantRereadLocks(c) ==
    /\ stage[c] = "reread"
    /\ GoTo(c, "enable")
    /\ UNCHANGED <<locks, enabled, numbered, job, target, matches, refused>>

RereadLocks(c) ==
    /\ stage[c] = "reread"
    /\ GoTo(c, IF locks = {} THEN "enable" ELSE job[c].next)
    /\ UNCHANGED <<locks, enabled, numbered, job, target, matches, refused>>

Enable(c) ==
    /\ stage[c] = "enable"
    /\ enabled' = TRUE
    /\ GoTo(c, job[c].next)
    /\ UNCHANGED <<locks, numbered, job, target, matches, refused>>

UpdateKeycloakUserStatus(c) ==
    \/ LookForLock(c) \/ CreateLock(c) \/ FindRow(c) \/ FlushRow(c) \/ Disable(c)
    \/ DeleteLock(c) \/ RereadLocks(c) \/ Enable(c)

\* The client of Keycloak is not authenticated, or the database or Keycloak
\* fails: the call ends where it is, and keeps what it wrote.
CallFails(c) ==
    /\ stage[c] \in Inside \cup {"asked", "metadata", "save"}
    /\ stage[c] = "asked" => MayEnter(c)
    /\ GoTo(c, "failed")
    /\ refused' = (refused \/ stage[c] \in {"disable", "reread", "enable"})
    /\ UNCHANGED <<locks, enabled, numbered, job, target, matches>>

LocksNext ==
    \/ \E c \in All :
        \/ AskLock(c) \/ AskUnlock(c) \/ CronKoPers(c) \/ CronExpired(c)
        \/ AskMetadata(c) \/ FindKoPersLock(c) \/ SaveMetadata(c) \/ CronAgain(c)
        \/ UpdateKeycloakUserStatus(c) \/ CallFails(c)
    \/ TimePasses

LocksSpec == LocksInit /\ [][LocksNext]_lockVars

\* Whatever was called runs, and the cron jobs are started again and again.  A
\* call may fail at every step and any number of times; but a job that is run
\* for ever does not find Keycloak or the database failing every time.
LocksFairness ==
    /\ \A c \in All :
        /\ WF_lockVars(UpdateKeycloakUserStatus(c))
        /\ WF_lockVars(FindKoPersLock(c) \/ SaveMetadata(c))
    /\ \A c \in Crons :
        /\ WF_lockVars(CronAgain(c))
        /\ SF_lockVars(CronExpired(c))
        /\ SF_lockVars(DeleteLock(c))
FairLocksSpec == LocksSpec /\ LocksFairness

-----------------------------------------------------------------------------
LocksTypeOK ==
    /\ locks \subseteq Lock
    /\ enabled \in BOOLEAN
    /\ numbered \in BOOLEAN
    /\ stage \in [All -> Steps]
    /\ job \in [All -> Job]
    /\ target \in [All -> Ids \cup {0}]
    /\ matches \in [All -> BOOLEAN]
    /\ refused \in BOOLEAN

\* Whenever no call is inside updateKeycloakUserStatus() and none failed between
\* its writes to the table and to Keycloak, the account is disabled exactly while
\* a lock is left: several occasions, parallel unlocks of the cron job,
\* overwritten rows and calls that fail before they write included.
LockedIffDisabled ==
    ~refused /\ (\A c \in All : stage[c] \notin Inside) => (enabled <=> locks = {})

\* A lock that is over does not last: the cron job removes it in the end, though
\* its calls fail any number of times, if not every time.
ExpiredLocksGo == <>[](\A l \in locks : l.until # "past")
=============================================================================
