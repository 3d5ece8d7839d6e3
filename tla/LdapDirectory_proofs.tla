------------------------ MODULE LdapDirectory_proofs ------------------------
(***************************************************************************)
(* Proofs about the directory, for any number of persons, schools, events  *)
(* and failures.                                                           *)
(***************************************************************************)
EXTENDS LdapDirectory, FiniteSetTheorems, TLAPS

-----------------------------------------------------------------------------
(* What holds of one operation.                                            *)

\* Fields of an operation under way.
Formed(op) ==
    DOMAIN op = {"pc", "try", "inner", "seen", "mail"} /\ DOMAIN op.seen = Schools

\* The steps at which an operation with the mutex need not hold it.
Waiting == {"search", "lookup", "store"}
NeedsEntry == {"modify", "rename", "delete", "primary", "alt"}

\* Where an operation may be that takes no mutex.
Unguarded(o, op) ==
    /\ Kind(o) \in {"add", "remove"} => op.pc \in {"search", "write"}
    /\ Kind(o) = "keep" => op.pc = "store"

\* What the operation has looked up is so in the directory "es".
Found(o, op, es) ==
    /\ op.pc = "insert" => o[2].uid \notin DOMAIN es
    /\ op.pc \in NeedsEntry => o[2].uid \in DOMAIN es
    /\ op.pc = "primary" => es[o[2].uid].mail = op.mail

Sound(o, op, holder, es) ==
    /\ o # Free
    /\ Formed(op)
    /\ Unguarded(o, op)
    /\ Mutexed(o) /\ op.pc \notin Waiting => holder = o /\ Found(o, op, es)

MutexInv == \A o \in DOMAIN ops : Sound(o, ops[o], mutex, entries)

LEMMA InvLooks == MutexInv => LookupHolds
BY DEF MutexInv, Sound, Found, Unguarded, Mutexed, Waiting, NeedsEntry, LookupHolds

\* A step of operation o: it ends, or it is where op says; the others are as
\* they were.
Moves(o) ==
    /\ DOMAIN ops' \subseteq DOMAIN ops
    /\ \A x \in DOMAIN ops' : x # o => ops'[x] = ops[x]

\* What every step of an operation comes to.
Kept(o) ==
    /\ Moves(o)
    /\ mutex' \in {Free, o, mutex}
    /\ mutex' = o => mutex \in {Free, o}
    /\ mutex' = Free => mutex \in {Free, o}
    /\ entries' # entries => Mutexed(o) /\ mutex = o
    /\ o \in DOMAIN ops' => Sound(o, ops'[o], mutex', entries')

LEMMA KeptIsEnough == ASSUME MutexInv, NEW o \in DOMAIN ops, Kept(o) PROVE MutexInv'
<1> SUFFICES ASSUME NEW x \in DOMAIN ops' PROVE Sound(x, ops'[x], mutex', entries')
  BY DEF MutexInv
<1>1. CASE x = o
  BY <1>1 DEF Kept
<1>2. CASE x # o
  <2>1. x \in DOMAIN ops /\ ops'[x] = ops[x] /\ Sound(x, ops[x], mutex, entries)
    BY <1>2 DEF Kept, Moves, MutexInv
  <2>2. o # Free /\ x # Free
    BY DEF MutexInv, Sound, Kept, Moves
  <2>3. CASE Mutexed(x) /\ ops[x].pc \notin Waiting
    <3>1. mutex = x /\ Found(x, ops[x], entries)
      BY <2>1, <2>3 DEF Sound
    <3>2. mutex' = x /\ entries' = entries
      BY <1>2, <2>2, <3>1 DEF Kept
    <3> QED
      BY <2>1, <3>1, <3>2
  <2>4. CASE ~(Mutexed(x) /\ ops[x].pc \notin Waiting)
    BY <2>1, <2>4 DEF Sound
  <2> QED
    BY <2>3, <2>4
<1> QED
  BY <1>1, <1>2

-----------------------------------------------------------------------------
(* The wrapper.                                                            *)

LEMMA BegunSound ==
    ASSUME NEW o, o # Free, NEW try, NEW holder, NEW es PROVE Sound(o, Begun(o, try), holder, es)
BY DEF Begun, NoCopies, First, Sound, Formed, Unguarded, Waiting, Mutexed

\* Going on with a record that fits.
LEMMA ContinueKeeps ==
    ASSUME MutexInv, NEW o \in DOMAIN ops, NEW to, Continue(o, to), Formed(to),
           MayCall(o), entries' # entries => Mutexed(o) /\ mutex = o,
           to.pc # "end" => Unguarded(o, to) /\ (Mutexed(o) => Found(o, to, entries'))
    PROVE  Kept(o)
<1>1. o # Free
  BY DEF MutexInv, Sound
<1>2. CASE to.pc = "end"
  BY <1>1, <1>2 DEF Continue, Without, Releases, Kept, Moves
<1>3. CASE to.pc = "store"
  <2>1. DOMAIN ops' = DOMAIN ops /\ ops'[o] = to /\ Moves(o) /\ Releases(o)
    BY <1>3 DEF Continue, Moves
  <2> QED
    BY <1>1, <1>3, <2>1 DEF Releases, Kept, Sound, Waiting
<1>4. CASE to.pc \notin {"end", "store"}
  <2>1. /\ DOMAIN ops' = DOMAIN ops /\ ops'[o] = to /\ Moves(o)
        /\ mutex' = IF Mutexed(o) THEN o ELSE mutex
    BY <1>4 DEF Continue, Moves
  <2> QED
    BY <1>1, <1>4, <2>1 DEF Kept, Sound, MayCall
<1> QED
  BY <1>2, <1>3, <1>4

LEMMA FailKeeps ==
    ASSUME MutexInv, NEW o \in DOMAIN ops, Fail(o), MayCall(o),
           entries' # entries => Mutexed(o) /\ mutex = o
    PROVE  Kept(o)
<1>1. o # Free /\ Formed(ops[o])
  BY DEF MutexInv, Sound
<1>2. CASE Inner(o) # "" /\ ops[o].inner < Retries
           /\ Continue(o, [ops[o] EXCEPT !.pc = Inner(o), !.inner = @ + 1])
  <2> DEFINE to == [ops[o] EXCEPT !.pc = Inner(o), !.inner = @ + 1]
  <2>1. Formed(to) /\ to.pc = Inner(o)
    BY <1>1 DEF Formed
  <2>2. Inner(o) \in {"search", "members"} /\ Kind(o) \in {"create", "modify"}
    BY <1>2 DEF Inner
  <2>3. Unguarded(o, to) /\ Found(o, to, entries')
    BY <2>1, <2>2 DEF Unguarded, Found, NeedsEntry
  <2> HIDE DEF to
  <2> QED
    BY <1>2, <2>1, <2>3, ContinueKeeps DEF to
<1>3. CASE ops' = (IF ops[o].try < Retries
                   THEN [ops EXCEPT ![o] = Begun(o, ops[o].try + 1)]
                   ELSE Without(o)) /\ Releases(o)
  <2>1. Moves(o) /\ (o \in DOMAIN ops' => ops'[o] = Begun(o, ops[o].try + 1))
    BY <1>3 DEF Without, Moves
  <2>2. o \in DOMAIN ops' => Sound(o, ops'[o], mutex', entries')
    BY <1>1, <2>1, BegunSound
  <2> QED
    BY <1>1, <1>3, <2>1, <2>2 DEF Releases, Kept
<1> QED
  BY <1>2, <1>3 DEF Fail

\* Outside its waiting steps an operation that takes the mutex has it.
LEMMA HasMutex ==
    ASSUME MutexInv, NEW o \in DOMAIN ops, ops[o].pc \notin Waiting
    PROVE  /\ MayCall(o)
           /\ ops[o].pc # "write" => Mutexed(o) /\ mutex = o /\ Found(o, ops[o], entries)
BY DEF MutexInv, Sound, Unguarded, Mutexed, MayCall, Waiting

LEMMA GotoKeeps ==
    ASSUME MutexInv, NEW o \in DOMAIN ops, NEW pc, Goto(o, pc), MayCall(o),
           entries' # entries => Mutexed(o) /\ mutex = o,
           pc # "end" => /\ Unguarded(o, [ops[o] EXCEPT !.pc = pc])
                         /\ Mutexed(o) => Found(o, [ops[o] EXCEPT !.pc = pc], entries')
    PROVE  Kept(o)
<1> DEFINE to == [ops[o] EXCEPT !.pc = pc]
<1>1. Formed(to) /\ to.pc = pc
  BY DEF MutexInv, Sound, Formed
<1>2. Continue(o, to)
  BY DEF Goto
<1> HIDE DEF to
<1> QED
  BY <1>1, <1>2, ContinueKeeps DEF to

LEMMA PcOf == ASSUME MutexInv, NEW o \in DOMAIN ops, NEW pc
              PROVE  /\ [ops[o] EXCEPT !.pc = pc].pc = pc
                     /\ [ops[o] EXCEPT !.pc = pc].mail = ops[o].mail
BY DEF MutexInv, Sound, Formed

\* A change of the directory whose answer may be lost.
LEMMA AnsweredKeeps ==
    ASSUME MutexInv, NEW o \in DOMAIN ops, NEW pc, Answered(o, pc), MayCall(o),
           entries' # entries => Mutexed(o) /\ mutex = o,
           pc # "end" => /\ Unguarded(o, [ops[o] EXCEPT !.pc = pc])
                         /\ Mutexed(o) => Found(o, [ops[o] EXCEPT !.pc = pc], entries')
    PROVE  Kept(o)
<1>1. CASE Goto(o, pc)
  BY <1>1, GotoKeeps
<1>2. CASE Fail(o)
  BY <1>2, FailKeeps
<1> QED
  BY <1>1, <1>2 DEF Answered

-----------------------------------------------------------------------------
(* One lemma per action.                                                   *)

LEMMA SearchKept == ASSUME MutexInv, NEW o \in DOMAIN ops, Search(o) PROVE Kept(o)
<1> DEFINE r == o[2]
           write == [ops[o] EXCEPT !.pc = "write", !.seen[r.school] = groups[r.school]]
<1>1. ops[o].pc = "search" /\ MayCall(o) /\ UNCHANGED entries
  BY DEF Search
<1>2. Kind(o) # "keep"
  BY <1>1 DEF MutexInv, Sound, Unguarded
<1>3. CASE Continue(o, write)
  <2>1. Formed(write) /\ write.pc = "write"
    BY DEF MutexInv, Sound, Formed
  <2>2. Unguarded(o, write) /\ Found(o, write, entries')
    BY <1>2, <2>1 DEF Unguarded, Found, NeedsEntry
  <2> HIDE DEF write
  <2> QED
    BY <1>1, <1>3, <2>1, <2>2, ContinueKeeps
<1>4. CASE Goto(o, "end")
  BY <1>1, <1>4, GotoKeeps
<1>5. CASE Kind(o) \notin {"add", "remove"} /\ Goto(o, "lookup")
  BY <1>1, <1>2, <1>5, GotoKeeps, PcOf DEF Unguarded, Found, NeedsEntry
<1>6. CASE Fail(o)
  BY <1>1, <1>6, FailKeeps
<1> QED
  BY <1>3, <1>4, <1>5, <1>6 DEF Search

LEMMA AddMemberKept == ASSUME MutexInv, NEW o \in DOMAIN ops, AddMember(o) PROVE Kept(o)
<1>1. ops[o].pc = "write" /\ Kind(o) \in {"add", "create"} /\ UNCHANGED entries /\ MayCall(o)
  BY HasMutex DEF AddMember, Waiting, Refused
<1>2. CASE Answered(o, "end")
  BY <1>1, <1>2, AnsweredKeeps
<1>3. CASE Kind(o) # "add" /\ Answered(o, "lookup")
  BY <1>1, <1>3, AnsweredKeeps, PcOf DEF Unguarded, Found, NeedsEntry
<1>4. CASE Fail(o)
  BY <1>1, <1>4, FailKeeps
<1> QED
  BY <1>2, <1>3, <1>4 DEF AddMember, Refused

LEMMA RemoveMemberKept == ASSUME MutexInv, NEW o \in DOMAIN ops, RemoveMember(o) PROVE Kept(o)
<1>1. ops[o].pc = "write" /\ UNCHANGED entries /\ MayCall(o)
  BY HasMutex DEF RemoveMember, Waiting, Refused
<1> QED
  BY <1>1, AnsweredKeeps, FailKeeps DEF RemoveMember, Refused

LEMMA LookupKept == ASSUME MutexInv, NEW o \in DOMAIN ops, Lookup(o) PROVE Kept(o)
<1>1. ops[o].pc = "lookup" /\ MayCall(o) /\ UNCHANGED entries
  BY DEF Lookup
<1>2. Kind(o) \notin {"add", "remove", "keep"}
  BY <1>1 DEF MutexInv, Sound, Unguarded
<1>3. CASE o[2].uid \notin DOMAIN entries /\ Goto(o, "insert")
  BY <1>1, <1>2, <1>3, GotoKeeps, PcOf DEF Unguarded, Found, NeedsEntry
<1>4. CASE Fail(o)
  BY <1>1, <1>4, FailKeeps
<1>5. ASSUME NEW pc \in {"store", "modify", "delete", "members", "end"}, Goto(o, pc),
             o[2].uid \in DOMAIN entries
      PROVE  Kept(o)
  BY <1>1, <1>2, <1>5, GotoKeeps, PcOf DEF Unguarded, Found, NeedsEntry
<1>6. CASE /\ o[2].uid \in DOMAIN entries
           /\ Continue(o, [ops[o] EXCEPT !.pc = "primary", !.mail = entries[o[2].uid].mail])
  <2> DEFINE to == [ops[o] EXCEPT !.pc = "primary", !.mail = entries[o[2].uid].mail]
  <2>1. Formed(to) /\ to.pc = "primary" /\ to.mail = entries[o[2].uid].mail
    BY DEF MutexInv, Sound, Formed
  <2>2. Unguarded(o, to) /\ Found(o, to, entries')
    BY <1>1, <1>2, <1>6, <2>1 DEF Unguarded, Found, NeedsEntry
  <2> HIDE DEF to
  <2> QED
    BY <1>1, <1>6, <2>1, <2>2, ContinueKeeps DEF to
<1>7. CASE LookupMissing(o)
  BY <1>3, <1>4, <1>7 DEF LookupMissing
<1>8. CASE LookupFound(o)
  BY <1>5, <1>6, <1>8 DEF LookupFound
<1> QED
  BY <1>7, <1>8 DEF Lookup

\* The operations that change an entry.
LEMMA EntryKept ==
    ASSUME MutexInv, NEW o \in DOMAIN ops,
           Insert(o) \/ ModifyNames(o) \/ ModifyDn(o) \/ Delete(o) \/ Primary(o) \/ Alternative(o)
    PROVE  Kept(o)
<1>1. /\ ops[o].pc \notin Waiting /\ ops[o].pc # "write"
      /\ ops[o].pc = "insert" \/ ops[o].pc \in NeedsEntry
  BY DEF Insert, ModifyNames, ModifyDn, Delete, Primary, Alternative, Waiting, NeedsEntry
<1>2. MayCall(o) /\ Mutexed(o) /\ mutex = o /\ Found(o, ops[o], entries)
  BY <1>1, HasMutex
<1>3. Kind(o) \notin {"add", "remove", "keep"}
  BY <1>2 DEF Mutexed
<1>4. ASSUME NEW pc \in {"uuid", "members", "end"}, Answered(o, pc) PROVE Kept(o)
  BY <1>2, <1>3, <1>4, AnsweredKeeps, PcOf DEF Unguarded, Found, NeedsEntry
<1>5. ASSUME NEW pc \in {"rename", "alt"}, Answered(o, pc), o[2].uid \in DOMAIN entries'
      PROVE  Kept(o)
  BY <1>2, <1>3, <1>5, AnsweredKeeps, PcOf DEF Unguarded, Found, NeedsEntry
<1>6. CASE Insert(o) \/ Delete(o) \/ Alternative(o)
  BY <1>4, <1>6 DEF Insert, Delete, Alternative
<1>7. CASE ModifyNames(o)
  <2>1. o[2].uid \in DOMAIN entries'
    BY <1>7 DEF ModifyNames, SetEntry
  <2>2. CASE o[2].uid[2] = o[2].new
    BY <1>4, <1>7, <2>2 DEF ModifyNames
  <2>3. CASE o[2].uid[2] # o[2].new
    BY <1>5, <1>7, <2>1, <2>3 DEF ModifyNames
  <2> QED
    BY <2>2, <2>3
<1>8. CASE ModifyDn(o)
  <2>1. CASE NewUid(o) \notin DOMAIN entries
    BY <1>4, <1>8, <2>1 DEF ModifyDn
  <2>2. CASE NewUid(o) \in DOMAIN entries
    BY <1>2, <1>8, <2>2, FailKeeps DEF ModifyDn, Refused
  <2> QED
    BY <2>1, <2>2
<1>9. CASE Primary(o)
  <2>1. o[2].uid \in DOMAIN entries'
    BY <1>9 DEF Primary, SetEntry
  <2> QED
    BY <1>5, <1>9, <2>1 DEF Primary
<1> QED
  BY <1>6, <1>7, <1>8, <1>9

LEMMA MembersKept ==
    ASSUME MutexInv, NEW o \in DOMAIN ops,
           CopyMembers(o) \/ (\E s \in Schools : Replace(o, s))
    PROVE  Kept(o)
<1>1. ops[o].pc \in {"members", "replace"} /\ UNCHANGED entries
  BY DEF CopyMembers, Replace
<1>2. MayCall(o) /\ Mutexed(o)
  BY <1>1, HasMutex DEF Waiting
<1>3. DOMAIN ops[o].seen = Schools
  BY DEF MutexInv, Sound, Formed
<1>4. PICK seen : /\ DOMAIN seen = Schools
                  /\ \E pc \in {"end", "replace"} :
                         Continue(o, [ops[o] EXCEPT !.seen = seen, !.pc = pc])
  <2>1. CASE CopyMembers(o)
    <3> DEFINE copies == [s \in Schools |-> IF s \in Members(o[2].uid) THEN groups[s] ELSE {}]
               pc == IF copies = NoCopies THEN "end" ELSE "replace"
    <3>1. DOMAIN copies = Schools /\ pc \in {"end", "replace"}
      OBVIOUS
    <3>2. Continue(o, [ops[o] EXCEPT !.seen = copies, !.pc = pc])
      BY <2>1 DEF CopyMembers
    <3> HIDE DEF copies, pc
    <3> QED
      BY <3>1, <3>2
  <2>2. ASSUME NEW s \in Schools, Replace(o, s)
        PROVE  \E seen : /\ DOMAIN seen = Schools
                         /\ \E pc \in {"end", "replace"} :
                                Continue(o, [ops[o] EXCEPT !.seen = seen, !.pc = pc])
    <3> DEFINE left == [ops[o].seen EXCEPT ![s] = {}]
               pc == IF left = NoCopies THEN "end" ELSE "replace"
    <3>1. DOMAIN left = Schools /\ pc \in {"end", "replace"}
      BY <1>3
    <3>2. Continue(o, [ops[o] EXCEPT !.seen = left, !.pc = pc])
      BY <2>2 DEF Replace
    <3> HIDE DEF left, pc
    <3> QED
      BY <3>1, <3>2
  <2> QED
    BY <2>1, <2>2
<1>5. PICK pc \in {"end", "replace"} : Continue(o, [ops[o] EXCEPT !.seen = seen, !.pc = pc])
  BY <1>4
<1> DEFINE to == [ops[o] EXCEPT !.seen = seen, !.pc = pc]
<1>6. Formed(to) /\ to.pc = pc
  BY <1>4 DEF MutexInv, Sound, Formed
<1>7. Unguarded(o, to) /\ Found(o, to, entries')
  BY <1>2, <1>6, <1>5 DEF Unguarded, Found, NeedsEntry, Mutexed
<1> HIDE DEF to
<1> QED
  BY <1>1, <1>2, <1>5, <1>6, <1>7, ContinueKeeps DEF to

LEMMA AnswerKept ==
    ASSUME MutexInv, NEW o \in DOMAIN ops, ReadUuid(o) \/ GroupsFound(o) \/ Store(o)
    PROVE  Kept(o)
<1>1. CASE ReadUuid(o)
  <2>1. MayCall(o) /\ Mutexed(o)
    BY <1>1, HasMutex DEF ReadUuid, Waiting
  <2> QED
    BY <1>1, <2>1, GotoKeeps, PcOf DEF ReadUuid, Unguarded, Found, NeedsEntry, Mutexed
<1>2. CASE GroupsFound(o)
  <2>1. MayCall(o)
    BY <1>2, HasMutex DEF GroupsFound, Waiting
  <2> QED
    BY <1>2, <2>1, GotoKeeps DEF GroupsFound
<1>3. CASE Store(o)
  <2>1. o # Free /\ UNCHANGED entries /\ Continue(o, [ops[o] EXCEPT !.pc = "end"])
    BY <1>3 DEF MutexInv, Sound, Store, Goto
  <2>2. [ops[o] EXCEPT !.pc = "end"].pc = "end"
    BY PcOf
  <2>3. ops' = Without(o) /\ Releases(o)
    BY <2>1, <2>2 DEF Continue
  <2> QED
    BY <2>1, <2>3 DEF Without, Releases, Kept, Moves
<1> QED
  BY <1>1, <1>2, <1>3

LEMMA StepKept == ASSUME MutexInv, NEW o \in DOMAIN ops, Step(o) PROVE Kept(o)
<1>1. CASE CallLost(o)
  BY <1>1, FailKeeps DEF CallLost
<1> QED
  BY <1>1, SearchKept, AddMemberKept, RemoveMemberKept, LookupKept, EntryKept, MembersKept,
     AnswerKept DEF Step

-----------------------------------------------------------------------------
LEMMA AdvanceKeeps ==
    ASSUME MutexInv, NEW e \in DOMAIN events, Advance(e) PROVE MutexInv'
<1> SUFFICES ASSUME NEW x \in DOMAIN ops' PROVE Sound(x, ops'[x], mutex', entries')
  BY DEF MutexInv
<1> DEFINE next == {e} \X Head(events[e].plan)
<1>1. UNCHANGED <<mutex, entries>> /\ (x \in DOMAIN ops => ops'[x] = ops[x])
      /\ (x \notin DOMAIN ops => x \in next /\ ops'[x] = Begun(x, 1))
  BY DEF Advance
<1>2. CASE x \in DOMAIN ops
  BY <1>1, <1>2 DEF MutexInv
<1>3. CASE x \notin DOMAIN ops
  <2>1. PICK r : x = <<e, r>>
    BY <1>1, <1>3
  <2>2. x # Free
    BY <2>1 DEF Free
  <2> QED
    BY <1>1, <1>3, <2>2, BegunSound
<1> QED
  BY <1>2, <1>3

LEMMA InitLooks == Init => MutexInv
<1>1. Init => ops = <<>>
  BY DEF Init
<1>2. ops = <<>> => DOMAIN ops = {}
  OBVIOUS
<1> QED
  BY <1>1, <1>2 DEF MutexInv

LEMMA MutexInductive == ASSUME MutexInv, [Next]_vars PROVE MutexInv'
<1>1. CASE UNCHANGED <<ops, mutex, entries>>
  BY <1>1 DEF MutexInv
<1>2. CASE Publishes
  <2>1. UNCHANGED <<ops, mutex, entries>>
    BY <1>2 DEF Publishes, Update, Rename, ChangeMail, DeletePerson, Sync, Publish
  <2> QED
    BY <1>1, <2>1
<1>3. CASE \E e \in DOMAIN events : Advance(e)
  BY <1>3, AdvanceKeeps
<1>4. CASE \E e \in DOMAIN events : Return(e)
  BY <1>1, <1>4 DEF Return
<1>5. CASE \E o \in DOMAIN ops : Step(o)
  BY <1>5, StepKept, KeptIsEnough
<1> QED
  BY <1>1, <1>2, <1>3, <1>4, <1>5 DEF Next, Idle, vars

\* What an operation has looked up under the mutex still holds when it writes,
\* whatever other operations run and whatever fails.
THEOREM LookupStillHolds == Spec => []LookupHolds
<1>1. Init => MutexInv
  BY InitLooks
<1>2. MutexInv /\ [Next]_vars => MutexInv'
  BY MutexInductive
<1> QED
  BY <1>1, <1>2, InvLooks, PTL DEF Spec

-----------------------------------------------------------------------------
(* Fields.                                                                 *)

DbFields == {"name", "kontexte", "mail", "old", "uuid", "gone"}
EntryFields == {"naming", "mail", "alt"}
EventFields == {"plan", "uuid", "mail", "alt", "data"}

RowFormed(row) ==
    DOMAIN row = DbFields /\ row.kontexte \subseteq Kontexte /\ row.name \in Nat
DbFormed == DOMAIN db = Persons /\ \A p \in Persons : RowFormed(db[p])
EntriesFormed == \A u \in DOMAIN entries : DOMAIN entries[u] = EntryFields
GroupsFormed == DOMAIN groups = Schools
EventsFormed == \E S : events \in Seq(S) /\ \A x \in S : DOMAIN x = EventFields

FormInv == DbFormed /\ EntriesFormed /\ GroupsFormed /\ EventsFormed

\* Which operations write what.
WritesEntries(o) ==
    Insert(o) \/ ModifyNames(o) \/ ModifyDn(o) \/ Delete(o) \/ Primary(o) \/ Alternative(o)
WritesGroups(o) == AddMember(o) \/ RemoveMember(o) \/ \E s \in Schools : Replace(o, s)
WritesEvents(o) == Lookup(o) \/ ReadUuid(o) \/ GroupsFound(o)

LEMMA StepWrites ==
    ASSUME NEW o, Step(o)
    PROVE  /\ db' = db \/ Store(o)
           /\ entries' = entries \/ WritesEntries(o)
           /\ groups' = groups \/ WritesGroups(o)
           /\ events' = events \/ WritesEvents(o)
<1>1. CASE Search(o) \/ Lookup(o) \/ CopyMembers(o) \/ CallLost(o)
  BY <1>1 DEF Search, Lookup, CopyMembers, CallLost, WritesEvents
<1>2. CASE AddMember(o) \/ RemoveMember(o)
  BY <1>2 DEF AddMember, RemoveMember, Refused, WritesGroups
<1>3. CASE \E s \in Schools : Replace(o, s)
  BY <1>3 DEF Replace, WritesGroups
<1>4. CASE Insert(o) \/ ModifyNames(o) \/ Delete(o) \/ Primary(o) \/ Alternative(o)
  BY <1>4 DEF Insert, ModifyNames, Delete, Primary, Alternative, WritesEntries
<1>5. CASE ModifyDn(o)
  BY <1>5 DEF ModifyDn, Refused, WritesEntries
<1>6. CASE ReadUuid(o) \/ GroupsFound(o) \/ Store(o)
  BY <1>6 DEF ReadUuid, GroupsFound, Store, WritesEvents
<1> QED
  BY <1>1, <1>2, <1>3, <1>4, <1>5, <1>6 DEF Step

\* Store() writes one field.
LEMMA StoreDoes ==
    ASSUME DbFormed, NEW o, Store(o)
    PROVE  /\ DbFormed'
           /\ \A p \in Persons : /\ db'[p].name = db[p].name /\ db'[p].mail = db[p].mail
                                 /\ db'[p].kontexte = db[p].kontexte /\ db'[p].gone = db[p].gone
<1> DEFINE p == o[2].uid[1]
           row == IF Kind(o) = "keep" THEN [db[p] EXCEPT !.old = db[p].old \cup {o[2].mail}]
                                      ELSE [db[p] EXCEPT !.uuid = events[o[1]].uuid]
<1>1. db' = db \/ db' = [db EXCEPT ![p] = row]
  BY DEF Store
<1>2. ASSUME p \in Persons
      PROVE  /\ RowFormed(row) /\ row.name = db[p].name /\ row.mail = db[p].mail
             /\ row.kontexte = db[p].kontexte /\ row.gone = db[p].gone
  <2>1. CASE Kind(o) = "keep"
    BY <1>2, <2>1 DEF DbFormed, RowFormed, DbFields
  <2>2. CASE Kind(o) # "keep"
    BY <1>2, <2>2 DEF DbFormed, RowFormed, DbFields
  <2> QED
    BY <2>1, <2>2
<1> HIDE DEF row, p
<1> QED
  BY <1>1, <1>2 DEF DbFormed

LEMMA SetEntryForms ==
    ASSUME EntriesFormed, NEW u, NEW x, DOMAIN x = EntryFields, SetEntry(u, x)
    PROVE  EntriesFormed'
BY DEF SetEntry, EntriesFormed

LEMMA EntriesKeepForm ==
    ASSUME MutexInv, FormInv, NEW o \in DOMAIN ops, WritesEntries(o) PROVE EntriesFormed'
<1> DEFINE u == o[2].uid
<1>1. CASE Insert(o)
  <2> DEFINE x == IF Kind(o) = "create" THEN Entry(u[2], "") ELSE Entry(0, "empty")
  <2>1. DOMAIN x = EntryFields /\ SetEntry(u, x)
    BY <1>1 DEF Insert, Entry, EntryFields
  <2> QED
    BY <2>1, SetEntryForms DEF FormInv
<1>2. ASSUME ops[o].pc \in NeedsEntry PROVE DOMAIN entries[u] = EntryFields
  BY <1>2, HasMutex DEF Waiting, NeedsEntry, Found, FormInv, EntriesFormed
<1>3. CASE ModifyNames(o)
  <2> DEFINE x == [entries[u] EXCEPT !.naming = o[2].new]
  <2>1. DOMAIN x = EntryFields /\ SetEntry(u, x)
    BY <1>2, <1>3 DEF ModifyNames, NeedsEntry
  <2> QED
    BY <2>1, SetEntryForms DEF FormInv
<1>4. CASE Primary(o)
  <2> DEFINE x == [entries[u] EXCEPT !.mail = o[2].mail]
  <2>1. DOMAIN x = EntryFields /\ SetEntry(u, x)
    BY <1>2, <1>4 DEF Primary, NeedsEntry
  <2> QED
    BY <2>1, SetEntryForms DEF FormInv
<1>5. CASE Alternative(o)
  <2> DEFINE x == [entries[u] EXCEPT !.alt = ops[o].mail]
  <2>1. DOMAIN x = EntryFields /\ SetEntry(u, x)
    BY <1>2, <1>5 DEF Alternative, NeedsEntry
  <2> QED
    BY <2>1, SetEntryForms DEF FormInv
<1>6. CASE ModifyDn(o)
  BY <1>2, <1>6 DEF ModifyDn, Refused, NeedsEntry, FormInv, EntriesFormed
<1>7. CASE Delete(o)
  BY <1>7 DEF Delete, FormInv, EntriesFormed
<1> QED
  BY <1>1, <1>3, <1>4, <1>5, <1>6, <1>7 DEF WritesEntries

LEMMA GroupsKeepForm ==
    ASSUME GroupsFormed, NEW o, WritesGroups(o) PROVE GroupsFormed'
BY DEF WritesGroups, AddMember, RemoveMember, Replace, Refused, GroupsFormed

\* A handler's record may change.
LEMMA EventForms ==
    ASSUME EventsFormed, NEW e, NEW x, e \in DOMAIN events => DOMAIN x = EventFields,
           events' = [events EXCEPT ![e] = x]
    PROVE  /\ EventsFormed' /\ DOMAIN events' = DOMAIN events
           /\ e \in DOMAIN events => events'[e] = x
           /\ \A d \in DOMAIN events : d # e => events'[d] = events[d]
<1>1. PICK S : events \in Seq(S) /\ \A y \in S : DOMAIN y = EventFields
  BY DEF EventsFormed
<1>2. CASE e \in DOMAIN events
  <2> DEFINE T == S \cup {x}
  <2>1. events' \in Seq(T) /\ \A y \in T : DOMAIN y = EventFields
    BY <1>1, <1>2
  <2> HIDE DEF T
  <2> QED
    BY <1>2, <2>1 DEF EventsFormed
<1>3. CASE e \notin DOMAIN events
  <2>1. events = [i \in DOMAIN events |-> events[i]]
    BY <1>1
  <2>2. events' = events
    BY <1>3, <2>1
  <2> QED
    BY <1>3, <2>2 DEF EventsFormed
<1> QED
  BY <1>2, <1>3

LEMMA EventIsFormed ==
    ASSUME EventsFormed, NEW e \in DOMAIN events PROVE DOMAIN events[e] = EventFields
BY DEF EventsFormed

\* What a step does to the handlers: at most the record of its own one, whose
\* data stay.
LEMMA EventsDo ==
    ASSUME EventsFormed, NEW o, WritesEvents(o)
    PROVE  /\ EventsFormed' /\ DOMAIN events' = DOMAIN events
           /\ \A d \in DOMAIN events : d # o[1] => events'[d] = events[d]
           /\ \A d \in DOMAIN events : events'[d].data = events[d].data
<1> DEFINE e == o[1]
           ev == events[e]
<1> DEFINE Changed == \E x : /\ events' = [events EXCEPT ![e] = x]
                             /\ e \in DOMAIN events => DOMAIN x = EventFields /\ x.data = ev.data
<1>1. e \in DOMAIN events => DOMAIN ev = EventFields
  BY EventIsFormed
<1>2. ASSUME Lookup(o) PROVE Changed \/ events' = events
  <2> DEFINE found == entries[o[2].uid]
             x == [ev EXCEPT !.mail = found.mail, !.alt = found.alt,
                             !.plan = <<{Request("groups", o[2].uid)}>>]
  <2>1. events' = [events EXCEPT ![e] = x] \/ events' = events
    BY <1>2 DEF Lookup, LookupMissing, LookupFound
  <2>2. e \in DOMAIN events => DOMAIN x = EventFields /\ x.data = ev.data
    BY <1>1 DEF EventFields
  <2> HIDE DEF x
  <2> QED
    BY <2>1, <2>2
<1>3. ASSUME ReadUuid(o) PROVE Changed
  <2> DEFINE plan == IF Kind(o) = "create" THEN ev.plan ELSE <<{Request("groups", o[2].uid)}>>
             x == [ev EXCEPT !.uuid = TRUE, !.plan = plan]
  <2>1. events' = [events EXCEPT ![e] = x]
    BY <1>3 DEF ReadUuid
  <2>2. e \in DOMAIN events => DOMAIN x = EventFields /\ x.data = ev.data
    BY <1>1 DEF EventFields
  <2> HIDE DEF x
  <2> QED
    BY <2>1, <2>2
<1>4. ASSUME GroupsFound(o) PROVE Changed
  <2> DEFINE plan == IF SyncAborts(ev) THEN <<>> ELSE SyncPlan(e, o[2].uid, Members(o[2].uid))
             x == [ev EXCEPT !.plan = plan]
  <2>1. events' = [events EXCEPT ![e] = x]
    BY <1>4 DEF GroupsFound
  <2>2. e \in DOMAIN events => DOMAIN x = EventFields /\ x.data = ev.data
    BY <1>1 DEF EventFields
  <2> HIDE DEF x
  <2> QED
    BY <2>1, <2>2
<1>5. CASE Changed
  <2>1. PICK x : /\ events' = [events EXCEPT ![e] = x]
                 /\ e \in DOMAIN events => DOMAIN x = EventFields /\ x.data = ev.data
    BY <1>5
  <2> QED
    BY <2>1, EventForms
<1>6. CASE events' = events
  BY <1>6 DEF EventsFormed
<1> QED
  BY <1>2, <1>3, <1>4, <1>5, <1>6 DEF WritesEvents

LEMMA AdvanceDoes ==
    ASSUME EventsFormed, NEW e \in DOMAIN events, Advance(e)
    PROVE  /\ EventsFormed' /\ DOMAIN events' = DOMAIN events
           /\ \A d \in DOMAIN events : d # e => events'[d] = events[d]
           /\ DOMAIN events'[e] = EventFields
           /\ events'[e].plan = Tail(events[e].plan)
           /\ \A f \in EventFields \ {"plan"} : events'[e][f] = events[e][f]
<1> DEFINE x == [events[e] EXCEPT !.plan = Tail(events[e].plan)]
<1>1. events' = [events EXCEPT ![e] = x]
  BY DEF Advance
<1>2. DOMAIN events[e] = EventFields
  BY EventIsFormed
<1>3. /\ DOMAIN x = EventFields /\ x.plan = Tail(events[e].plan)
      /\ \A f \in EventFields \ {"plan"} : x[f] = events[e][f]
  BY <1>2 DEF EventFields
<1> HIDE DEF x
<1> QED
  BY <1>1, <1>3, EventForms

LEMMA ReturnDoes ==
    ASSUME EventsFormed, NEW e \in DOMAIN events, Return(e)
    PROVE  /\ EventsFormed' /\ DOMAIN events' = DOMAIN events
           /\ \A d \in DOMAIN events : d # e => events'[d] = events[d]
           /\ events'[e] = Over
<1>1. events' = [events EXCEPT ![e] = Over] /\ DOMAIN Over = EventFields
  BY DEF Return, Over, EventFields
<1> QED
  BY <1>1, EventForms

\* New events come last.
LEMMA PublishDoes ==
    ASSUME EventsFormed, NEW new, NEW n \in Nat, DOMAIN new = 1 .. n,
           \A i \in 1 .. n : DOMAIN new[i] = EventFields,
           new \in Seq({new[i] : i \in 1 .. n}), events' = events \o new
    PROVE  EventsFormed'
<1>1. PICK S : events \in Seq(S) /\ \A y \in S : DOMAIN y = EventFields
  BY DEF EventsFormed
<1> DEFINE T == S \cup {new[i] : i \in 1 .. n}
<1>2. events \in Seq(T) /\ new \in Seq(T)
  BY <1>1
<1>3. \A y \in T : DOMAIN y = EventFields
  BY <1>1
<1> HIDE DEF T
<1>4. events' \in Seq(T)
  BY <1>2
<1> QED
  BY <1>3, <1>4 DEF EventsFormed

LEMMA PublishForms ==
    ASSUME EventsFormed, NEW new, Publish(new),
           \/ \E x : new = <<x>> /\ DOMAIN x = EventFields
           \/ \E x, y : new = <<x, y>> /\ DOMAIN x = EventFields /\ DOMAIN y = EventFields
    PROVE  EventsFormed'
<1>1. events' = events \o new
  BY DEF Publish
<1>2. CASE \E x : new = <<x>> /\ DOMAIN x = EventFields
  <2>1. DOMAIN new = 1 .. 1 /\ \A i \in 1 .. 1 : DOMAIN new[i] = EventFields
    BY <1>2
  <2>2. new \in Seq({new[i] : i \in 1 .. 1})
    BY <1>2
  <2> QED
    BY <1>1, <2>1, <2>2, PublishDoes
<1>3. CASE \E x, y : new = <<x, y>> /\ DOMAIN x = EventFields /\ DOMAIN y = EventFields
  <2>1. DOMAIN new = 1 .. 2 /\ \A i \in 1 .. 2 : DOMAIN new[i] = EventFields
    BY <1>3
  <2>2. new \in Seq({new[i] : i \in 1 .. 2})
    BY <1>3
  <2> QED
    BY <1>1, <2>1, <2>2, PublishDoes
<1> QED
  BY <1>2, <1>3

LEMMA PublishesForms == ASSUME FormInv, Publishes PROVE FormInv'
<1>1. UNCHANGED <<entries, groups>>
  BY DEF Publishes, Update, Rename, ChangeMail, DeletePerson, Sync, Publish
<1>2. PICK p \in Persons :
          \/ \E kontexte \in SUBSET Kontexte : Update(p, kontexte)
          \/ Rename(p)
          \/ \E mail \in Mails : ChangeMail(p, mail)
          \/ DeletePerson(p)
          \/ Sync(p)
  BY DEF Publishes
<1>3. ASSUME NEW x, RowFormed(x), db' = [db EXCEPT ![p] = x] PROVE DbFormed'
  BY <1>3 DEF FormInv, DbFormed
<1>4. DOMAIN db[p] = DbFields /\ db[p].kontexte \subseteq Kontexte /\ db[p].name \in Nat
  BY DEF FormInv, DbFormed, RowFormed
<1>5. \A plan : DOMAIN Event(p, plan) = EventFields
  BY DEF Event, EventFields
<1>6. ASSUME NEW x, DOMAIN x = EventFields, Publish(<<x>>) PROVE EventsFormed'
  BY <1>6, PublishForms DEF FormInv
<1>7. CASE \E kontexte \in SUBSET Kontexte : Update(p, kontexte)
  <2>1. PICK kontexte \in SUBSET Kontexte : Update(p, kontexte)
    BY <1>7
  <2> DEFINE x == [db[p] EXCEPT !.kontexte = kontexte]
  <2>2. RowFormed(x) /\ db' = [db EXCEPT ![p] = x]
    BY <1>4, <2>1 DEF Update, RowFormed, DbFields
  <2> HIDE DEF x
  <2>3. DbFormed'
    BY <1>3, <2>2
  <2>4. EventsFormed'
    BY <1>5, <1>6, <2>1 DEF Update
  <2> QED
    BY <1>1, <2>3, <2>4 DEF FormInv, EntriesFormed, GroupsFormed
<1>8. CASE Rename(p)
  <2> DEFINE x == [db[p] EXCEPT !.name = db[p].name + 1]
  <2>1. RowFormed(x) /\ db' = [db EXCEPT ![p] = x]
    BY <1>4, <1>8 DEF Rename, RowFormed, DbFields, Names
  <2> HIDE DEF x
  <2>2. DbFormed'
    BY <1>3, <2>1
  <2>3. EventsFormed'
    BY <1>5, <1>6, <1>8 DEF Rename
  <2> QED
    BY <1>1, <2>2, <2>3 DEF FormInv, EntriesFormed, GroupsFormed
<1>9. CASE \E mail \in Mails : ChangeMail(p, mail)
  <2>1. PICK mail \in Mails : ChangeMail(p, mail)
    BY <1>9
  <2> DEFINE x == [db[p] EXCEPT !.mail = mail, !.old = db[p].old \cup ({db[p].mail} \ {""})]
  <2>2. RowFormed(x) /\ db' = [db EXCEPT ![p] = x]
    BY <1>4, <2>1 DEF ChangeMail, RowFormed, DbFields
  <2> HIDE DEF x
  <2>3. DbFormed'
    BY <1>3, <2>2
  <2>4. EventsFormed'
    BY <1>5, <1>6, <2>1 DEF ChangeMail
  <2> QED
    BY <1>1, <2>3, <2>4 DEF FormInv, EntriesFormed, GroupsFormed
<1>10. CASE DeletePerson(p)
  <2> DEFINE x == [db[p] EXCEPT !.gone = TRUE, !.kontexte = {}]
  <2>1. RowFormed(x) /\ db' = [db EXCEPT ![p] = x]
    BY <1>4, <1>10 DEF DeletePerson, RowFormed, DbFields
  <2> HIDE DEF x
  <2>2. DbFormed'
    BY <1>3, <2>1
  <2>3. PICK a, b : Publish(<<Event(p, a), Event(p, b)>>)
    BY <1>10 DEF DeletePerson
  <2>4. EventsFormed'
    BY <1>5, <2>3, PublishForms DEF FormInv
  <2> QED
    BY <1>1, <2>2, <2>4 DEF FormInv, EntriesFormed, GroupsFormed
<1>11. CASE Sync(p)
  <2>1. DbFormed'
    BY <1>11 DEF Sync, FormInv, DbFormed
  <2>2. EventsFormed'
    BY <1>5, <1>6, <1>11 DEF Sync
  <2> QED
    BY <1>1, <2>1, <2>2 DEF FormInv, EntriesFormed, GroupsFormed
<1> QED
  BY <1>2, <1>7, <1>8, <1>9, <1>10, <1>11

LEMMA FormInductive == ASSUME MutexInv, FormInv, [Next]_vars PROVE FormInv'
<1>1. CASE UNCHANGED vars
  BY <1>1 DEF vars, luck, FormInv, DbFormed, EntriesFormed, GroupsFormed, EventsFormed
<1>2. CASE Publishes
  BY <1>2, PublishesForms
<1>3. ASSUME NEW e \in DOMAIN events, Advance(e) \/ Return(e) PROVE FormInv'
  <2>1. EventsFormed'
    BY <1>3, AdvanceDoes, ReturnDoes DEF FormInv
  <2>2. UNCHANGED <<db, entries, groups>>
    BY <1>3 DEF Advance, Return
  <2> QED
    BY <2>1, <2>2 DEF FormInv, DbFormed, EntriesFormed, GroupsFormed
<1>4. ASSUME NEW o \in DOMAIN ops, Step(o) PROVE FormInv'
  <2>1. DbFormed'
    BY <1>4, StepWrites, StoreDoes DEF FormInv, DbFormed
  <2>2. EntriesFormed'
    BY <1>4, StepWrites, EntriesKeepForm DEF FormInv, EntriesFormed
  <2>3. GroupsFormed'
    BY <1>4, StepWrites, GroupsKeepForm DEF FormInv, GroupsFormed
  <2>4. EventsFormed'
    BY <1>4, StepWrites, EventsDo DEF FormInv, EventsFormed
  <2> QED
    BY <2>1, <2>2, <2>3, <2>4 DEF FormInv
<1> QED
  BY <1>1, <1>2, <1>3, <1>4 DEF Next, Idle

LEMMA InitForms == ASSUME Init PROVE FormInv
<1>1. GroupsFormed
  BY DEF Init, GroupsFormed
<1>2. DbFormed
  <2>1. PICK has \in [Persons -> SUBSET Kontexte],
             addressed \in [Persons -> Mails \cup {""}],
             left \in SUBSET (Persons \X Schools) :
           /\ \A l \in left : \A k \in has[l[1]] : k.school # l[2]
           /\ Cardinality(left) <= MaxTroubles
           /\ troubles = Cardinality(left)
           /\ db = [p \in Persons |->
                  [name |-> 1, kontexte |-> has[p], mail |-> addressed[p], old |-> {},
                   uuid |-> \/ \E k \in has[p] : Lehr(k)
                            \/ \E s \in Schools : <<p, s>> \in left,
                   gone |-> FALSE]]
           /\ groups = [s \in Schools |-> {Uid(p) : p \in
                  {x \in Persons : Teaches(x, s) \/ <<x, s>> \in left}}]
    BY Zenon DEF Init
  <2> DEFINE row(p) ==
          [name |-> 1, kontexte |-> has[p], mail |-> addressed[p], old |-> {},
           uuid |-> \/ \E k \in has[p] : Lehr(k)
                    \/ \E s \in Schools : <<p, s>> \in left,
           gone |-> FALSE]
  <2>2. db = [p \in Persons |-> row(p)]
    BY Zenon, <2>1
  <2>3. \A p \in Persons : RowFormed(row(p))
    <3>1. \A p \in Persons : has[p] \subseteq Kontexte
      OBVIOUS
    <3>2. \A p \in Persons : /\ DOMAIN row(p) = DbFields /\ row(p).kontexte = has[p]
                                  /\ row(p).name = 1
      BY Zenon DEF DbFields
    <3> QED
      BY <3>1, <3>2 DEF RowFormed
  <2> HIDE DEF row
  <2> QED
    BY <2>2, <2>3 DEF DbFormed
<1>3. EntriesFormed
  BY DEF Init, EntriesFormed, Entry, EntryFields
<1>4. EventsFormed
  <2>1. events = <<>>
    BY DEF Init
  <2>2. events \in Seq({}) /\ \A x \in {} : DOMAIN x = EventFields
    BY <2>1
  <2> QED
    BY <2>2 DEF EventsFormed
<1> QED
  BY <1>1, <1>2, <1>3, <1>4 DEF FormInv

-----------------------------------------------------------------------------
(* A synchronisation that nothing disturbs, of the uid u, the address m and *)
(* the Personenkontexte W of a teacher.                                     *)

SchoolsOf(W) == {k.school : k \in W}

HasEntry(u) == u \in DOMAIN entries
MailAgrees(u, m) == HasEntry(u) /\ entries[u].mail = m
NamingAgrees(u, m) == MailAgrees(u, m) /\ entries[u].naming = u[2]
GroupsAgree(u, W) == \A s \in Schools : u \in groups[s] <=> s \in SchoolsOf(W)

\* Its requests.
AskAttributes(u) == Request("attributes", u)
AskGroups(u) == Request("groups", u)
AskMail(u, m) == [Request("mail", u) EXCEPT !.mail = m]
AskKeep(u, a) == [Request("keep", u) EXCEPT !.mail = a]
AskNames(u) == [Request("modify", u) EXCEPT !.new = u[2]]
AskRemoval(u, s) == [Request("remove", u) EXCEPT !.school = s]
AskLists(u, W) == Lists(u, W, Members(u))

NoOps == DOMAIN ops = {}
Only(o) == DOMAIN ops = {o}
Plan(e, plan) == events[e].plan = plan

\* What is left when the address is done: the former one to be kept, or not.
Rest(u, W) == <<{AskNames(u)}, AskLists(u, W)>>
KeepRest(u, W, a) == <<{AskKeep(u, a)}, {AskNames(u)}, AskLists(u, W)>>
RestPlanned(e, u, W) == Plan(e, Rest(u, W)) \/ \E a : Plan(e, KeepRest(u, W, a))

\* What the attributes that were read say of the address.
HasRead(e, u) == HasEntry(u) /\ events[e].mail \in {"", entries[u].mail}

\* The stages, each with the operation that is under way.
Starts(e, u) == NoOps /\ Plan(e, <<{AskAttributes(u)}>>) /\ events[e].mail = ""

Asks(e, u) ==
    LET o == <<e, AskAttributes(u)>>
    IN  /\ Only(o) /\ Plan(e, <<>>) /\ events[e].mail = ""
        /\ ops[o].pc \in {"lookup", "insert", "uuid"}
        /\ ops[o].pc = "uuid" => HasEntry(u)

HasAsked(e, u) ==
    LET o == <<e, AskAttributes(u)>>
    IN  /\ NoOps \/ (Only(o) /\ ops[o].pc = "store")
        /\ Plan(e, <<{AskGroups(u)}>>) /\ HasRead(e, u)

AsksGroups(e, u) ==
    LET o == <<e, AskGroups(u)>>
    IN  Only(o) /\ ops[o].pc \in {"lookup", "members"} /\ Plan(e, <<>>) /\ HasRead(e, u)

WillMail(e, u, m, W) ==
    /\ NoOps /\ HasEntry(u)
    /\ \/ Plan(e, <<{AskMail(u, m)}, {AskNames(u)}, AskLists(u, W)>>)
       \/ \E a : Plan(e, <<{AskMail(u, m)}, {AskKeep(u, a)}, {AskNames(u)}, AskLists(u, W)>>)

Mailing(e, u, m, W) ==
    LET o == <<e, AskMail(u, m)>>
    IN  /\ Only(o) /\ ops[o].pc \in {"lookup", "primary", "alt"}
        /\ RestPlanned(e, u, W)
        /\ HasEntry(u) /\ (ops[o].pc = "alt" => MailAgrees(u, m))

HasMailed(e, u, m, W) == NoOps /\ MailAgrees(u, m) /\ RestPlanned(e, u, W)

Keeping(e, u, m, W) ==
    /\ \E a : Only(<<e, AskKeep(u, a)>>)
    /\ MailAgrees(u, m) /\ Plan(e, Rest(u, W))

Naming(e, u, m, W) ==
    LET o == <<e, AskNames(u)>>
    IN  /\ Only(o) /\ ops[o].pc \in {"lookup", "modify", "members", "replace"}
        /\ MailAgrees(u, m) /\ Plan(e, <<AskLists(u, W)>>)
        /\ ops[o].pc \in {"members", "replace"} => NamingAgrees(u, m)
        /\ ops[o].pc = "replace" =>
               \A s \in Schools : ops[o].seen[s] # {} =>
                   ops[o].seen[s] = groups[s] /\ u \in groups[s]

HasNamed(e, u, m, W) == NoOps /\ NamingAgrees(u, m) /\ Plan(e, <<AskLists(u, W)>>)

\* An operation on a group: of a school that lacks the person, perhaps one of
\* several, or the one of a school that should not have it.
Adds(e, u, W, o) ==
    /\ o[1] = e /\ o[2].uid = u /\ Kind(o) = "add" /\ o[2].school \in SchoolsOf(W)
    /\ ops[o].pc = "write" /\ u \notin groups[o[2].school] =>
           ops[o].seen[o[2].school] = groups[o[2].school]
Removes(e, u, W, o) ==
    \E s \in Schools \ SchoolsOf(W) :
        /\ o = <<e, AskRemoval(u, s)>>
        /\ u \in groups[s]
        /\ ops[o].pc = "write" => ops[o].seen[s] = groups[s]

Listing(e, u, m, W) ==
    /\ NamingAgrees(u, m) /\ Plan(e, <<>>)
    /\ \A o \in DOMAIN ops : Adds(e, u, W, o) \/ Removes(e, u, W, o)
    /\ \A s \in Schools : \/ u \in groups[s] <=> s \in SchoolsOf(W)
                          \/ \E o \in DOMAIN ops : o[2].school = s

Later(e, u, m, W) ==
    \/ Asks(e, u) \/ HasAsked(e, u) \/ AsksGroups(e, u)
    \/ WillMail(e, u, m, W) \/ Mailing(e, u, m, W) \/ HasMailed(e, u, m, W)
    \/ Keeping(e, u, m, W) \/ Naming(e, u, m, W) \/ HasNamed(e, u, m, W)
    \/ Listing(e, u, m, W)
Stage(e, u, m, W) == Starts(e, u) \/ Later(e, u, m, W)

\* The other handlers are over; this one goes by what the database has.
Wanted(p) == {k \in db[p].kontexte : Lehr(k)}
OneHandler(e, p) ==
    /\ e \in DOMAIN events /\ \A d \in DOMAIN events \ {e} : events[d] = Over
    /\ events[e].data.mail = db[p].mail /\ events[e].data.kontexte = db[p].kontexte

AllOver == NoOps /\ \A e \in DOMAIN events : events[e] = Over

Mirrored(u, m, W) == NamingAgrees(u, m) /\ GroupsAgree(u, W)

SyncOf(p) ==
    \E u, m, W :
        /\ p \in Persons /\ u = Uid(p) /\ m = db[p].mail /\ m # "" /\ W = Wanted(p)
        /\ \/ AllOver /\ Mirrored(u, m, W)
           \/ \E e : OneHandler(e, p) /\ Stage(e, u, m, W)

SyncInv == \A p : synced = p /\ p # Nobody => SyncOf(p)

LEMMA TeachesWanted ==
    ASSUME NEW p, NEW s PROVE Teaches(p, s) <=> s \in SchoolsOf(Wanted(p))
BY DEF Teaches, SchoolsOf, Wanted

LEMMA WantedSchools ==
    ASSUME FormInv, NEW p \in Persons PROVE SchoolsOf(Wanted(p)) \subseteq Schools
<1>1. db[p].kontexte \subseteq Kontexte
  BY DEF FormInv, DbFormed, RowFormed
<1> QED
  BY <1>1 DEF SchoolsOf, Wanted, Schools

\* All operations are the handler's.
LEMMA StageOps ==
    ASSUME NEW e, NEW u, NEW m, NEW W, Stage(e, u, m, W), NEW o \in DOMAIN ops PROVE o[1] = e
<1>1. CASE Listing(e, u, m, W)
  BY <1>1 DEF Listing, Adds, Removes
<1>2. ~Starts(e, u) /\ ~WillMail(e, u, m, W) /\ ~HasMailed(e, u, m, W) /\ ~HasNamed(e, u, m, W)
  BY DEF NoOps, Starts, WillMail, HasMailed, HasNamed
<1>3. CASE \E r : Only(<<e, r>>)
  BY <1>3 DEF Only
<1>4. Asks(e, u) \/ AsksGroups(e, u) \/ Mailing(e, u, m, W) \/ Naming(e, u, m, W)
          => \E r : Only(<<e, r>>)
  BY DEF Asks, AsksGroups, Mailing, Naming
<1>5. HasAsked(e, u) \/ Keeping(e, u, m, W) => \E r : Only(<<e, r>>)
  BY DEF HasAsked, Keeping, NoOps
<1> QED
  BY <1>1, <1>2, <1>3, <1>4, <1>5 DEF Stage, Later

\* Only the last stage has nothing to do left.
LEMMA NothingPlanned ==
    ASSUME NEW e, NEW u, NEW m, NEW W, Stage(e, u, m, W), events[e].plan = <<>>, NoOps
    PROVE  Listing(e, u, m, W)
<1>1. \A a, b, c, d : <<a>> # <<>> /\ <<a, b>> # <<>> /\ <<a, b, c>> # <<>> /\ <<a, b, c, d>> # <<>>
  OBVIOUS
<1>2. ~Starts(e, u) /\ ~HasAsked(e, u)
  BY <1>1 DEF Starts, HasAsked, Plan
<1>3. ~Asks(e, u) /\ ~AsksGroups(e, u) /\ ~Mailing(e, u, m, W) /\ ~Keeping(e, u, m, W)
      /\ ~Naming(e, u, m, W)
  BY DEF NoOps, Only, Asks, AsksGroups, Mailing, Keeping, Naming
<1>4. ~WillMail(e, u, m, W) /\ ~HasNamed(e, u, m, W)
  BY <1>1 DEF WillMail, HasNamed, Plan
<1>5. ~HasMailed(e, u, m, W)
  BY <1>1 DEF HasMailed, RestPlanned, Rest, KeepRest, Plan
<1> QED
  BY <1>2, <1>3, <1>4, <1>5 DEF Stage, Later

LEMMA SyncMirrorsDb ==
    ASSUME SyncInv, EventsFormed PROVE SyncMirrors
<1> SUFFICES ASSUME NEW p \in Persons, Quiet, synced = p
             PROVE  /\ Uid(p) \in DOMAIN entries
                    /\ entries[Uid(p)].mail = db[p].mail
                    /\ entries[Uid(p)].naming = db[p].name
                    /\ Members(Uid(p)) = {s \in Schools : Teaches(p, s)}
  BY DEF SyncMirrors
<1>1. SyncOf(p)
  BY LdapAssumption DEF SyncInv, Nobody
<1>2. PICK u, m, W :
          /\ u = Uid(p) /\ m = db[p].mail /\ W = Wanted(p)
          /\ \/ Mirrored(u, m, W)
             \/ \E e : OneHandler(e, p) /\ Stage(e, u, m, W)
  BY <1>1 DEF SyncOf
<1>3. Mirrored(u, m, W)
  <2>1. ASSUME NEW e, OneHandler(e, p), Stage(e, u, m, W) PROVE Mirrored(u, m, W)
    <3>1. DOMAIN ops = {} /\ events[e].plan = <<>>
      <4>1. DOMAIN ops = {} /\ events[e] = Over
        BY <2>1 DEF Quiet, OneHandler
      <4>2. Over.plan = <<>>
        BY DEF Over
      <4> QED
        BY <4>1, <4>2
    <3>2. Listing(e, u, m, W)
      BY <2>1, <3>1, NothingPlanned DEF NoOps
    <3> QED
      BY <3>1, <3>2 DEF Listing, Mirrored, GroupsAgree
  <2> QED
    BY <1>2, <2>1
<1>4. Members(Uid(p)) = {s \in Schools : Teaches(p, s)}
  BY <1>2, <1>3, TeachesWanted DEF Mirrored, GroupsAgree, Members
<1>5. Uid(p)[2] = db[p].name
  BY DEF Uid
<1> QED
  BY <1>2, <1>3, <1>4, <1>5 DEF Mirrored, NamingAgrees, MailAgrees, HasEntry

-----------------------------------------------------------------------------
(* Steps of its operations.                                                *)

\* Where an operation is says which step it takes, if no call fails.
LEMMA StepAt ==
    ASSUME NEW o, Step(o), ~CallFails
    PROVE  /\ ops[o].pc = "search" => Search(o)
           /\ ops[o].pc = "write" => AddMember(o) \/ RemoveMember(o)
           /\ ops[o].pc = "lookup" => Lookup(o)
           /\ ops[o].pc = "insert" => Insert(o)
           /\ ops[o].pc = "uuid" => ReadUuid(o)
           /\ ops[o].pc = "modify" => ModifyNames(o)
           /\ ops[o].pc = "rename" => ModifyDn(o)
           /\ ops[o].pc = "delete" => Delete(o)
           /\ ops[o].pc = "members" => CopyMembers(o) \/ GroupsFound(o)
           /\ ops[o].pc = "replace" => \E s \in Schools : Replace(o, s)
           /\ ops[o].pc = "primary" => Primary(o)
           /\ ops[o].pc = "alt" => Alternative(o)
           /\ ops[o].pc = "store" => Store(o)
<1>1. ~CallLost(o)
  BY DEF CallLost
<1>2. /\ Search(o) => ops[o].pc = "search"
      /\ AddMember(o) \/ RemoveMember(o) => ops[o].pc = "write"
      /\ Lookup(o) => ops[o].pc = "lookup"
      /\ Insert(o) => ops[o].pc = "insert"
      /\ ReadUuid(o) => ops[o].pc = "uuid"
      /\ ModifyNames(o) => ops[o].pc = "modify"
  BY DEF Search, AddMember, RemoveMember, Lookup, Insert, ReadUuid, ModifyNames
<1>3. /\ ModifyDn(o) => ops[o].pc = "rename"
      /\ Delete(o) => ops[o].pc = "delete"
      /\ CopyMembers(o) \/ GroupsFound(o) => ops[o].pc = "members"
      /\ (\E s \in Schools : Replace(o, s)) => ops[o].pc = "replace"
      /\ Primary(o) => ops[o].pc = "primary"
      /\ Alternative(o) => ops[o].pc = "alt"
      /\ Store(o) => ops[o].pc = "store"
  BY DEF ModifyDn, Delete, CopyMembers, GroupsFound, Replace, Primary, Alternative, Store
<1> QED
  BY <1>1, <1>2, <1>3 DEF Step

LEMMA AnswerComes ==
    ASSUME NEW o, NEW pc, Answered(o, pc), ~CallFails PROVE Goto(o, pc)
BY DEF Answered

LEMMA GotoDoes ==
    ASSUME MutexInv, NEW o \in DOMAIN ops, NEW pc, pc # "end", Goto(o, pc)
    PROVE  /\ DOMAIN ops' = DOMAIN ops /\ \A x \in DOMAIN ops : x # o => ops'[x] = ops[x]
           /\ ops'[o].pc = pc /\ ops'[o].seen = ops[o].seen /\ ops'[o].mail = ops[o].mail
<1> DEFINE to == [ops[o] EXCEPT !.pc = pc]
<1>1. to.pc = pc /\ to.seen = ops[o].seen /\ to.mail = ops[o].mail
  BY DEF MutexInv, Sound, Formed
<1>2. Continue(o, to)
  BY DEF Goto
<1> HIDE DEF to
<1>3. ops' = [ops EXCEPT ![o] = to]
  BY <1>1, <1>2 DEF Continue
<1> QED
  BY <1>1, <1>3

LEMMA GotoEnds ==
    ASSUME MutexInv, NEW o \in DOMAIN ops, Goto(o, "end")
    PROVE  /\ DOMAIN ops' = DOMAIN ops \ {o}
           /\ \A x \in DOMAIN ops : x # o => ops'[x] = ops[x]
<1>1. ops' = Without(o)
  BY PcOf DEF Goto, Continue
<1> QED
  BY <1>1 DEF Without

LEMMA EventPlan ==
    ASSUME EventsFormed, NEW e \in DOMAIN events, NEW x, DOMAIN x = EventFields,
           events' = [events EXCEPT ![e] = x]
    PROVE  events'[e] = x
BY EventForms

LEMMA AsksStep ==
    ASSUME MutexInv, FormInv, NEW e \in DOMAIN events, NEW u, Asks(e, u),
           NEW o \in DOMAIN ops, Step(o), ~CallFails
    PROVE  Asks(e, u)' \/ HasAsked(e, u)'
<1>1. /\ o = <<e, AskAttributes(u)>> /\ DOMAIN ops = {o} /\ Plan(e, <<>>) /\ events[e].mail = ""
      /\ ops[o].pc \in {"lookup", "insert", "uuid"} /\ (ops[o].pc = "uuid" => HasEntry(u))
  BY DEF Asks, Only
<1>2. Kind(o) = "attributes" /\ o[2].uid = u /\ o[1] = e
  BY <1>1 DEF Kind, AskAttributes, Request
<1>3. DOMAIN events[e] = EventFields
  BY EventIsFormed DEF FormInv
<1>4. CASE ops[o].pc = "lookup"
  <2>1. Lookup(o)
    BY <1>4, StepAt
  <2>2. CASE u \notin DOMAIN entries
    <3>1. Goto(o, "insert") /\ UNCHANGED <<events, entries>>
      BY <1>2, <2>1, <2>2 DEF Lookup, LookupMissing, LookupFound
    <3> QED
      BY ZenonT(40), <1>1, <3>1, GotoDoes DEF Asks, Only, Plan
  <2>3. CASE u \in DOMAIN entries
    <3> DEFINE x == [events[e] EXCEPT !.mail = entries[u].mail, !.alt = entries[u].alt,
                                      !.plan = <<{Request("groups", u)}>>]
    <3>1. Goto(o, "end") /\ UNCHANGED entries /\ events' = [events EXCEPT ![e] = x]
      BY <1>2, <2>1, <2>3 DEF Lookup, LookupMissing, LookupFound
    <3>2. /\ DOMAIN x = EventFields /\ x.plan = <<{AskGroups(u)}>>
          /\ x.mail = entries[u].mail
      BY <1>3 DEF EventFields, AskGroups
    <3> HIDE DEF x
    <3>3. events'[e] = x
      BY <3>1, <3>2, EventPlan DEF FormInv
    <3>4. NoOps'
      BY <1>1, <3>1, GotoEnds DEF NoOps
    <3> QED
      BY <2>3, <3>1, <3>2, <3>3, <3>4 DEF HasAsked, Plan, HasRead, HasEntry
  <2> QED
    BY <2>2, <2>3
<1>5. CASE ops[o].pc = "insert"
  <2>1. Insert(o)
    BY <1>5, StepAt
  <2>2. Goto(o, "uuid") /\ UNCHANGED events /\ u \in DOMAIN entries'
    BY <1>2, <2>1, AnswerComes DEF Insert, SetEntry
  <2> QED
    BY <1>1, <2>2, GotoDoes DEF Asks, Only, Plan, HasEntry
<1>6. CASE ops[o].pc = "uuid"
  <2>1. ReadUuid(o)
    BY <1>6, StepAt
  <2> DEFINE x == [events[e] EXCEPT !.uuid = TRUE, !.plan = <<{Request("groups", u)}>>]
  <2>2. Goto(o, "store") /\ UNCHANGED entries /\ events' = [events EXCEPT ![e] = x]
    BY <1>2, <2>1 DEF ReadUuid
  <2>3. DOMAIN x = EventFields /\ x.plan = <<{AskGroups(u)}>> /\ x.mail = ""
    BY <1>1, <1>3 DEF EventFields, AskGroups
  <2> HIDE DEF x
  <2>4. events'[e] = x
    BY <2>2, <2>3, EventPlan DEF FormInv
  <2>5. Only(o)' /\ ops'[o].pc = "store"
    BY <1>1, <2>2, GotoDoes DEF Only
  <2> QED
    BY <1>1, <1>6, <2>2, <2>3, <2>4, <2>5 DEF HasAsked, Plan, HasRead, HasEntry
<1> QED
  BY <1>1, <1>4, <1>5, <1>6

LEMMA HasAskedStep ==
    ASSUME MutexInv, NEW e, NEW u, HasAsked(e, u), NEW o \in DOMAIN ops, Step(o), ~CallFails
    PROVE  HasAsked(e, u)'
<1>1. DOMAIN ops = {o} /\ ops[o].pc = "store"
  BY DEF HasAsked, NoOps, Only
<1>2. Goto(o, "end") /\ UNCHANGED <<events, entries>>
  BY <1>1, StepAt DEF Store
<1>3. NoOps'
  BY <1>1, <1>2, GotoEnds DEF NoOps
<1> QED
  BY <1>2, <1>3 DEF HasAsked, Plan, HasRead, HasEntry

LEMMA AsksGroupsStep ==
    ASSUME MutexInv, FormInv, NEW e \in DOMAIN events, NEW u, NEW m, NEW W, AsksGroups(e, u),
           m # "", events[e].data.mail = m, W = {k \in events[e].data.kontexte : Lehr(k)},
           NEW o \in DOMAIN ops, Step(o), ~CallFails, synced' # Nobody
    PROVE  AsksGroups(e, u)' \/ WillMail(e, u, m, W)' \/ HasMailed(e, u, m, W)'
<1>1. /\ o = <<e, AskGroups(u)>> /\ DOMAIN ops = {o} /\ Plan(e, <<>>) /\ HasRead(e, u)
      /\ ops[o].pc \in {"lookup", "members"}
  BY DEF AsksGroups, Only
<1>2. Kind(o) = "groups" /\ o[2].uid = u /\ o[1] = e
  BY <1>1 DEF Kind, AskGroups, Request
<1>3. CASE ops[o].pc = "lookup"
  <2>1. Goto(o, "members") /\ UNCHANGED <<events, entries>>
    BY <1>1, <1>2, <1>3, StepAt DEF Lookup, LookupMissing, LookupFound, HasRead, HasEntry
  <2> QED
    BY <1>1, <2>1, GotoDoes DEF AsksGroups, Only, Plan, HasRead, HasEntry
<1>4. CASE ops[o].pc = "members"
  <2>1. GroupsFound(o)
    BY <1>2, <1>4, StepAt DEF CopyMembers
  <2> DEFINE plan == SyncPlan(e, u, Members(u))
             x == [events[e] EXCEPT !.plan = plan]
  <2>2. ~SyncAborts(events[e])
    BY <1>2, <2>1 DEF GroupsFound
  <2>3. Goto(o, "end") /\ UNCHANGED <<entries, groups>> /\ events' = [events EXCEPT ![e] = x]
    BY <1>2, <2>1, <2>2 DEF GroupsFound
  <2>4. DOMAIN x = EventFields /\ x.plan = plan
    BY EventIsFormed DEF FormInv, EventFields
  <2>5. events'[e].plan = plan
    <3> HIDE DEF x, plan
    <3> QED
      BY <2>3, <2>4, EventPlan DEF FormInv
  <2>6. NoOps'
    BY <1>1, <2>3, GotoEnds DEF NoOps
  <2>7. AskLists(u, W)' = AskLists(u, W)
    BY <2>3 DEF AskLists, Members
  <2>8. CASE events[e].mail = m
    <3>1. plan = Rest(u, W)
      BY <2>8 DEF SyncPlan, Rest, AskNames, AskLists
    <3>2. MailAgrees(u, m)'
      BY <1>1, <2>3, <2>8 DEF HasRead, MailAgrees, HasEntry
    <3> QED
      BY <2>5, <2>6, <2>7, <3>1, <3>2 DEF HasMailed, RestPlanned, Rest, Plan
  <2>9. CASE events[e].mail # m
    <3>1. \/ plan = <<{AskMail(u, m)}, {AskNames(u)}, AskLists(u, W)>>
          \/ plan = <<{AskMail(u, m)}, {AskKeep(u, events[e].alt)}, {AskNames(u)}, AskLists(u, W)>>
      BY <2>9 DEF SyncPlan, AskMail, AskKeep, AskNames, AskLists
    <3>2. HasEntry(u)'
      BY <1>1, <2>3 DEF HasRead, HasEntry
    <3> QED
      BY <2>5, <2>6, <2>7, <3>1, <3>2 DEF WillMail, Plan
  <2> QED
    BY <2>8, <2>9
<1> QED
  BY <1>1, <1>3, <1>4

\* What is left depends on nothing but the groups.
LEMMA RestSame ==
    ASSUME UNCHANGED groups, NEW u, NEW W
    PROVE  /\ AskLists(u, W)' = AskLists(u, W) /\ Rest(u, W)' = Rest(u, W)
           /\ \A a : KeepRest(u, W, a)' = KeepRest(u, W, a)
<1>1. AskLists(u, W)' = AskLists(u, W)
  BY DEF AskLists, Members
<1> QED
  BY <1>1 DEF Rest, KeepRest

LEMMA RestKept ==
    ASSUME UNCHANGED <<events, groups>>, NEW e, NEW u, NEW W
    PROVE  /\ AskLists(u, W)' = AskLists(u, W)
           /\ RestPlanned(e, u, W) => RestPlanned(e, u, W)'
BY RestSame DEF RestPlanned, Plan

LEMMA MailingStep ==
    ASSUME MutexInv, FormInv, NEW e, NEW u, NEW m, NEW W, Mailing(e, u, m, W),
           NEW o \in DOMAIN ops, Step(o), ~CallFails
    PROVE  Mailing(e, u, m, W)' \/ HasMailed(e, u, m, W)'
<1>1. /\ o = <<e, AskMail(u, m)>> /\ DOMAIN ops = {o} /\ RestPlanned(e, u, W) /\ HasEntry(u)
      /\ ops[o].pc \in {"lookup", "primary", "alt"} /\ (ops[o].pc = "alt" => MailAgrees(u, m))
  BY DEF Mailing, Only
<1>2. Kind(o) = "mail" /\ o[2].uid = u /\ o[2].mail = m
  BY <1>1 DEF Kind, AskMail, Request
<1>3. DOMAIN entries[u] = EntryFields
  BY <1>1 DEF HasEntry, FormInv, EntriesFormed
<1>4. CASE ops[o].pc = "lookup"
  <2> DEFINE to == [ops[o] EXCEPT !.pc = "primary", !.mail = entries[u].mail]
  <2>1. Continue(o, to) /\ UNCHANGED <<events, entries, groups>>
    BY <1>1, <1>2, <1>4, StepAt DEF Lookup, LookupMissing, LookupFound, HasEntry
  <2>2. to.pc = "primary"
    BY DEF MutexInv, Sound, Formed
  <2> HIDE DEF to
  <2>3. ops' = [ops EXCEPT ![o] = to]
    BY <2>1, <2>2 DEF Continue
  <2>4. Only(o)' /\ ops'[o].pc = "primary"
    BY <1>1, <2>2, <2>3 DEF Only
  <2> QED
    BY <1>1, <2>1, <2>4, RestKept DEF Mailing, HasEntry
<1>5. CASE ops[o].pc = "primary"
  <2>1. Goto(o, "alt") /\ UNCHANGED <<events, groups>>
        /\ SetEntry(u, [entries[u] EXCEPT !.mail = m])
    BY <1>2, <1>5, StepAt, AnswerComes DEF Primary
  <2>2. MailAgrees(u, m)'
    BY <1>3, <2>1 DEF SetEntry, MailAgrees, HasEntry, EntryFields
  <2> QED
    BY <1>1, <2>1, <2>2, GotoDoes, RestKept DEF Mailing, Only, MailAgrees
<1>6. CASE ops[o].pc = "alt"
  <2>1. Goto(o, "end") /\ UNCHANGED <<events, groups>>
        /\ SetEntry(u, [entries[u] EXCEPT !.alt = ops[o].mail])
    BY <1>2, <1>6, StepAt, AnswerComes DEF Alternative
  <2>2. MailAgrees(u, m)'
    BY <1>1, <1>3, <1>6, <2>1 DEF SetEntry, MailAgrees, HasEntry, EntryFields
  <2>3. NoOps'
    BY <1>1, <2>1, GotoEnds DEF NoOps
  <2> QED
    BY <1>1, <2>1, <2>2, <2>3, RestKept DEF HasMailed
<1> QED
  BY <1>1, <1>4, <1>5, <1>6

LEMMA KeepingStep ==
    ASSUME MutexInv, NEW e, NEW u, NEW m, NEW W, Keeping(e, u, m, W),
           NEW o \in DOMAIN ops, Step(o), ~CallFails
    PROVE  HasMailed(e, u, m, W)'
<1>1. PICK a : o = <<e, AskKeep(u, a)>> /\ DOMAIN ops = {o}
  BY DEF Keeping, Only
<1>2. Kind(o) = "keep"
  BY <1>1 DEF Kind, AskKeep, Request
<1>3. ops[o].pc = "store"
  BY <1>2 DEF MutexInv, Sound, Unguarded
<1>4. Goto(o, "end") /\ UNCHANGED <<events, entries, groups>>
  BY <1>3, StepAt DEF Store
<1>5. NoOps'
  BY <1>1, <1>4, GotoEnds DEF NoOps
<1>6. MailAgrees(u, m)'
  BY <1>4 DEF Keeping, MailAgrees, HasEntry
<1>7. RestPlanned(e, u, W)
  BY DEF Keeping, RestPlanned
<1> QED
  BY <1>4, <1>5, <1>6, <1>7, RestKept DEF HasMailed

LEMMA NamingStep ==
    ASSUME MutexInv, FormInv, NEW e, NEW u, NEW m, NEW W, Naming(e, u, m, W), u = <<u[1], u[2]>>,
           NEW o \in DOMAIN ops, Step(o), ~CallFails
    PROVE  /\ Naming(e, u, m, W)' \/ HasNamed(e, u, m, W)'
           /\ \A s \in Schools : groups'[s] = groups[s]
           /\ DOMAIN entries' = DOMAIN entries
           /\ \A v \in DOMAIN entries : v # u => entries'[v] = entries[v]
<1>1. /\ o = <<e, AskNames(u)>> /\ DOMAIN ops = {o} /\ MailAgrees(u, m)
      /\ ops[o].pc \in {"lookup", "modify", "members", "replace"}
      /\ Plan(e, <<AskLists(u, W)>>)
      /\ ops[o].pc \in {"members", "replace"} => NamingAgrees(u, m)
      /\ ops[o].pc = "replace" => \A s \in Schools : ops[o].seen[s] # {} =>
               ops[o].seen[s] = groups[s] /\ u \in groups[s]
  BY DEF Naming, Only
<1>2. Kind(o) = "modify" /\ o[2].uid = u /\ o[2].new = u[2] /\ NewUid(o) = u
  BY <1>1 DEF Kind, AskNames, Request, NewUid
<1>3. DOMAIN entries[u] = EntryFields
  BY <1>1 DEF MailAgrees, HasEntry, FormInv, EntriesFormed
<1>4. ASSUME UNCHANGED <<events, entries>>, \A s \in Schools : groups'[s] = groups[s]
      PROVE  Plan(e, <<AskLists(u, W)>>)' /\ (NamingAgrees(u, m) => NamingAgrees(u, m)')
  <2>1. AskLists(u, W)' = AskLists(u, W)
    BY <1>4 DEF AskLists, Members
  <2> QED
    BY <1>1, <1>4, <2>1 DEF Plan, NamingAgrees, MailAgrees, HasEntry
<1>5. CASE ops[o].pc = "lookup"
  <2>1. Goto(o, "modify") /\ UNCHANGED <<events, entries, groups>>
    BY <1>1, <1>2, <1>5, StepAt DEF Lookup, LookupMissing, LookupFound, MailAgrees, HasEntry
  <2>2. MailAgrees(u, m)'
    BY <1>1, <2>1 DEF MailAgrees, HasEntry
  <2> QED
    BY <1>1, <1>4, <2>1, <2>2, GotoDoes DEF Naming, Only
<1>6. CASE ops[o].pc = "modify"
  <2>1. Goto(o, "members") /\ UNCHANGED <<events, groups>>
        /\ SetEntry(u, [entries[u] EXCEPT !.naming = u[2]])
    BY <1>2, <1>6, StepAt, AnswerComes DEF ModifyNames
  <2>2. NamingAgrees(u, m)'
    BY <1>1, <1>3, <2>1 DEF SetEntry, NamingAgrees, MailAgrees, HasEntry, EntryFields
  <2>3. Plan(e, <<AskLists(u, W)>>)'
    BY <1>1, <2>1, RestKept DEF Plan
  <2>4. /\ DOMAIN entries' = DOMAIN entries
        /\ \A v \in DOMAIN entries : v # u => entries'[v] = entries[v]
    BY <1>1, <2>1 DEF SetEntry, MailAgrees, HasEntry
  <2> QED
    BY <1>1, <2>1, <2>2, <2>3, <2>4, GotoDoes DEF Naming, Only, NamingAgrees
<1>7. ASSUME NEW seen, NEW pc, Continue(o, [ops[o] EXCEPT !.seen = seen, !.pc = pc]),
             \/ /\ pc = "replace"
                /\ \A s \in Schools : seen[s] # {} => seen[s] = groups[s] /\ u \in groups[s]
             \/ pc = "end",
             UNCHANGED <<events, entries>>, \A s \in Schools : groups'[s] = groups[s],
             NamingAgrees(u, m)
      PROVE  Naming(e, u, m, W)' \/ HasNamed(e, u, m, W)'
  <2> DEFINE to == [ops[o] EXCEPT !.seen = seen, !.pc = pc]
  <2>1. to.pc = pc /\ to.seen = seen
    BY DEF MutexInv, Sound, Formed
  <2> HIDE DEF to
  <2>2. CASE pc = "end"
    <3>1. ops' = Without(o)
      BY <1>7, <2>1, <2>2 DEF Continue, to
    <3>2. NoOps'
      BY <1>1, <3>1 DEF Without, NoOps
    <3> QED
      BY <1>4, <1>7, <3>2 DEF HasNamed
  <2>3. CASE pc = "replace"
    <3>1. ops' = [ops EXCEPT ![o] = to]
      BY <1>7, <2>1, <2>3 DEF Continue, to
    <3>2. DOMAIN ops' = {o} /\ ops'[o].pc = "replace" /\ ops'[o].seen = seen
      BY <1>1, <2>1, <2>3, <3>1
    <3>3. NamingAgrees(u, m)' /\ Plan(e, <<AskLists(u, W)>>)'
      BY <1>4, <1>7
    <3>4. \A s \in Schools : seen[s] # {} => seen[s] = groups'[s] /\ u \in groups'[s]
      BY <1>7, <2>3
    <3> QED
      BY <1>1, <3>2, <3>3, <3>4 DEF Naming, Only, NamingAgrees
  <2> QED
    BY <1>7, <2>2, <2>3
<1>8. CASE ops[o].pc = "members"
  <2> DEFINE copies == [s \in Schools |-> IF s \in Members(u) THEN groups[s] ELSE {}]
             pc == IF copies = NoCopies THEN "end" ELSE "replace"
  <2>1. CopyMembers(o)
    BY <1>2, <1>8, StepAt DEF GroupsFound
  <2>2. Continue(o, [ops[o] EXCEPT !.seen = copies, !.pc = pc])
        /\ UNCHANGED <<events, entries, groups>>
    BY <1>2, <2>1 DEF CopyMembers
  <2>3. \A s \in Schools : copies[s] # {} => copies[s] = groups[s] /\ u \in groups[s]
    BY DEF Members
  <2>4. pc \in {"end", "replace"}
    OBVIOUS
  <2> HIDE DEF copies, pc
  <2> QED
    BY <1>1, <1>7, <1>8, <2>2, <2>3, <2>4
<1>9. CASE ops[o].pc = "replace"
  <2>1. PICK t \in Schools : Replace(o, t)
    BY <1>9, StepAt
  <2> DEFINE left == [ops[o].seen EXCEPT ![t] = {}]
             pc == IF left = NoCopies THEN "end" ELSE "replace"
  <2>2. Continue(o, [ops[o] EXCEPT !.seen = left, !.pc = pc]) /\ UNCHANGED <<events, entries>>
        /\ ops[o].seen[t] # {}
    BY <2>1 DEF Replace
  <2>3. ops[o].seen[t] = groups[t] /\ u \in groups[t]
    BY <1>1, <1>9, <2>2
  <2>4. (ops[o].seen[t] \ {u}) \cup {u} = groups[t]
    BY <2>3
  <2> DEFINE members == [groups EXCEPT ![t] = (ops[o].seen[t] \ {o[2].uid}) \cup {NewUid(o)}]
  <2>5. groups' = members \/ groups' = groups
    BY <2>1 DEF Replace
  <2>6. \A s \in Schools : groups'[s] = groups[s]
    <3>1. members = [groups EXCEPT ![t] = groups[t]]
      BY <1>2, <2>4
    <3> QED
      BY <2>5, <3>1 DEF FormInv, GroupsFormed
  <2>7. DOMAIN ops[o].seen = Schools
    BY DEF MutexInv, Sound, Formed
  <2>8. \A s \in Schools : left[s] # {} => left[s] = groups[s] /\ u \in groups[s]
    BY <1>1, <1>9, <2>7
  <2>9. pc \in {"end", "replace"}
    OBVIOUS
  <2> HIDE DEF left, pc
  <2> QED
    BY <1>1, <1>7, <1>9, <2>2, <2>6, <2>8, <2>9
<1> QED
  BY <1>1, <1>5, <1>6, <1>8, <1>9

\* What a step of an operation on a group comes to: it goes on, with what Adds
\* or Removes says of it, or its school is done.
Works(e, u, W, o) ==
    LET t == o[2].school
    IN  /\ UNCHANGED <<entries, events>>
        /\ \A s \in Schools : s # t => groups'[s] = groups[s]
        /\ DOMAIN ops' \in {DOMAIN ops, DOMAIN ops \ {o}}
        /\ \A x \in DOMAIN ops : x # o => ops'[x] = ops[x]
        /\ o \notin DOMAIN ops' \/ groups'[t] # groups[t]
               => (u \in groups'[t] <=> t \in SchoolsOf(W))

LEMMA AddStep ==
    ASSUME MutexInv, FormInv, NEW e, NEW u, NEW W, SchoolsOf(W) \subseteq Schools,
           NEW o \in DOMAIN ops, Adds(e, u, W, o), Step(o), ~CallFails
    PROVE  Works(e, u, W, o) /\ (o \in DOMAIN ops' => Adds(e, u, W, o)')
<1> DEFINE t == o[2].school
<1>1. /\ o[1] = e /\ o[2].uid = u /\ Kind(o) = "add" /\ t \in SchoolsOf(W) /\ t \in Schools
      /\ ops[o].pc = "write" /\ u \notin groups[t] => ops[o].seen[t] = groups[t]
  BY DEF Adds
<1>2. ops[o].pc \in {"search", "write"} /\ Formed(ops[o]) /\ DOMAIN groups = Schools
  BY <1>1 DEF MutexInv, Sound, Unguarded, FormInv, GroupsFormed
<1>3. CASE ops[o].pc = "search"
  <2>1. Search(o)
    BY <1>3, StepAt
  <2>2. UNCHANGED <<entries, groups, events>>
    BY <2>1 DEF Search
  <2>3. CASE u \in groups[t]
    <3>1. Goto(o, "end")
      BY <1>1, <2>1, <2>3 DEF Search
    <3> QED
      BY <1>1, <2>2, <2>3, <3>1, GotoEnds DEF Works
  <2>4. CASE u \notin groups[t]
    <3> DEFINE seen == [ops[o].seen EXCEPT ![t] = groups[t]]
               to == [ops[o] EXCEPT !.pc = "write", !.seen = seen]
    <3>1. Continue(o, to)
      BY <1>1, <2>1, <2>4 DEF Search
    <3>2. to.pc = "write" /\ to.seen[t] = groups[t]
      BY <1>1, <1>2 DEF Formed
    <3> HIDE DEF to
    <3>3. ops' = [ops EXCEPT ![o] = to]
      BY <3>1, <3>2 DEF Continue
    <3> QED
      BY <1>1, <2>2, <3>2, <3>3 DEF Works, Adds
  <2> QED
    BY <2>3, <2>4
<1>4. CASE ops[o].pc = "write"
  <2>1. AddMember(o)
    BY <1>1, <1>4, StepAt DEF RemoveMember
  <2>2. UNCHANGED <<entries, events>>
    BY <2>1 DEF AddMember, Refused
  <2>3. CASE u \notin groups[t]
    <3>1. groups' = [groups EXCEPT ![t] = groups[t] \cup {u}] /\ Answered(o, "end")
      BY <1>1, <1>4, <2>1, <2>3 DEF AddMember
    <3>2. Goto(o, "end")
      BY <3>1, AnswerComes
    <3>3. u \in groups'[t] /\ \A s \in Schools : s # t => groups'[s] = groups[s]
      BY <1>1, <1>2, <3>1
    <3> QED
      BY <1>1, <2>2, <3>2, <3>3, GotoEnds DEF Works
  <2>4. CASE u \in groups[t]
    <3>1. Fail(o) /\ groups' = groups
      BY <1>1, <2>1, <2>4 DEF AddMember, Refused
    <3>2. Inner(o) = ""
      BY <1>1 DEF Inner
    <3>3. \/ \E try : ops' = [ops EXCEPT ![o] = Begun(o, try)]
          \/ ops' = Without(o)
      BY <3>1, <3>2 DEF Fail
    <3>4. CASE ops' = Without(o)
      BY <1>1, <2>2, <2>4, <3>1, <3>4 DEF Without, Works
    <3>5. ASSUME NEW try, ops' = [ops EXCEPT ![o] = Begun(o, try)]
          PROVE  Works(e, u, W, o) /\ Adds(e, u, W, o)'
      BY <1>1, <2>2, <2>4, <3>1, <3>5 DEF Works, Adds
    <3> QED
      BY <3>3, <3>4, <3>5
  <2> QED
    BY <2>3, <2>4
<1> QED
  BY <1>2, <1>3, <1>4

LEMMA RemoveStep ==
    ASSUME MutexInv, FormInv, NEW e, NEW u, NEW W,
           NEW o \in DOMAIN ops, Removes(e, u, W, o), Step(o), ~CallFails
    PROVE  Works(e, u, W, o) /\ (o \in DOMAIN ops' => Removes(e, u, W, o)')
<1>1. PICK t \in Schools \ SchoolsOf(W) :
          /\ o = <<e, AskRemoval(u, t)>> /\ u \in groups[t]
          /\ ops[o].pc = "write" => ops[o].seen[t] = groups[t]
  BY DEF Removes
<1>2. Kind(o) = "remove" /\ o[2].uid = u /\ o[2].school = t
  BY <1>1 DEF Kind, AskRemoval, Request
<1>3. ops[o].pc \in {"search", "write"} /\ Formed(ops[o]) /\ DOMAIN groups = Schools
  BY <1>2 DEF MutexInv, Sound, Unguarded, FormInv, GroupsFormed
<1>4. CASE ops[o].pc = "search"
  <2>1. Search(o)
    BY <1>4, StepAt
  <2> DEFINE seen == [ops[o].seen EXCEPT ![t] = groups[t]]
             to == [ops[o] EXCEPT !.pc = "write", !.seen = seen]
  <2>2. UNCHANGED <<entries, groups, events>> /\ Continue(o, to)
    BY <1>1, <1>2, <2>1 DEF Search
  <2>3. to.pc = "write" /\ to.seen[t] = groups[t]
    BY <1>1, <1>3 DEF Formed
  <2> HIDE DEF to
  <2>4. ops' = [ops EXCEPT ![o] = to]
    BY <2>2, <2>3 DEF Continue
  <2>5. Works(e, u, W, o)
    BY <1>2, <2>2, <2>4 DEF Works
  <2>6. ops'[o].seen[t] = groups'[t] /\ u \in groups'[t]
    BY <1>1, <2>2, <2>3, <2>4
  <2>7. Removes(e, u, W, o)'
    BY <1>1, <2>6 DEF Removes
  <2> QED
    BY <2>5, <2>7
<1>5. CASE ops[o].pc = "write"
  <2>1. RemoveMember(o)
    BY <1>2, <1>5, StepAt DEF AddMember
  <2>2. ops[o].seen[t] = groups[t] /\ u \in groups[t]
    BY <1>1, <1>5
  <2>3. /\ groups' = [groups EXCEPT ![t] = IF ops[o].seen[t] = {u} THEN {} ELSE groups[t] \ {u}]
        /\ Answered(o, "end") /\ UNCHANGED <<entries, events>>
    BY <1>2, <2>1, <2>2 DEF RemoveMember
  <2>4. u \notin groups'[t] /\ \A s \in Schools : s # t => groups'[s] = groups[s]
    BY <1>1, <1>3, <2>3
  <2>5. Goto(o, "end")
    BY <2>3, AnswerComes
  <2> QED
    BY <1>1, <1>2, <2>3, <2>4, <2>5, GotoEnds DEF Works
<1> QED
  BY <1>3, <1>4, <1>5

LEMMA ListingStep ==
    ASSUME MutexInv, FormInv, NEW e, NEW u, NEW m, NEW W, Listing(e, u, m, W),
           SchoolsOf(W) \subseteq Schools, NEW o \in DOMAIN ops, Step(o), ~CallFails
    PROVE  Listing(e, u, m, W)'
<1> DEFINE t == o[2].school
<1>1. Adds(e, u, W, o) \/ Removes(e, u, W, o)
  BY DEF Listing
<1>2. /\ Works(e, u, W, o)
      /\ Adds(e, u, W, o) => (o \in DOMAIN ops' => Adds(e, u, W, o)')
      /\ Removes(e, u, W, o) => (o \in DOMAIN ops' => Removes(e, u, W, o)')
  BY <1>1, AddStep, RemoveStep
<1>3. NamingAgrees(u, m)' /\ Plan(e, <<>>)'
  BY <1>2 DEF Works, Listing, NamingAgrees, MailAgrees, HasEntry, Plan
<1>4. \A x \in DOMAIN ops : Adds(e, u, W, x) => x[2].school \in SchoolsOf(W)
  BY DEF Adds
<1>5. ASSUME NEW x \in DOMAIN ops', x # o PROVE Adds(e, u, W, x)' \/ Removes(e, u, W, x)'
  <2>1. x \in DOMAIN ops /\ ops'[x] = ops[x]
    BY <1>2, <1>5 DEF Works
  <2>2. CASE Adds(e, u, W, x)
    <3>1. /\ x[1] = e /\ x[2].uid = u /\ Kind(x) = "add" /\ x[2].school \in SchoolsOf(W)
          /\ ops[x].pc = "write" /\ u \notin groups[x[2].school] =>
                 ops[x].seen[x[2].school] = groups[x[2].school]
      BY <2>2 DEF Adds
    <3>2. groups'[x[2].school] = groups[x[2].school] \/ u \in groups'[x[2].school]
      BY <1>2, <3>1 DEF Works
    <3> QED
      BY <2>1, <3>1, <3>2 DEF Adds
  <2>3. CASE Removes(e, u, W, x)
    <3>1. PICK s \in Schools \ SchoolsOf(W) :
              /\ x = <<e, AskRemoval(u, s)>> /\ u \in groups[s]
              /\ ops[x].pc = "write" => ops[x].seen[s] = groups[s]
      BY <2>3 DEF Removes
    <3>2. t # s
      <4>1. CASE Adds(e, u, W, o)
        BY <3>1, <4>1, <1>4
      <4>2. CASE Removes(e, u, W, o)
        <5>1. PICK r \in Schools : o = <<e, AskRemoval(u, r)>>
          BY <4>2 DEF Removes
        <5>2. t = r
          BY <5>1 DEF AskRemoval, Request
        <5> QED
          BY <1>5, <3>1, <5>1, <5>2
      <4> QED
        BY <1>1, <4>1, <4>2
    <3>3. groups'[s] = groups[s]
      BY <1>2, <3>2 DEF Works
    <3> QED
      BY <2>1, <3>1, <3>3 DEF Removes
  <2> QED
    BY <2>1, <2>2, <2>3 DEF Listing
<1>6. ASSUME NEW s \in Schools
      PROVE  \/ u \in groups'[s] <=> s \in SchoolsOf(W)
             \/ \E x \in DOMAIN ops' : x[2].school = s
  <2>1. CASE s = t
    BY <1>2, <2>1 DEF Works
  <2>2. CASE s # t
    BY <1>2, <2>2 DEF Works, Listing
  <2> QED
    BY <2>1, <2>2
<1>7. \A x \in DOMAIN ops' : Adds(e, u, W, x)' \/ Removes(e, u, W, x)'
  BY <1>1, <1>2, <1>5
<1> QED
  BY <1>3, <1>6, <1>7 DEF Listing

-----------------------------------------------------------------------------
(* Its operations begin.                                                    *)

\* Plans are tuples.
LEMMA Tuples ==
    /\ \A a : Head(<<a>>) = a /\ Tail(<<a>>) = <<>>
    /\ \A a, b : Head(<<a, b>>) = a /\ Tail(<<a, b>>) = <<b>>
    /\ \A a, b, c : Head(<<a, b, c>>) = a /\ Tail(<<a, b, c>>) = <<b, c>>
    /\ \A a, b, c, d : Head(<<a, b, c, d>>) = a /\ Tail(<<a, b, c, d>>) = <<b, c, d>>
OBVIOUS

\* Operations start with a lookup, or with a search if they are for a group.
LEMMA BegunAt ==
    ASSUME NEW o
    PROVE  /\ Kind(o) \in {"attributes", "groups", "mail", "modify"} => Begun(o, 1).pc = "lookup"
           /\ Kind(o) \in {"add", "remove"} => Begun(o, 1).pc = "search"
<1>1. Begun(o, 1).pc = First(o)
  BY DEF Begun
<1>2. Kind(o) \in {"attributes", "groups", "mail", "modify"} => First(o) = "lookup"
  BY DEF First
<1>3. Kind(o) \in {"add", "remove"} => First(o) = "search"
  BY DEF First
<1> QED
  BY <1>1, <1>2, <1>3

LEMMA OneBegins ==
    ASSUME NEW e, NEW r, NoOps, Advance(e), Head(events[e].plan) = {r}
    PROVE  /\ Only(<<e, r>>)' /\ ops'[<<e, r>>] = Begun(<<e, r>>, 1)
           /\ UNCHANGED <<entries, groups>>
<1>1. {e} \X {r} = {<<e, r>>}
  OBVIOUS
<1>2. ops' = [o \in {<<e, r>>} |-> Begun(o, 1)]
  BY <1>1 DEF Advance, NoOps
<1> QED
  BY <1>2 DEF Advance, Only

LEMMA StartsOn ==
    ASSUME FormInv, NEW e \in DOMAIN events, NEW u, Starts(e, u), Advance(e)
    PROVE  Asks(e, u)'
<1> DEFINE o == <<e, AskAttributes(u)>>
<1>1. events'[e].plan = <<>> /\ events'[e].mail = events[e].mail
  BY AdvanceDoes, Tuples DEF FormInv, Starts, Plan, EventFields
<1>2. Only(o)' /\ ops'[o] = Begun(o, 1)
  BY OneBegins, Tuples DEF Starts, Plan
<1>3. ops'[o].pc = "lookup"
  <2>1. Kind(o) = "attributes"
    BY DEF Kind, AskAttributes, Request
  <2> QED
    BY <1>2, <2>1, BegunAt
<1> QED
  BY <1>1, <1>2, <1>3 DEF Starts, Asks, Plan

LEMMA HasAskedOn ==
    ASSUME FormInv, NEW e \in DOMAIN events, NEW u, NoOps, HasAsked(e, u), Advance(e)
    PROVE  AsksGroups(e, u)'
<1> DEFINE o == <<e, AskGroups(u)>>
<1>1. events'[e].plan = <<>> /\ events'[e].mail = events[e].mail
  BY AdvanceDoes, Tuples DEF FormInv, HasAsked, Plan, EventFields
<1>2. Only(o)' /\ ops'[o] = Begun(o, 1) /\ UNCHANGED entries
  BY OneBegins, Tuples DEF HasAsked, Plan
<1>3. ops'[o].pc = "lookup"
  <2>1. Kind(o) = "groups"
    BY DEF Kind, AskGroups, Request
  <2> QED
    BY <1>2, <2>1, BegunAt
<1> QED
  BY <1>1, <1>2, <1>3 DEF HasAsked, AsksGroups, Plan, HasRead, HasEntry

LEMMA WillMailOn ==
    ASSUME FormInv, NEW e \in DOMAIN events, NEW u, NEW m, NEW W, WillMail(e, u, m, W), Advance(e)
    PROVE  Mailing(e, u, m, W)'
<1> DEFINE o == <<e, AskMail(u, m)>>
<1>1. /\ Head(events[e].plan) = {AskMail(u, m)}
      /\ \/ Tail(events[e].plan) = Rest(u, W)
         \/ \E a : Tail(events[e].plan) = KeepRest(u, W, a)
  <2>1. CASE events[e].plan = <<{AskMail(u, m)}, {AskNames(u)}, AskLists(u, W)>>
    BY <2>1, Tuples DEF Rest
  <2>2. ASSUME NEW a,
               events[e].plan = <<{AskMail(u, m)}, {AskKeep(u, a)}, {AskNames(u)}, AskLists(u, W)>>
        PROVE  /\ Head(events[e].plan) = {AskMail(u, m)}
               /\ Tail(events[e].plan) = KeepRest(u, W, a)
    BY <2>2, Tuples DEF KeepRest
  <2> QED
    BY <2>1, <2>2 DEF WillMail, Plan
<1>2. Only(o)' /\ ops'[o] = Begun(o, 1) /\ UNCHANGED <<entries, groups>>
  BY <1>1, OneBegins DEF WillMail
<1>3. ops'[o].pc = "lookup"
  <2>1. Kind(o) = "mail"
    BY DEF Kind, AskMail, Request
  <2> QED
    BY <1>2, <2>1, BegunAt
<1>4. RestPlanned(e, u, W)'
  <2>1. events'[e].plan = Tail(events[e].plan)
    BY AdvanceDoes DEF FormInv
  <2>2. Rest(u, W)' = Rest(u, W) /\ \A a : KeepRest(u, W, a)' = KeepRest(u, W, a)
    BY <1>2, RestSame
  <2> QED
    BY <1>1, <2>1, <2>2 DEF RestPlanned, Plan
<1> QED
  BY <1>2, <1>3, <1>4 DEF WillMail, Mailing, HasEntry

LEMMA HasMailedOn ==
    ASSUME FormInv, NEW e \in DOMAIN events, NEW u, NEW m, NEW W, HasMailed(e, u, m, W), Advance(e)
    PROVE  Keeping(e, u, m, W)' \/ Naming(e, u, m, W)'
<1>1. MailAgrees(u, m)'
  BY DEF HasMailed, MailAgrees, HasEntry, Advance
<1>2. CASE Plan(e, Rest(u, W))
  <2> DEFINE o == <<e, AskNames(u)>>
  <2>1. Head(events[e].plan) = {AskNames(u)} /\ Tail(events[e].plan) = <<AskLists(u, W)>>
    BY <1>2 DEF Plan, Rest
  <2>2. Only(o)' /\ ops'[o] = Begun(o, 1) /\ UNCHANGED <<entries, groups>>
    BY <2>1, OneBegins DEF HasMailed
  <2>3. ops'[o].pc = "lookup"
    <3>1. Kind(o) = "modify"
      BY DEF Kind, AskNames, Request
    <3> QED
      BY <2>2, <3>1, BegunAt
  <2>4. Plan(e, <<AskLists(u, W)>>)'
    BY <2>1, <2>2, AdvanceDoes, RestSame DEF FormInv, Plan
  <2> QED
    BY <1>1, <2>2, <2>3, <2>4 DEF Naming
<1>3. ASSUME NEW a, Plan(e, KeepRest(u, W, a)) PROVE Keeping(e, u, m, W)'
  <2> DEFINE o == <<e, AskKeep(u, a)>>
  <2>1. Head(events[e].plan) = {AskKeep(u, a)} /\ Tail(events[e].plan) = Rest(u, W)
    BY <1>3 DEF Plan, Rest, KeepRest
  <2>2. Only(o)' /\ UNCHANGED <<entries, groups>>
    BY <2>1, OneBegins DEF HasMailed
  <2>3. Plan(e, Rest(u, W))'
    BY <2>1, <2>2, AdvanceDoes, RestSame DEF FormInv, Plan
  <2> QED
    BY <1>1, <2>2, <2>3 DEF Keeping
<1> QED
  BY <1>2, <1>3 DEF HasMailed, RestPlanned

LEMMA HasNamedOn ==
    ASSUME FormInv, NEW e \in DOMAIN events, NEW u, NEW m, NEW W, HasNamed(e, u, m, W), Advance(e),
           SchoolsOf(W) \subseteq Schools
    PROVE  Listing(e, u, m, W)'
<1>1. Head(events[e].plan) = AskLists(u, W) /\ Tail(events[e].plan) = <<>>
  BY DEF HasNamed, Plan
<1>2. /\ ops' = [o \in {e} \X AskLists(u, W) |-> Begun(o, 1)]
      /\ UNCHANGED <<entries, groups>>
  BY <1>1 DEF HasNamed, NoOps, Advance
<1>3. NamingAgrees(u, m)' /\ Plan(e, <<>>)'
  BY <1>1, <1>2, AdvanceDoes DEF FormInv, HasNamed, NamingAgrees, MailAgrees, HasEntry, Plan
<1> DEFINE addition(k) == [Request("add", u) EXCEPT !.school = k.school, !.rolle = k.rolle]
<1>4. \A k : /\ addition(k).kind = "add" /\ addition(k).uid = u
             /\ addition(k).school = k.school
  BY DEF Request
<1>5. \A s : AskRemoval(u, s).kind = "remove" /\ AskRemoval(u, s).school = s
  BY DEF AskRemoval, Request
<1>6. AskLists(u, W) = {addition(k) : k \in {x \in W : x.school \notin Members(u)}}
                           \cup {AskRemoval(u, s) : s \in Members(u) \ SchoolsOf(W)}
  BY DEF AskLists, Lists, AskRemoval, SchoolsOf
<1> HIDE DEF addition
<1>7. ASSUME NEW o \in DOMAIN ops' PROVE Adds(e, u, W, o)' \/ Removes(e, u, W, o)'
  <2>1. o = <<e, o[2]>> /\ o[2] \in AskLists(u, W) /\ ops'[o] = Begun(o, 1)
    BY <1>2
  <2>2. CASE \E k \in W : o[2] = addition(k)
    <3>1. PICK k \in W : o[2] = addition(k)
      BY <2>2
    <3>2. Kind(o) = "add" /\ o[2].uid = u /\ o[2].school \in SchoolsOf(W)
      BY <1>4, <3>1 DEF Kind, SchoolsOf
    <3>3. ops'[o].pc = "search"
      BY <2>1, <3>2, BegunAt
    <3> QED
      BY <2>1, <3>2, <3>3 DEF Adds
  <2>3. CASE \E s \in Members(u) \ SchoolsOf(W) : o[2] = AskRemoval(u, s)
    <3>1. PICK s \in Members(u) \ SchoolsOf(W) : o[2] = AskRemoval(u, s)
      BY <2>3
    <3>2. Kind(o) = "remove" /\ s \in Schools /\ u \in groups'[s]
      BY <1>2, <1>5, <3>1 DEF Kind, Members
    <3>3. ops'[o].pc = "search"
      BY <2>1, <3>2, BegunAt
    <3> QED
      BY <2>1, <3>1, <3>2, <3>3 DEF Removes
  <2> QED
    BY <1>6, <2>1, <2>2, <2>3
<1>8. ASSUME NEW s \in Schools
      PROVE  (u \in groups'[s] <=> s \in SchoolsOf(W)) \/ \E o \in DOMAIN ops' : o[2].school = s
  <2>1. CASE s \in SchoolsOf(W) /\ u \notin groups[s]
    <3>1. PICK k \in W : k.school = s
      BY <2>1 DEF SchoolsOf
    <3>2. addition(k) \in AskLists(u, W)
      BY <1>6, <2>1, <3>1 DEF Members
    <3>3. <<e, addition(k)>> \in DOMAIN ops' /\ <<e, addition(k)>>[2].school = s
      BY <1>2, <1>4, <3>1, <3>2
    <3> QED
      BY <3>3
  <2>2. CASE s \notin SchoolsOf(W) /\ u \in groups[s]
    <3>1. AskRemoval(u, s) \in AskLists(u, W)
      BY <1>6, <2>2 DEF Members
    <3>2. <<e, AskRemoval(u, s)>> \in DOMAIN ops' /\ <<e, AskRemoval(u, s)>>[2].school = s
      BY <1>2, <1>5, <3>1
    <3> QED
      BY <3>2
  <2> QED
    BY <1>2, <2>1, <2>2
<1> QED
  BY <1>3, <1>7, <1>8 DEF Listing

LEMMA StageOn ==
    ASSUME FormInv, NEW e \in DOMAIN events, NEW u, NEW m, NEW W, Stage(e, u, m, W), Advance(e),
           SchoolsOf(W) \subseteq Schools
    PROVE  Later(e, u, m, W)'
<1>1. NoOps
  BY StageOps DEF Advance, OpsOf, NoOps
<1>2. ~Asks(e, u) /\ ~AsksGroups(e, u) /\ ~Mailing(e, u, m, W) /\ ~Keeping(e, u, m, W)
      /\ ~Naming(e, u, m, W)
  BY <1>1 DEF NoOps, Only, Asks, AsksGroups, Mailing, Keeping, Naming
<1>3. ~Listing(e, u, m, W)
  BY DEF Listing, Plan, Advance
<1> QED
  BY <1>1, <1>2, <1>3, StartsOn, HasAskedOn, WillMailOn, HasMailedOn, HasNamedOn DEF Stage, Later

-----------------------------------------------------------------------------
(* From one stage to the next.                                             *)

\* What a step that goes well leaves of the last synchronisation.
LEMMA StepSynced == ASSUME NEW o, Step(o), synced' # Nobody PROVE synced' = synced
<1>1. CASE Search(o) \/ Lookup(o) \/ ReadUuid(o) \/ CopyMembers(o) \/ GroupsFound(o) \/ Store(o)
  BY <1>1 DEF Search, Lookup, ReadUuid, CopyMembers, GroupsFound, Store, luck
<1>2. \A pc : Answered(o, pc) => synced' = synced
  BY DEF Answered, CallFails, luck
<1>3. Refused(o) => synced' = synced
  BY DEF Refused, luck
<1>4. CASE AddMember(o) \/ RemoveMember(o) \/ Insert(o) \/ ModifyNames(o) \/ ModifyDn(o)
           \/ Delete(o) \/ Primary(o) \/ Alternative(o)
  BY <1>2, <1>3, <1>4 DEF AddMember, RemoveMember, Insert, ModifyNames, ModifyDn, Delete, Primary,
                          Alternative
<1>5. CASE \E s \in Schools : Replace(o, s)
  BY <1>5 DEF Replace, CallFails, luck
<1> QED
  BY <1>1, <1>4, <1>5 DEF Step, CallLost, CallFails

LEMMA StageSame ==
    ASSUME UNCHANGED <<entries, groups, ops, events>>,
           NEW e, NEW u, NEW m, NEW W, Stage(e, u, m, W)
    PROVE  Stage(e, u, m, W)'
<1>1. /\ \A pl : Plan(e, pl)' <=> Plan(e, pl)
      /\ \A o : Only(o)' <=> Only(o)
      /\ NoOps' <=> NoOps
      /\ MailAgrees(u, m)' <=> MailAgrees(u, m)
      /\ NamingAgrees(u, m)' <=> NamingAgrees(u, m)
      /\ HasRead(e, u)' <=> HasRead(e, u)
      /\ HasEntry(u)' <=> HasEntry(u)
  BY DEF Plan, Only, NoOps, NamingAgrees, MailAgrees, HasRead, HasEntry
<1>2. AskLists(u, W)' = AskLists(u, W) /\ Rest(u, W)' = Rest(u, W)
      /\ (RestPlanned(e, u, W) => RestPlanned(e, u, W)')
  BY RestSame, RestKept
<1>3. Starts(e, u) => Starts(e, u)'
  BY DEF Starts, Plan, NoOps
<1>4. Asks(e, u) => Asks(e, u)'
  BY <1>1 DEF Asks, Plan
<1>5. HasAsked(e, u) => HasAsked(e, u)'
  BY <1>1 DEF HasAsked, Plan
<1>6. AsksGroups(e, u) => AsksGroups(e, u)'
  BY <1>1 DEF AsksGroups, Plan
<1>7. WillMail(e, u, m, W) => WillMail(e, u, m, W)'
  BY <1>1, <1>2 DEF WillMail, Plan
<1>8. Mailing(e, u, m, W) => Mailing(e, u, m, W)'
  BY <1>1, <1>2 DEF Mailing
<1>9. HasMailed(e, u, m, W) => HasMailed(e, u, m, W)'
  BY <1>1, <1>2 DEF HasMailed
<1>10. Keeping(e, u, m, W) => Keeping(e, u, m, W)'
  BY <1>1, <1>2 DEF Keeping, Plan
<1>11. Naming(e, u, m, W) => Naming(e, u, m, W)'
  BY <1>1, <1>2 DEF Naming, Plan
<1>12. HasNamed(e, u, m, W) => HasNamed(e, u, m, W)'
  BY <1>1, <1>2 DEF HasNamed, Plan
<1>13. Listing(e, u, m, W) => Listing(e, u, m, W)'
  BY <1>1 DEF Listing, Adds, Removes, Plan
<1> QED
  BY <1>3, <1>4, <1>5, <1>6, <1>7, <1>8, <1>9, <1>10, <1>11, <1>12, <1>13 DEF Stage, Later

LEMMA StageStep ==
    ASSUME MutexInv, FormInv, NEW e \in DOMAIN events, NEW u, NEW m, NEW W, Stage(e, u, m, W),
           u = <<u[1], u[2]>>, m # "", SchoolsOf(W) \subseteq Schools,
           events[e].data.mail = m, W = {k \in events[e].data.kontexte : Lehr(k)},
           NEW o \in DOMAIN ops, Step(o), synced' # Nobody
    PROVE  Later(e, u, m, W)'
<1>1. ~CallFails
  BY DEF CallFails
<1>2. ~Starts(e, u) /\ ~WillMail(e, u, m, W) /\ ~HasMailed(e, u, m, W) /\ ~HasNamed(e, u, m, W)
  BY DEF NoOps, Starts, WillMail, HasMailed, HasNamed
<1>3. CASE Asks(e, u) \/ HasAsked(e, u)
  BY <1>1, <1>3, AsksStep, HasAskedStep DEF Stage, Later
<1>4. CASE AsksGroups(e, u)
  BY <1>1, <1>4, AsksGroupsStep DEF Stage, Later
<1>5. CASE Mailing(e, u, m, W) \/ Keeping(e, u, m, W)
  BY <1>1, <1>5, MailingStep, KeepingStep DEF Stage, Later
<1>6. CASE Naming(e, u, m, W)
  BY <1>1, <1>6, NamingStep DEF Stage, Later
<1>7. CASE Listing(e, u, m, W)
  BY <1>1, <1>7, ListingStep DEF Stage, Later
<1> QED
  BY <1>2, <1>3, <1>4, <1>5, <1>6, <1>7 DEF Stage, Later

\* A step of the synchronisation leaves what the database has, and the other
\* handlers.
LEMMA OneHandlerStep ==
    ASSUME FormInv, NEW p \in Persons, NEW e, OneHandler(e, p), NEW o, o[1] = e, Step(o)
    PROVE  OneHandler(e, p)' /\ Uid(p)' = Uid(p) /\ Wanted(p)' = Wanted(p)
           /\ db'[p].mail = db[p].mail
<1>1. /\ db'[p].name = db[p].name /\ db'[p].mail = db[p].mail
      /\ db'[p].kontexte = db[p].kontexte
  BY StepWrites, StoreDoes DEF FormInv
<1>2. /\ DOMAIN events' = DOMAIN events
      /\ \A d \in DOMAIN events : d # e => events'[d] = events[d]
      /\ \A d \in DOMAIN events : events'[d].data = events[d].data
  BY StepWrites, EventsDo DEF FormInv
<1> QED
  BY <1>1, <1>2 DEF OneHandler, Uid, Wanted

LEMMA OneMore ==
    ASSUME NEW S, NEW s \in Seq(S), NEW x, NEW t, t = s \o <<x>>, NEW n, n = Len(s) + 1
    PROVE  /\ DOMAIN t = DOMAIN s \cup {n} /\ n \notin DOMAIN s /\ t[n] = x
           /\ \A d \in DOMAIN s : t[d] = s[d]
<1> DEFINE T == S \cup {x}
<1>1. s \in Seq(T) /\ <<x>> \in Seq(T) /\ Len(<<x>>) = 1 /\ <<x>>[1] = x
  OBVIOUS
<1> HIDE DEF T
<1>2. Len(s) \in Nat /\ DOMAIN s = 1 .. Len(s)
  OBVIOUS
<1>3. Len(t) = Len(s) + 1 /\ DOMAIN t = 1 .. Len(s) + 1
  BY <1>1, <1>2
<1>4. \A d \in 1 .. Len(s) : t[d] = s[d]
  BY <1>1, <1>2
<1>5. t[Len(s) + 1] = x
  BY <1>1, <1>2
<1>6. 1 .. Len(s) + 1 = (1 .. Len(s)) \cup {Len(s) + 1} /\ Len(s) + 1 \notin 1 .. Len(s)
  BY <1>2
<1> QED
  BY <1>2, <1>3, <1>4, <1>5, <1>6

LEMMA SyncStarts ==
    ASSUME FormInv, NEW p \in Persons, Sync(p), synced' = p, p # Nobody
    PROVE  SyncOf(p)'
<1>1. PICK n : n = Event(p, <<{AskAttributes(Uid(p))}>>)
  OBVIOUS
<1>2. PICK e : e = Len(events) + 1
  OBVIOUS
<1>3. PICK u, m, W : u = Uid(p) /\ m = db[p].mail /\ W = Wanted(p)
  OBVIOUS
<1>4. /\ Quiet /\ db[p].mail # "" /\ db' = db
      /\ events' = events \o <<n>> /\ UNCHANGED <<entries, groups, ops>>
  BY <1>1, LdapAssumption DEF Sync, Publish, AskAttributes, Nobody
<1>5. PICK S : events \in Seq(S)
  BY DEF FormInv, EventsFormed
<1>6. /\ DOMAIN events' = DOMAIN events \cup {e} /\ e \notin DOMAIN events
      /\ events'[e] = n /\ \A d \in DOMAIN events : events'[d] = events[d]
  <2>1. PICK s, t : s = events /\ t = events'
    OBVIOUS
  <2>2. s \in Seq(S) /\ t = s \o <<n>> /\ e = Len(s) + 1
    BY <1>2, <1>4, <1>5, <2>1
  <2>3. /\ DOMAIN t = DOMAIN s \cup {e} /\ e \notin DOMAIN s /\ t[e] = n
        /\ \A d \in DOMAIN s : t[d] = s[d]
    BY <2>2, OneMore
  <2> QED
    BY <2>1, <2>3
<1>7. n.plan = <<{AskAttributes(u)}>> /\ n.mail = "" /\ n.data = db'[p]
  BY <1>1, <1>3 DEF Event
<1>8. OneHandler(e, p)'
  BY <1>4, <1>6, <1>7 DEF OneHandler, Quiet
<1>9. Starts(e, u)'
  BY <1>4, <1>6, <1>7 DEF Starts, NoOps, Quiet, Plan
<1>10. u = Uid(p)' /\ m = db'[p].mail /\ W = Wanted(p)'
  BY <1>3, <1>4 DEF Uid, Wanted
<1> QED
  BY <1>4, <1>3, <1>8, <1>9, <1>10 DEF SyncOf, Stage

LEMMA SyncPublished ==
    ASSUME FormInv, Publishes, NEW p, synced' = p, p # Nobody PROVE SyncOf(p)'
<1>1. PICK q \in Persons :
          \/ \E kontexte \in SUBSET Kontexte : Update(q, kontexte)
          \/ Rename(q)
          \/ \E mail \in Mails : ChangeMail(q, mail)
          \/ DeletePerson(q)
          \/ Sync(q)
  BY DEF Publishes
<1>2. Sync(q) /\ q = p
  BY <1>1 DEF Update, Rename, ChangeMail, DeletePerson, Sync
<1> QED
  BY <1>2, SyncStarts

LEMMA SyncHandled ==
    ASSUME FormInv, NEW p, SyncOf(p), NEW d \in DOMAIN events, Advance(d) \/ Return(d)
    PROVE  SyncOf(p)'
<1>1. PICK u, m, W :
          /\ p \in Persons /\ u = Uid(p) /\ m = db[p].mail /\ m # "" /\ W = Wanted(p)
          /\ \/ AllOver /\ Mirrored(u, m, W)
             \/ \E e : OneHandler(e, p) /\ Stage(e, u, m, W)
  BY DEF SyncOf
<1>2. UNCHANGED <<db, entries, groups>> /\ events[d] # Over
  <2>1. Over.plan = <<>>
    BY DEF Over
  <2> QED
    BY <2>1 DEF Advance, Return
<1>3. PICK e : e = d /\ OneHandler(e, p) /\ Stage(e, u, m, W)
  BY <1>1, <1>2 DEF AllOver, OneHandler
<1>4. u = Uid(p)' /\ m = db'[p].mail /\ W = Wanted(p)'
  BY <1>1, <1>2 DEF Uid, Wanted
<1>5. CASE Advance(d)
  <2>1. Stage(e, u, m, W)'
    BY <1>1, <1>3, <1>5, StageOn, WantedSchools DEF Stage
  <2>2. OneHandler(e, p)'
    BY <1>2, <1>3, <1>5, AdvanceDoes DEF FormInv, OneHandler, EventFields
  <2> QED
    BY <1>1, <1>4, <2>1, <2>2 DEF SyncOf
<1>6. CASE Return(d)
  <2>1. NoOps /\ events[e].plan = <<>>
    BY <1>3, <1>6, StageOps DEF Return, OpsOf, NoOps
  <2>2. Mirrored(u, m, W)
    BY <1>3, <2>1, NothingPlanned DEF Listing, Mirrored, GroupsAgree, NoOps
  <2>3. Mirrored(u, m, W)'
    BY <1>2, <2>2 DEF Mirrored, NamingAgrees, MailAgrees, HasEntry, GroupsAgree
  <2>4. AllOver'
    BY <1>3, <1>6, <2>1, ReturnDoes DEF FormInv, OneHandler, AllOver, NoOps, Return
  <2> QED
    BY <1>1, <1>4, <2>3, <2>4 DEF SyncOf
<1> QED
  BY <1>5, <1>6

LEMMA SyncGoesOn ==
    ASSUME MutexInv, FormInv, NEW p, SyncOf(p), NEW o \in DOMAIN ops, Step(o), synced' # Nobody
    PROVE  SyncOf(p)'
<1>1. PICK u, m, W :
          /\ p \in Persons /\ u = Uid(p) /\ m = db[p].mail /\ m # "" /\ W = Wanted(p)
          /\ \/ AllOver /\ Mirrored(u, m, W)
             \/ \E e : OneHandler(e, p) /\ Stage(e, u, m, W)
  BY DEF SyncOf
<1>2. PICK e : OneHandler(e, p) /\ Stage(e, u, m, W)
  BY <1>1 DEF AllOver, NoOps
<1>3. o[1] = e
  BY <1>2, StageOps
<1>4. OneHandler(e, p)' /\ Uid(p)' = u /\ Wanted(p)' = W /\ db'[p].mail = m
  BY <1>1, <1>2, <1>3, OneHandlerStep
<1>5. /\ e \in DOMAIN events /\ events[e].data.mail = m
      /\ W = {k \in events[e].data.kontexte : Lehr(k)} /\ u = <<u[1], u[2]>>
  BY <1>1, <1>2 DEF OneHandler, Wanted, Uid
<1>6. Stage(e, u, m, W)'
  BY <1>1, <1>2, <1>5, StageStep, WantedSchools DEF Stage
<1> QED
  BY <1>1, <1>4, <1>6 DEF SyncOf

LEMMA SyncUnchanged ==
    ASSUME NEW p, SyncOf(p), UNCHANGED vars PROVE SyncOf(p)'
<1>1. PICK u, m, W :
          /\ p \in Persons /\ u = Uid(p) /\ m = db[p].mail /\ m # "" /\ W = Wanted(p)
          /\ \/ AllOver /\ Mirrored(u, m, W)
             \/ \E e : OneHandler(e, p) /\ Stage(e, u, m, W)
  BY DEF SyncOf
<1>2. UNCHANGED <<db, entries, groups, ops, events>>
  BY DEF vars
<1>3. u = Uid(p)' /\ m = db'[p].mail /\ W = Wanted(p)'
  BY <1>1, <1>2 DEF Uid, Wanted
<1>4. CASE AllOver /\ Mirrored(u, m, W)
  <2>1. AllOver' /\ Mirrored(u, m, W)'
    BY <1>2, <1>4 DEF AllOver, NoOps, Mirrored, NamingAgrees, MailAgrees, HasEntry, GroupsAgree
  <2> QED
    BY <1>1, <1>3, <2>1 DEF SyncOf
<1>5. ASSUME NEW e, OneHandler(e, p), Stage(e, u, m, W) PROVE SyncOf(p)'
  <2>1. OneHandler(e, p)'
    BY <1>2, <1>5 DEF OneHandler
  <2>2. Stage(e, u, m, W)'
    BY <1>2, <1>5, StageSame
  <2> QED
    BY <1>1, <1>3, <2>1, <2>2 DEF SyncOf
<1> QED
  BY <1>1, <1>4, <1>5

LEMMA SyncInductive == ASSUME MutexInv, FormInv, SyncInv, [Next]_vars PROVE SyncInv'
<1> SUFFICES ASSUME NEW p, synced' = p, p # Nobody PROVE SyncOf(p)'
  BY DEF SyncInv, Nobody
<1>1. CASE UNCHANGED vars
  <2>1. synced = p
    BY <1>1 DEF vars, luck
  <2> QED
    BY <1>1, <2>1, SyncUnchanged DEF SyncInv
<1>2. CASE Publishes
  BY <1>2, SyncPublished
<1>3. ASSUME NEW e \in DOMAIN events, Advance(e) \/ Return(e) PROVE SyncOf(p)'
  <2>1. synced = p
    BY <1>3 DEF Advance, Return, luck
  <2> QED
    BY <1>3, <2>1, SyncHandled DEF SyncInv
<1>4. ASSUME NEW o \in DOMAIN ops, Step(o) PROVE SyncOf(p)'
  <2>1. synced = p
    BY <1>4, StepSynced
  <2> QED
    BY <1>4, <2>1, SyncGoesOn DEF SyncInv
<1> QED
  BY <1>1, <1>2, <1>3, <1>4 DEF Next, Idle

\* A synchronisation that nothing disturbs leaves the person's entry, address
\* and groups as the database has them, whatever has gone wrong before it
\* (fetchDataAndSync()).
THEOREM SyncStillMirrors == Spec => []SyncMirrors
<1>1. Init => MutexInv /\ FormInv /\ SyncInv
  <2>1. Init => MutexInv
    BY InitLooks
  <2>2. Init => SyncInv
    BY DEF Init, SyncInv
  <2> QED
    BY <2>1, <2>2, InitForms
<1>2. MutexInv /\ FormInv /\ SyncInv /\ [Next]_vars => (MutexInv /\ FormInv /\ SyncInv)'
  BY MutexInductive, FormInductive, SyncInductive
<1>3. MutexInv /\ FormInv /\ SyncInv => SyncMirrors
  BY SyncMirrorsDb DEF FormInv
<1> QED
  BY <1>1, <1>2, <1>3, PTL DEF Spec

-----------------------------------------------------------------------------
(* While nothing has gone wrong.                                            *)

Live(v) == v[1] \in Persons /\ ~db[v[1]].gone /\ v = Uid(v[1])
MailGood(v) == entries[v].mail \in {"", db[v[1]].mail}
EntryGood(v) == v \in DOMAIN entries => entries[v].naming = db[v[1]].name /\ MailGood(v)
GroupsGood(v) ==
    \A s \in Schools : /\ v \in groups[s] <=> Live(v) /\ Teaches(v[1], s)
                       /\ v \in groups[s] => v \in DOMAIN entries

\* The directory is as the database wants it, as far as the uid v goes.
Good(v) == (v \in DOMAIN entries => Live(v)) /\ EntryGood(v) /\ GroupsGood(v)
Besides(u) == \A v : v # u => Good(v)

\* Requests of a handler that are still to be made or under way.
Short(plan) == plan = <<>> \/ (\E a : plan = <<a>>) \/ \E a, b : plan = <<a, b>>
Planned(plan, r) ==
    plan # <<>> /\ (r \in Head(plan) \/ (Tail(plan) # <<>> /\ r \in Head(Tail(plan))))
Due(e, r) == Planned(events[e].plan, r) \/ <<e, r>> \in DOMAIN ops
Working(E) ==
    /\ E \subseteq DOMAIN events
    /\ \A d \in DOMAIN events : Short(events[d].plan) /\ (d \notin E => events[d].plan = <<>>)
    /\ \A o \in DOMAIN ops : o[1] \in E /\ o = <<o[1], o[2]>>

RemovesAt(u, s, r) == r.kind = "remove" /\ r.uid = u /\ r.school = s
CreatesAt(u, s, r) == r.kind = "create" /\ r.uid = u /\ r.school = s
RemovalSound(u, o) ==
    LET s == o[2].school
    IN  ops[o].pc \in {"search", "write"} /\ (ops[o].pc = "write" => ops[o].seen[s] = groups[s] \cup {u})
CreationSound(u, o) ==
    LET s == o[2].school
    IN  /\ ops[o].pc \in {"search", "write", "lookup", "insert", "uuid", "store"}
        /\ ops[o].pc = "write" => ops[o].seen[s] = groups[s] /\ u \notin groups[s]
        /\ ops[o].pc \in {"lookup", "insert", "uuid", "store"} => u \in groups[s]
        /\ ops[o].pc \in {"uuid", "store"} => u \in DOMAIN entries

\* Schools are left and others entered.
Changing(e, u) ==
    /\ Working({e}) /\ Live(u) /\ Besides(u) /\ EntryGood(u)
    /\ \A r : Due(e, r) =>
           \E s \in Schools : \/ RemovesAt(u, s, r) /\ ~Teaches(u[1], s)
                              \/ CreatesAt(u, s, r) /\ Teaches(u[1], s)
    /\ \A o \in DOMAIN ops : IF Kind(o) = "remove" THEN RemovalSound(u, o) ELSE CreationSound(u, o)
    /\ \A s \in Schools :
           IF Teaches(u[1], s)
           THEN \/ u \in groups[s] /\ u \in DOMAIN entries
                \/ \E r : Due(e, r) /\ CreatesAt(u, s, r)
           ELSE u \in groups[s] => u \in DOMAIN entries /\ \E r : Due(e, r) /\ RemovesAt(u, s, r)

\* An address is changed.
Remailing(e, u) ==
    LET r == AskMail(u, db[u[1]].mail)
    IN  /\ Working({e}) /\ Live(u) /\ Besides(u) /\ GroupsGood(u)
        /\ u \in DOMAIN entries => entries[u].naming = db[u[1]].name /\ (MailGood(u) \/ Due(e, r))
        /\ \A x : Due(e, x) => x = r
        /\ \A o \in DOMAIN ops : /\ ops[o].pc \in {"lookup", "primary", "alt"}
                                 /\ ops[o].pc = "alt" => MailGood(u)

\* A username is changed.
AskRename(old, u) == [Request("modify", old) EXCEPT !.new = u[2]]
BeforeRename(old, u) ==
    /\ old \in DOMAIN entries => entries[old].mail \in {"", db[u[1]].mail}
    /\ u \notin DOMAIN entries
    /\ \A s \in Schools : /\ old \in groups[s] <=> Teaches(u[1], s)
                          /\ old \in groups[s] => old \in DOMAIN entries
                          /\ u \notin groups[s]
EntryRenamed(old, u) == old \notin DOMAIN entries /\ u \in DOMAIN entries /\ EntryGood(u)
RenameAt(old, u, op) ==
    \/ op.pc \in {"lookup", "modify"} /\ BeforeRename(old, u)
    \/ op.pc = "rename" /\ BeforeRename(old, u) /\ entries[old].naming = u[2]
    \/ /\ op.pc = "members" /\ EntryRenamed(old, u)
       /\ \A s \in Schools : (old \in groups[s] <=> Teaches(u[1], s)) /\ u \notin groups[s]
    \/ /\ op.pc = "replace" /\ EntryRenamed(old, u)
       /\ \A s \in Schools :
              IF op.seen[s] # {}
              THEN /\ op.seen[s] = groups[s] /\ u \notin groups[s]
                   /\ old \in groups[s] /\ Teaches(u[1], s)
              ELSE old \notin groups[s] /\ (u \in groups[s] <=> Teaches(u[1], s))
RenameOn(o, old, u) ==
    \/ NoOps /\ Good(old) /\ Good(u)
    \/ Only(o) /\ RenameAt(old, u, ops[o])
Renaming(e, old, u) ==
    LET r == AskRename(old, u)
    IN  /\ Working({e}) /\ Live(u) /\ old = <<u[1], old[2]>> /\ old # u
        /\ \A v : v \notin {old, u} => Good(v)
        /\ \/ events[e].plan = <<{r}>> /\ NoOps /\ BeforeRename(old, u)
           \/ events[e].plan = <<>> /\ RenameOn(<<e, r>>, old, u)

\* A person is deleted.
Deleting(e, d, u) ==
    LET r == Request("delete", u)
    IN  /\ Working({e, d}) /\ e # d /\ u[1] \in Persons /\ db[u[1]].gone /\ db[u[1]].kontexte = {} /\ Besides(u)
        /\ \A x : Due(e, x) => \E s \in Schools : RemovesAt(u, s, x)
        /\ \A x : Due(d, x) => x = r
        /\ \A o \in DOMAIN ops :
               IF o[1] = e THEN RemovalSound(u, o) ELSE ops[o].pc \in {"lookup", "delete"}
        /\ \A s \in Schools : u \in groups[s] => \E x : Due(e, x) /\ RemovesAt(u, s, x)
        /\ u \in DOMAIN entries => Due(d, r)

\* A person is synchronised, who was right before in all but perhaps the entry.
Resyncing(u) ==
    /\ synced = u[1] /\ Live(u) /\ Besides(u)
    /\ \A s \in Schools : /\ u \in groups[s] <=> Teaches(u[1], s)
                          /\ u \in groups[s] => u \in DOMAIN entries
    /\ \A e \in DOMAIN events :
           /\ events[e].mail \in {"", db[u[1]].mail}
           /\ events[e].plan = <<{AskAttributes(u)}>> => EntryGood(u)
    /\ \A o \in DOMAIN ops : /\ Kind(o) \in {"attributes", "groups", "mail", "keep", "modify"}
                             /\ Kind(o) = "attributes" /\ ops[o].pc = "lookup" => EntryGood(u)

Settled == Quiet /\ \A v : Good(v)
Calmly ==
    \/ Settled
    \/ \E u : Resyncing(u)
    \/ \E e, u : Changing(e, u) \/ Remailing(e, u)
    \/ \E e, old, u : Renaming(e, old, u)
    \/ \E e, d, u : Deleting(e, d, u)

CalmInv == troubles \in Nat /\ (troubles = 0 => Calmly)

-----------------------------------------------------------------------------
(* What does not change.                                                    *)

SameRow(p) ==
    /\ db'[p].name = db[p].name /\ db'[p].mail = db[p].mail
    /\ db'[p].kontexte = db[p].kontexte /\ db'[p].gone = db[p].gone
SameEntry(v) ==
    /\ v \in DOMAIN entries' <=> v \in DOMAIN entries
    /\ v \in DOMAIN entries => entries'[v] = entries[v]
SameGroups(v) == \A s \in Schools : v \in groups'[s] <=> v \in groups[s]
SameRows == \A p \in Persons : SameRow(p)

LEMMA LiveSame ==
    ASSUME NEW v, v[1] \in Persons => SameRow(v[1]) PROVE Live(v)' <=> Live(v)
BY DEF Live, Uid, SameRow

LEMMA TeachesSame ==
    ASSUME NEW p, SameRow(p) PROVE \A s : Teaches(p, s)' <=> Teaches(p, s)
BY DEF Teaches, SameRow

LEMMA EntrySame ==
    ASSUME NEW v, SameRow(v[1]), SameEntry(v) PROVE EntryGood(v) => EntryGood(v)'
BY DEF EntryGood, MailGood, SameRow, SameEntry

LEMMA GoodStays ==
    ASSUME NEW v, Good(v), Live(v)' <=> Live(v), Live(v) => SameRow(v[1]), SameEntry(v), SameGroups(v)
    PROVE  Good(v)'
<1>1. CASE Live(v)
  BY <1>1, TeachesSame, EntrySame DEF Good, GroupsGood, SameEntry, SameGroups
<1>2. CASE ~Live(v)
  BY <1>2 DEF Good, EntryGood, GroupsGood, SameEntry, SameGroups
<1> QED
  BY <1>1, <1>2

LEMMA GoodSame ==
    ASSUME NEW v, v[1] \in Persons => SameRow(v[1]), SameEntry(v), SameGroups(v), Good(v)
    PROVE  Good(v)'
BY LiveSame, GoodStays DEF Live

LEMMA StepRows == ASSUME FormInv, NEW o, Step(o) PROVE SameRows
BY StepWrites, StoreDoes DEF FormInv, SameRows, SameRow

\* Only two kinds of operations change what their handler has planned.
LEMMA PlansStay ==
    ASSUME FormInv, NEW o, Kind(o) \notin {"attributes", "groups"}, Step(o),
           ops[o].pc = "uuid" => Kind(o) = "create"
    PROVE  /\ DOMAIN events' = DOMAIN events
           /\ \A d \in DOMAIN events : events'[d].plan = events[d].plan
<1>1. CASE Lookup(o)
  BY <1>1 DEF Lookup, LookupMissing, LookupFound
<1>2. CASE ReadUuid(o)
  <2> DEFINE e == o[1]
             plan == IF Kind(o) = "create" THEN events[e].plan ELSE <<{Request("groups", o[2].uid)}>>
             x == [events[e] EXCEPT !.uuid = TRUE, !.plan = plan]
  <2>1. events' = [events EXCEPT ![e] = x] /\ Kind(o) = "create"
    BY <1>2 DEF ReadUuid
  <2>2. e \in DOMAIN events => DOMAIN x = EventFields /\ x.plan = events[e].plan
    BY <2>1, EventIsFormed DEF FormInv, EventFields
  <2> HIDE DEF x
  <2> QED
    BY <2>1, <2>2, EventForms DEF FormInv
<1> QED
  BY <1>1, <1>2, StepWrites DEF WritesEvents, GroupsFound

-----------------------------------------------------------------------------
(* Steps of operations.                                                     *)

Others(o) ==
    /\ DOMAIN ops' \in {DOMAIN ops, DOMAIN ops \ {o}}
    /\ \A x \in DOMAIN ops : x # o => ops'[x] = ops[x]

LEMMA ContinueOthers == ASSUME NEW o \in DOMAIN ops, NEW to, Continue(o, to) PROVE Others(o)
<1>1. CASE ops' = Without(o)
  BY <1>1 DEF Without, Others
<1>2. CASE ops' = [ops EXCEPT ![o] = to]
  BY <1>2 DEF Others
<1> QED
  BY <1>1, <1>2 DEF Continue

LEMMA FailOthers == ASSUME NEW o \in DOMAIN ops, Fail(o) PROVE Others(o)
<1>1. CASE \E to : Continue(o, to)
  BY <1>1, ContinueOthers
<1>2. CASE \E b : ops' = [ops EXCEPT ![o] = b]
  BY <1>2 DEF Others
<1>3. CASE ops' = Without(o)
  BY <1>3 DEF Without, Others
<1> QED
  BY <1>1, <1>2, <1>3 DEF Fail

LEMMA StepOthers == ASSUME NEW o \in DOMAIN ops, Step(o), ~CallFails PROVE Others(o)
<1>1. \A pc : Goto(o, pc) => Others(o)
  BY ContinueOthers DEF Goto
<1>2. \A pc : Answered(o, pc) => Others(o)
  BY <1>1 DEF Answered
<1>3. Fail(o) \/ Refused(o) => Others(o)
  BY FailOthers DEF Refused
<1>4. CASE Search(o)
  BY <1>1, <1>3, <1>4, ContinueOthers DEF Search
<1>5. CASE AddMember(o) \/ RemoveMember(o)
  BY <1>2, <1>3, <1>5 DEF AddMember, RemoveMember
<1>6. CASE Lookup(o)
  BY <1>1, <1>3, <1>6, ContinueOthers DEF Lookup, LookupMissing, LookupFound
<1>7. CASE Insert(o) \/ ModifyNames(o) \/ ModifyDn(o) \/ Delete(o) \/ Primary(o) \/ Alternative(o)
  BY <1>2, <1>3, <1>7 DEF Insert, ModifyNames, ModifyDn, Delete, Primary, Alternative
<1>8. CASE CopyMembers(o) \/ \E s \in Schools : Replace(o, s)
  BY <1>8, ContinueOthers DEF CopyMembers, Replace
<1>9. CASE ReadUuid(o) \/ GroupsFound(o) \/ Store(o)
  BY <1>1, <1>9 DEF ReadUuid, GroupsFound, Store
<1> QED
  BY <1>4, <1>5, <1>6, <1>7, <1>8, <1>9 DEF Step, CallLost

\* A step leaves the operations the handlers' and their plans.
LEMMA StepWorking ==
    ASSUME FormInv, NEW E, Working(E), NEW o \in DOMAIN ops, Others(o),
           DOMAIN events' = DOMAIN events,
           \A d \in DOMAIN events : events'[d].plan = events[d].plan
    PROVE  /\ Working(E)'
           /\ \A e \in E : \A r : Due(e, r)' => Due(e, r)
           /\ \A e \in E : \A r : Due(e, r) => Due(e, r)' \/ (<<e, r>> = o /\ o \notin DOMAIN ops')
<1>1. Working(E)'
  BY DEF Working, Others
<1>2. \A e \in E : events'[e].plan = events[e].plan
  BY DEF Working
<1> QED
  BY <1>1, <1>2 DEF Due, Others

\* An operation without an inner one that fails begins again or is over.
LEMMA FailsWhole ==
    ASSUME NEW o \in DOMAIN ops, Fail(o), Inner(o) = ""
    PROVE  o \in DOMAIN ops' => \E try : ops'[o] = Begun(o, try)
<1>1. \/ \E try : ops' = [ops EXCEPT ![o] = Begun(o, try)]
      \/ ops' = Without(o)
  BY DEF Fail
<1> QED
  BY <1>1 DEF Without

LEMMA BegunFirst == ASSUME NEW o, NEW try PROVE Begun(o, try).pc = First(o)
BY DEF Begun

\* What a step of a removal comes to.
LEMMA RemoveWork ==
    ASSUME MutexInv, FormInv, NEW o \in DOMAIN ops, NEW u, NEW s \in Schools,
           RemovesAt(u, s, o[2]), RemovalSound(u, o), Step(o), ~CallFails
    PROVE  /\ UNCHANGED entries
           /\ \A t \in Schools : groups'[t] \cup {u} = groups[t] \cup {u}
           /\ \A t \in Schools : t # s => groups'[t] = groups[t]
           /\ u \in groups'[s] => u \in groups[s]
           /\ o \notin DOMAIN ops' => u \notin groups'[s]
           /\ o \in DOMAIN ops' => RemovalSound(u, o)'
<1>1. Kind(o) = "remove" /\ o[2].uid = u /\ o[2].school = s
  BY DEF RemovesAt, Kind
<1>2. /\ ops[o].pc \in {"search", "write"} /\ Formed(ops[o]) /\ DOMAIN groups = Schools
      /\ ops[o].pc = "write" => ops[o].seen[s] = groups[s] \cup {u}
  BY <1>1 DEF RemovalSound, MutexInv, Sound, FormInv, GroupsFormed
<1>3. ASSUME Fail(o), UNCHANGED <<entries, groups>>, u \notin groups[s]
      PROVE  /\ u \notin groups'[s] /\ (o \in DOMAIN ops' => RemovalSound(u, o)')
  <2>1. Inner(o) = "" /\ First(o) = "search"
    BY <1>1 DEF Inner, First
  <2>2. o \in DOMAIN ops' => ops'[o].pc = "search"
    BY <1>3, <2>1, FailsWhole, BegunFirst
  <2> QED
    BY <1>1, <1>3, <2>2 DEF RemovalSound
<1>4. CASE ops[o].pc = "search"
  <2>1. Search(o)
    BY <1>4, StepAt
  <2>2. UNCHANGED <<entries, groups>>
    BY <2>1 DEF Search
  <2>3. CASE u \in groups[s]
    <3> DEFINE seen == [ops[o].seen EXCEPT ![s] = groups[s]]
               to == [ops[o] EXCEPT !.pc = "write", !.seen = seen]
    <3>1. Continue(o, to)
      BY <1>1, <2>1, <2>3 DEF Search
    <3>2. to.pc = "write" /\ to.seen[s] = groups[s]
      BY <1>2 DEF Formed
    <3> HIDE DEF to
    <3>3. ops' = [ops EXCEPT ![o] = to]
      BY <3>1, <3>2 DEF Continue
    <3>4. RemovalSound(u, o)'
      BY <1>1, <2>2, <2>3, <3>2, <3>3 DEF RemovalSound
    <3> QED
      BY <2>2, <3>3, <3>4
  <2>4. CASE u \notin groups[s]
    <3>1. Fail(o)
      BY <1>1, <2>1, <2>4 DEF Search
    <3> QED
      BY <1>3, <2>2, <2>4, <3>1
  <2> QED
    BY <2>3, <2>4
<1>5. CASE ops[o].pc = "write"
  <2>1. RemoveMember(o)
    BY <1>1, <1>5, StepAt DEF AddMember
  <2>2. ops[o].seen[s] = groups[s] \cup {u}
    BY <1>2, <1>5
  <2>3. CASE u \in groups[s]
    <3>1. ops[o].seen[s] = groups[s]
      BY <2>2, <2>3
    <3>2. /\ groups' = [groups EXCEPT ![s] = IF ops[o].seen[s] = {u} THEN {} ELSE groups[s] \ {u}]
          /\ Answered(o, "end") /\ UNCHANGED entries
      BY <1>1, <2>1, <2>3, <3>1 DEF RemoveMember
    <3>3. groups'[s] = groups[s] \ {u} /\ \A t \in Schools : t # s => groups'[t] = groups[t]
      BY <1>2, <3>1, <3>2
    <3>4. o \notin DOMAIN ops'
      BY <3>2, AnswerComes, GotoEnds
    <3> QED
      BY <3>2, <3>3, <3>4
  <2>4. CASE u \notin groups[s]
    <3>1. Refused(o) /\ UNCHANGED <<entries, groups>>
      <4>1. CASE ops[o].seen[s] = {u}
        <5>1. groups[s] = {}
          BY <2>2, <2>4, <4>1
        <5> QED
          BY <1>1, <2>1, <4>1, <5>1 DEF RemoveMember, Refused
      <4>2. CASE ops[o].seen[s] # {u}
        BY <1>1, <2>1, <2>4, <4>2 DEF RemoveMember, Refused
      <4> QED
        BY <4>1, <4>2
    <3> QED
      BY <1>3, <2>4, <3>1 DEF Refused
  <2> QED
    BY <2>3, <2>4
<1> QED
  BY <1>2, <1>4, <1>5

LEMMA LiveName == ASSUME NEW u, Live(u) PROVE u[2] = db[u[1]].name
<1>1. PICK p, n : p = u[1] /\ n = db[p].name
  OBVIOUS
<1>2. u = <<p, n>>
  BY <1>1 DEF Live, Uid
<1> QED
  BY <1>1, <1>2

LEMMA EntryHas == \A n, m : Entry(n, m).naming = n /\ Entry(n, m).mail = m
BY DEF Entry

\* Setting one entry.
LEMMA SetEntryDoes ==
    ASSUME NEW u, NEW x, SetEntry(u, x)
    PROVE  /\ u \in DOMAIN entries' /\ entries'[u] = x
           /\ \A v : v # u => SameEntry(v)
           /\ DOMAIN entries \subseteq DOMAIN entries'
BY DEF SetEntry, SameEntry

\* What a step of createLehrer() comes to.
LEMMA CreateWork ==
    ASSUME MutexInv, FormInv, NEW o \in DOMAIN ops, NEW u, NEW s \in Schools,
           CreatesAt(u, s, o[2]), CreationSound(u, o), Step(o), ~CallFails,
           Live(u), EntryGood(u)
    PROVE  /\ \A v : v # u => SameEntry(v)
           /\ u \in DOMAIN entries => u \in DOMAIN entries'
           /\ EntryGood(u)'
           /\ \A t \in Schools : groups'[t] \in {groups[t], groups[t] \cup {u}}
           /\ \A t \in Schools : t # s => groups'[t] = groups[t]
           /\ groups' # groups => ops[o].pc = "write"
           /\ o \notin DOMAIN ops' => u \in groups'[s] /\ u \in DOMAIN entries'
           /\ o \in DOMAIN ops' => CreationSound(u, o)'
<1>1. Kind(o) = "create" /\ o[2].uid = u /\ o[2].school = s
  BY DEF CreatesAt, Kind
<1>2. /\ ops[o].pc \in {"search", "write", "lookup", "insert", "uuid", "store"}
      /\ Formed(ops[o]) /\ DOMAIN groups = Schools
      /\ ops[o].pc = "write" => ops[o].seen[s] = groups[s] /\ u \notin groups[s]
      /\ ops[o].pc \in {"lookup", "insert", "uuid", "store"} => u \in groups[s]
      /\ ops[o].pc \in {"uuid", "store"} => u \in DOMAIN entries
  BY <1>1 DEF CreationSound, MutexInv, Sound, FormInv, GroupsFormed
<1>3. SameRow(u[1]) /\ u[1] \in Persons
  BY StepRows DEF SameRows, Live
<1>4. ASSUME UNCHANGED entries
      PROVE  /\ \A v : SameEntry(v)
             /\ EntryGood(u)'
  BY <1>3, <1>4, EntrySame DEF SameEntry
<1>5. CASE ops[o].pc = "search"
  <2>1. Search(o)
    BY <1>5, StepAt
  <2>2. UNCHANGED <<entries, groups>>
    BY <2>1 DEF Search
  <2>3. CASE u \notin groups[s]
    <3> DEFINE seen == [ops[o].seen EXCEPT ![s] = groups[s]]
               to == [ops[o] EXCEPT !.pc = "write", !.seen = seen]
    <3>1. Continue(o, to)
      BY <1>1, <2>1, <2>3 DEF Search
    <3>2. to.pc = "write" /\ to.seen[s] = groups[s]
      BY <1>2 DEF Formed
    <3> HIDE DEF to
    <3>3. ops' = [ops EXCEPT ![o] = to]
      BY <3>1, <3>2 DEF Continue
    <3>4. CreationSound(u, o)'
      BY <1>1, <2>2, <2>3, <3>2, <3>3 DEF CreationSound
    <3> QED
      BY <1>4, <2>2, <3>3, <3>4
  <2>4. CASE u \in groups[s]
    <3>1. Goto(o, "lookup")
      BY <1>1, <2>1, <2>4 DEF Search
    <3>2. o \in DOMAIN ops' /\ ops'[o].pc = "lookup"
      BY <3>1, GotoDoes
    <3>3. CreationSound(u, o)'
      BY <1>1, <2>2, <2>4, <3>2 DEF CreationSound
    <3> QED
      BY <1>4, <2>2, <3>2, <3>3
  <2> QED
    BY <2>3, <2>4
<1>6. CASE ops[o].pc = "write"
  <2>1. AddMember(o)
    BY <1>1, <1>6, StepAt DEF RemoveMember
  <2>2. /\ groups' = [groups EXCEPT ![s] = groups[s] \cup {u}] /\ Answered(o, "lookup")
        /\ UNCHANGED entries
    BY <1>1, <1>2, <1>6, <2>1 DEF AddMember
  <2>3. groups'[s] = groups[s] \cup {u} /\ \A t \in Schools : t # s => groups'[t] = groups[t]
    BY <1>2, <2>2
  <2>4. o \in DOMAIN ops' /\ ops'[o].pc = "lookup"
    BY <2>2, AnswerComes, GotoDoes
  <2>5. CreationSound(u, o)'
    BY <1>1, <2>3, <2>4 DEF CreationSound
  <2> QED
    BY <1>4, <1>6, <2>2, <2>3, <2>4, <2>5
<1>7. CASE ops[o].pc = "lookup"
  <2>1. Lookup(o)
    BY <1>7, StepAt
  <2>2. UNCHANGED <<entries, groups>>
    BY <2>1 DEF Lookup
  <2>3. CASE u \notin DOMAIN entries
    <3>1. Goto(o, "insert")
      BY <1>1, <2>1, <2>3 DEF Lookup, LookupMissing, LookupFound
    <3>2. o \in DOMAIN ops' /\ ops'[o].pc = "insert"
      BY <3>1, GotoDoes
    <3>3. CreationSound(u, o)'
      BY <1>1, <1>2, <1>7, <2>2, <3>2 DEF CreationSound
    <3> QED
      BY <1>4, <2>2, <3>2, <3>3
  <2>4. CASE u \in DOMAIN entries
    <3>1. Goto(o, "store")
      BY <1>1, <2>1, <2>4 DEF Lookup, LookupMissing, LookupFound
    <3>2. o \in DOMAIN ops' /\ ops'[o].pc = "store"
      BY <3>1, GotoDoes
    <3>3. CreationSound(u, o)'
      BY <1>1, <1>2, <1>7, <2>2, <2>4, <3>2 DEF CreationSound
    <3> QED
      BY <1>4, <2>2, <3>2, <3>3
  <2> QED
    BY <2>3, <2>4
<1>8. CASE ops[o].pc = "insert"
  <2>1. Insert(o)
    BY <1>8, StepAt
  <2>2. SetEntry(u, Entry(u[2], "")) /\ Answered(o, "uuid") /\ UNCHANGED groups
    BY <1>1, <2>1 DEF Insert
  <2>3. o \in DOMAIN ops' /\ ops'[o].pc = "uuid"
    BY <2>2, AnswerComes, GotoDoes
  <2>4. u \in DOMAIN entries' /\ entries'[u] = Entry(u[2], "") /\ \A v : v # u => SameEntry(v)
    BY <2>2, SetEntryDoes
  <2>5. u[2] = db[u[1]].name
    BY LiveName
  <2>6. EntryGood(u)'
    <3>1. PICK n, m : n = u[2] /\ m = ""
      OBVIOUS
    <3>2. entries'[u] = Entry(n, m)
      BY <2>4, <3>1
    <3>3. entries'[u].naming = n /\ entries'[u].mail = m
      BY <3>2, EntryHas
    <3>4. entries'[u].naming = db'[u[1]].name
      BY <1>3, <2>5, <3>1, <3>3 DEF SameRow
    <3> QED
      BY <3>1, <3>3, <3>4 DEF EntryGood, MailGood
  <2>7. CreationSound(u, o)'
    BY <1>1, <1>2, <1>8, <2>2, <2>3, <2>4 DEF CreationSound
  <2> QED
    BY <2>2, <2>3, <2>4, <2>6, <2>7
<1>9. CASE ops[o].pc = "uuid"
  <2>1. Goto(o, "store") /\ UNCHANGED <<entries, groups>>
    BY <1>9, StepAt DEF ReadUuid
  <2>2. o \in DOMAIN ops' /\ ops'[o].pc = "store"
    BY <2>1, GotoDoes
  <2>3. CreationSound(u, o)'
    BY <1>1, <1>2, <1>9, <2>1, <2>2 DEF CreationSound
  <2> QED
    BY <1>4, <2>1, <2>2, <2>3
<1>10. CASE ops[o].pc = "store"
  <2>1. Goto(o, "end") /\ UNCHANGED <<entries, groups>>
    BY <1>10, StepAt DEF Store
  <2>2. o \notin DOMAIN ops'
    BY <2>1, GotoEnds
  <2> QED
    BY <1>2, <1>4, <1>10, <2>1, <2>2
<1> QED
  BY <1>2, <1>5, <1>6, <1>7, <1>8, <1>9, <1>10

\* Nobody writes a group between the search and the write of another creation.
LEMMA OneWrites ==
    ASSUME MutexInv, NEW o \in DOMAIN ops, NEW x \in DOMAIN ops, x # o,
           Kind(o) = "create", Kind(x) = "create", ops[o].pc = "write"
    PROVE  ops[x].pc # "write"
BY DEF MutexInv, Sound, Mutexed, Waiting

LEMMA ChangingStep ==
    ASSUME MutexInv, FormInv, NEW e, NEW u, Changing(e, u),
           NEW o \in DOMAIN ops, Step(o), ~CallFails
    PROVE  Changing(e, u)'
<1>1. /\ Working({e}) /\ Live(u) /\ Besides(u) /\ EntryGood(u)
      /\ \A r : Due(e, r) =>
             \E s \in Schools : \/ RemovesAt(u, s, r) /\ ~Teaches(u[1], s)
                                \/ CreatesAt(u, s, r) /\ Teaches(u[1], s)
      /\ \A x \in DOMAIN ops : IF Kind(x) = "remove" THEN RemovalSound(u, x) ELSE CreationSound(u, x)
      /\ \A s \in Schools :
             IF Teaches(u[1], s)
             THEN \/ u \in groups[s] /\ u \in DOMAIN entries
                  \/ \E r : Due(e, r) /\ CreatesAt(u, s, r)
             ELSE u \in groups[s] => u \in DOMAIN entries /\ \E r : Due(e, r) /\ RemovesAt(u, s, r)
  BY DEF Changing
<1>2. o = <<e, o[2]>> /\ \A x \in DOMAIN ops : x = <<e, x[2]>> /\ Due(e, x[2])
  BY <1>1 DEF Working, Due
<1>3. PICK t \in Schools : \/ RemovesAt(u, t, o[2]) /\ ~Teaches(u[1], t)
                           \/ CreatesAt(u, t, o[2]) /\ Teaches(u[1], t)
  BY <1>1, <1>2
<1>4. Kind(o) \in {"remove", "create"} /\ (Kind(o) = "remove" => RemovesAt(u, t, o[2]) /\ ~Teaches(u[1], t))
      /\ (Kind(o) = "create" => CreatesAt(u, t, o[2]) /\ Teaches(u[1], t))
  BY <1>3 DEF Kind, RemovesAt, CreatesAt
<1>5. SameRows /\ u[1] \in Persons /\ \A s : Teaches(u[1], s)' <=> Teaches(u[1], s)
  BY <1>1, StepRows, TeachesSame DEF SameRows, Live
<1>6. /\ Others(o) /\ DOMAIN events' = DOMAIN events
      /\ \A d \in DOMAIN events : events'[d].plan = events[d].plan
  <2>1. ops[o].pc = "uuid" => Kind(o) = "create"
    BY <1>1, <1>4 DEF RemovalSound
  <2> QED
    BY <1>4, <2>1, StepOthers, PlansStay
<1>7. /\ Working({e})' /\ \A r : Due(e, r)' => Due(e, r)
      /\ \A r : Due(e, r) => Due(e, r)' \/ (r = o[2] /\ o \notin DOMAIN ops')
  <2>1. PICK E : E = {e}
    OBVIOUS
  <2>2. /\ Working(E)'
        /\ \A d \in E : \A r : Due(d, r)' => Due(d, r)
        /\ \A d \in E : \A r : Due(d, r) => Due(d, r)' \/ (<<d, r>> = o /\ o \notin DOMAIN ops')
    BY <1>1, <1>6, <2>1, StepWorking
  <2> QED
    BY <2>1, <2>2
\* What the step does to the directory.
<1>8. /\ \A v : v # u => SameEntry(v)
      /\ u \in DOMAIN entries => u \in DOMAIN entries'
      /\ EntryGood(u)'
      /\ \A s \in Schools : s # t => groups'[s] = groups[s]
      /\ \A s \in Schools : groups'[s] \cup {u} = groups[s] \cup {u}
      /\ Kind(o) = "create" => \A s \in Schools : u \in groups[s] => u \in groups'[s]
      /\ Kind(o) = "create" /\ groups' # groups => ops[o].pc = "write"
      /\ Kind(o) = "create" /\ o \notin DOMAIN ops' => u \in groups'[t] /\ u \in DOMAIN entries'
      /\ Kind(o) = "remove" /\ u \in groups'[t] => u \in groups[t]
      /\ Kind(o) = "remove" /\ o \notin DOMAIN ops' => u \notin groups'[t]
      /\ o \in DOMAIN ops' => IF Kind(o) = "remove" THEN RemovalSound(u, o)' ELSE CreationSound(u, o)'
  <2>1. CASE Kind(o) = "remove"
    <3>1. /\ UNCHANGED entries
          /\ \A s \in Schools : groups'[s] \cup {u} = groups[s] \cup {u}
          /\ \A s \in Schools : s # t => groups'[s] = groups[s]
          /\ u \in groups'[t] => u \in groups[t]
          /\ o \notin DOMAIN ops' => u \notin groups'[t]
          /\ o \in DOMAIN ops' => RemovalSound(u, o)'
      BY <1>1, <1>4, <2>1, RemoveWork
    <3>2. \A v : SameEntry(v)
      BY <3>1 DEF SameEntry
    <3>3. EntryGood(u)'
      BY <1>1, <1>5, <3>2, EntrySame DEF SameRows
    <3> QED
      BY <2>1, <3>1, <3>2, <3>3
  <2>2. CASE Kind(o) = "create"
    <3>1. /\ \A v : v # u => SameEntry(v)
          /\ u \in DOMAIN entries => u \in DOMAIN entries'
          /\ EntryGood(u)'
          /\ \A s \in Schools : groups'[s] \in {groups[s], groups[s] \cup {u}}
          /\ \A s \in Schools : s # t => groups'[s] = groups[s]
          /\ groups' # groups => ops[o].pc = "write"
          /\ o \notin DOMAIN ops' => u \in groups'[t] /\ u \in DOMAIN entries'
          /\ o \in DOMAIN ops' => CreationSound(u, o)'
      BY <1>1, <1>4, <2>2, CreateWork
    <3>2. \A s \in Schools : groups'[s] \cup {u} = groups[s] \cup {u}
      BY <3>1
    <3> QED
      BY <2>2, <3>1, <3>2
  <2> QED
    BY <1>4, <2>1, <2>2
<1>9. Live(u)' /\ Besides(u)'
  <2>1. Live(u)'
    BY <1>1, <1>5, LiveSame DEF SameRows
  <2>2. ASSUME NEW v, v # u PROVE Good(v)'
    <3>1. SameEntry(v) /\ SameGroups(v) /\ Good(v)
      BY <1>1, <1>8, <2>2 DEF SameGroups, Besides
    <3> QED
      BY <1>5, <3>1, GoodSame DEF SameRows
  <2> QED
    BY <2>1, <2>2 DEF Besides
<1>10. ASSUME NEW x \in DOMAIN ops'
       PROVE  IF Kind(x) = "remove" THEN RemovalSound(u, x)' ELSE CreationSound(u, x)'
  <2>1. CASE x = o
    BY <1>8, <2>1
  <2>2. CASE x # o
    <3>1. x \in DOMAIN ops /\ ops'[x] = ops[x] /\ Due(e, x[2])
      BY <1>2, <1>6, <2>2 DEF Others
    <3>2. PICK s \in Schools : \/ RemovesAt(u, s, x[2]) /\ ~Teaches(u[1], s)
                               \/ CreatesAt(u, s, x[2]) /\ Teaches(u[1], s)
      BY <1>1, <3>1
    <3>3. x[2].school = s
      BY <3>2 DEF RemovesAt, CreatesAt
    <3>4. CASE Kind(x) = "remove"
      <4>1. RemovalSound(u, x)
        BY <1>1, <3>1, <3>4
      <4>2. groups'[s] \cup {u} = groups[s] \cup {u}
        BY <1>8
      <4> QED
        BY <3>1, <3>3, <3>4, <4>1, <4>2 DEF RemovalSound
    <3>5. CASE Kind(x) # "remove"
      <4>1. CreationSound(u, x) /\ Kind(x) = "create" /\ Teaches(u[1], s)
        BY <1>1, <3>1, <3>2, <3>5 DEF RemovesAt, CreatesAt, Kind
      <4>2. ops[x].pc = "write" => groups'[s] = groups[s]
        <5>1. CASE Kind(o) = "create"
          BY <1>8, <2>2, <3>1, <4>1, <5>1, OneWrites
        <5>2. CASE Kind(o) = "remove"
          BY <1>4, <1>8, <4>1, <5>2
        <5> QED
          BY <1>4, <5>1, <5>2
      <4>3. u \in groups[s] => u \in groups'[s]
        BY <1>4, <1>8, <4>1
      <4> QED
        BY <1>8, <3>1, <3>3, <3>5, <4>1, <4>2, <4>3 DEF CreationSound
    <3> QED
      BY <3>4, <3>5
  <2> QED
    BY <2>1, <2>2
<1>11. ASSUME NEW s \in Schools
       PROVE  IF Teaches(u[1], s)
              THEN \/ u \in groups'[s] /\ u \in DOMAIN entries'
                   \/ \E r : Due(e, r)' /\ CreatesAt(u, s, r)
              ELSE u \in groups'[s] =>
                       u \in DOMAIN entries' /\ \E r : Due(e, r)' /\ RemovesAt(u, s, r)
  <2>1. CASE Teaches(u[1], s)
    <3>1. CASE u \in groups[s] /\ u \in DOMAIN entries
      BY <1>4, <1>8, <2>1, <3>1
    <3>2. ASSUME NEW r, Due(e, r), CreatesAt(u, s, r), ~Due(e, r)'
          PROVE  u \in groups'[s] /\ u \in DOMAIN entries'
      <4>1. r = o[2] /\ o \notin DOMAIN ops'
        BY <1>7, <3>2
      <4>2. Kind(o) = "create" /\ s = t
        BY <1>4, <3>2, <4>1 DEF CreatesAt, RemovesAt, Kind
      <4> QED
        BY <1>8, <4>1, <4>2
    <3> QED
      BY <1>1, <2>1, <3>1, <3>2
  <2>2. CASE ~Teaches(u[1], s) /\ u \in groups'[s]
    <3>1. u \in groups[s]
      BY <1>4, <1>8, <2>2
    <3>2. PICK r : Due(e, r) /\ RemovesAt(u, s, r) /\ u \in DOMAIN entries
      BY <1>1, <2>2, <3>1
    <3>3. ASSUME ~Due(e, r)' PROVE FALSE
      <4>1. r = o[2] /\ o \notin DOMAIN ops'
        BY <1>7, <3>2, <3>3
      <4>2. Kind(o) = "remove" /\ s = t
        BY <1>4, <3>2, <4>1 DEF CreatesAt, RemovesAt, Kind
      <4> QED
        BY <1>8, <2>2, <4>1, <4>2
    <3> QED
      BY <1>8, <2>2, <3>2, <3>3
  <2> QED
    BY <2>1, <2>2
<1>12. \A r : Due(e, r)' =>
             \E s \in Schools : \/ RemovesAt(u, s, r) /\ ~Teaches(u[1], s)'
                                \/ CreatesAt(u, s, r) /\ Teaches(u[1], s)'
  BY <1>1, <1>5, <1>7
<1>13. \A x : Kind(x)' = Kind(x)
  BY DEF Kind
<1> QED
  BY <1>5, <1>7, <1>8, <1>9, <1>10, <1>11, <1>12, <1>13 DEF Changing, RemovesAt, CreatesAt

-----------------------------------------------------------------------------
(* Steps of handlers.                                                       *)

Handles(d) == Advance(d) \/ Return(d)

LEMMA OverFields == Over.plan = <<>> /\ Over.mail = ""
BY DEF Over

\* What a short plan still asks for.
LEMMA PlannedWhen ==
    /\ \A r : ~Planned(<<>>, r)
    /\ \A a, r : Planned(<<a>>, r) <=> r \in a
    /\ \A a, b, r : Planned(<<a, b>>, r) <=> r \in a \/ r \in b
<1>1. \A a, b : <<a>> # <<>> /\ <<a, b>> # <<>>
  OBVIOUS
<1> QED
  BY <1>1, Tuples DEF Planned

LEMMA PlannedNext ==
    ASSUME NEW plan, Short(plan), plan # <<>>
    PROVE  /\ Short(Tail(plan))
           /\ \A r : Planned(plan, r) <=> r \in Head(plan) \/ Planned(Tail(plan), r)
<1>1. CASE \E a : plan = <<a>>
  BY <1>1, PlannedWhen, Tuples DEF Short
<1>2. CASE \E a, b : plan = <<a, b>>
  BY <1>2, PlannedWhen, Tuples DEF Short
<1> QED
  BY <1>1, <1>2 DEF Short

\* A handler goes on: what is due stays so, and new operations begin.
LEMMA HandlerWorks ==
    ASSUME FormInv, NEW E, Working(E), NEW d \in DOMAIN events, Handles(d)
    PROVE  /\ UNCHANGED <<db, entries, groups>>
           /\ Working(E)' /\ DOMAIN events' = DOMAIN events
           /\ \A e \in E : \A r : Due(e, r)' <=> Due(e, r)
           /\ \A x \in DOMAIN ops : x \in DOMAIN ops' /\ ops'[x] = ops[x]
           /\ \A x \in DOMAIN ops' : x \notin DOMAIN ops => ops'[x] = Begun(x, 1)
<1>1. UNCHANGED <<db, entries, groups>>
  BY DEF Handles, Advance, Return
<1>2. /\ E \subseteq DOMAIN events
      /\ \A x \in DOMAIN events : Short(events[x].plan) /\ (x \notin E => events[x].plan = <<>>)
      /\ \A o \in DOMAIN ops : o[1] \in E /\ o = <<o[1], o[2]>>
  BY DEF Working
<1>3. CASE Advance(d)
  <2> DEFINE next == {d} \X Head(events[d].plan)
  <2>1. /\ events[d].plan # <<>> /\ d \in E
        /\ DOMAIN ops' = DOMAIN ops \cup next
        /\ \A x \in DOMAIN ops : ops'[x] = ops[x]
        /\ \A x \in DOMAIN ops' : x \notin DOMAIN ops => ops'[x] = Begun(x, 1)
    BY <1>2, <1>3 DEF Advance
  <2>2. /\ DOMAIN events' = DOMAIN events /\ events'[d].plan = Tail(events[d].plan)
        /\ \A x \in DOMAIN events : x # d => events'[x] = events[x]
    BY <1>3, AdvanceDoes DEF FormInv
  <2>3. /\ Short(Tail(events[d].plan))
        /\ \A r : Planned(events[d].plan, r)
                     <=> r \in Head(events[d].plan) \/ Planned(Tail(events[d].plan), r)
    BY <1>2, <2>1, PlannedNext
  <2>4. \A e, r : <<e, r>> \in next <=> e = d /\ r \in Head(events[d].plan)
    OBVIOUS
  <2>5. \A x \in next : x[1] = d /\ x = <<x[1], x[2]>>
    OBVIOUS
  <2> HIDE DEF next
  <2>6. Working(E)'
    BY <1>2, <2>1, <2>2, <2>3, <2>5 DEF Working
  <2>7. \A e \in E : \A r : Due(e, r)' <=> Due(e, r)
    BY <1>2, <2>1, <2>2, <2>3, <2>4 DEF Due
  <2> QED
    BY <1>1, <2>1, <2>2, <2>6, <2>7
<1>4. CASE Return(d)
  <2>1. /\ DOMAIN events' = DOMAIN events /\ events'[d].plan = <<>> /\ events[d].plan = <<>>
        /\ \A x \in DOMAIN events : x # d => events'[x] = events[x]
    BY <1>4, ReturnDoes, OverFields DEF FormInv, Return
  <2>2. \A x \in DOMAIN events : events'[x].plan = events[x].plan
    BY <2>1
  <2>3. UNCHANGED ops
    BY <1>4 DEF Return
  <2>4. Working(E)'
    BY <1>2, <2>1, <2>2, <2>3 DEF Working
  <2>5. \A e \in E : \A r : Due(e, r)' <=> Due(e, r)
    BY <1>2, <2>2, <2>3 DEF Due
  <2> QED
    BY <1>1, <2>1, <2>3, <2>4, <2>5
<1> QED
  BY <1>3, <1>4 DEF Handles

\* The same for one handler, and for two.
LEMMA OneWorks ==
    ASSUME FormInv, NEW e, Working({e}), NEW d \in DOMAIN events, Handles(d)
    PROVE  Working({e})' /\ \A r : Due(e, r)' <=> Due(e, r)
<1>1. PICK E : E = {e}
  OBVIOUS
<1>2. Working(E)' /\ \A x \in E : \A r : Due(x, r)' <=> Due(x, r)
  BY <1>1, HandlerWorks
<1> QED
  BY <1>1, <1>2

LEMMA NothingChanges ==
    ASSUME UNCHANGED <<db, entries, groups>>
    PROVE  /\ \A v : Good(v)' <=> Good(v)
           /\ \A v : Live(v)' <=> Live(v)
           /\ \A v : EntryGood(v)' <=> EntryGood(v)
           /\ \A v : MailGood(v)' <=> MailGood(v)
           /\ \A v : GroupsGood(v)' <=> GroupsGood(v)
           /\ \A v : Besides(v)' <=> Besides(v)
           /\ \A p, s : Teaches(p, s)' <=> Teaches(p, s)
<1>1. \A p, s : Teaches(p, s)' <=> Teaches(p, s)
  BY DEF Teaches
<1>2. \A v : Live(v)' <=> Live(v)
  BY DEF Live, Uid
<1>3. \A v : MailGood(v)' <=> MailGood(v)
  BY DEF MailGood
<1>4. \A v : EntryGood(v)' <=> EntryGood(v)
  BY <1>3 DEF EntryGood
<1>5. \A v : GroupsGood(v)' <=> GroupsGood(v)
  BY <1>1, <1>2 DEF GroupsGood
<1>6. \A v : Good(v)' <=> Good(v)
  BY <1>2, <1>4, <1>5 DEF Good
<1> QED
  BY <1>1, <1>2, <1>3, <1>4, <1>5, <1>6 DEF Besides

LEMMA ChangingHandled ==
    ASSUME FormInv, NEW e, NEW u, Changing(e, u), NEW d \in DOMAIN events, Handles(d)
    PROVE  Changing(e, u)'
<1>1. /\ Working({e}) /\ Live(u) /\ Besides(u) /\ EntryGood(u)
      /\ \A r : Due(e, r) =>
             \E s \in Schools : \/ RemovesAt(u, s, r) /\ ~Teaches(u[1], s)
                                \/ CreatesAt(u, s, r) /\ Teaches(u[1], s)
      /\ \A x \in DOMAIN ops : IF Kind(x) = "remove" THEN RemovalSound(u, x) ELSE CreationSound(u, x)
      /\ \A s \in Schools :
             IF Teaches(u[1], s)
             THEN \/ u \in groups[s] /\ u \in DOMAIN entries
                  \/ \E r : Due(e, r) /\ CreatesAt(u, s, r)
             ELSE u \in groups[s] => u \in DOMAIN entries /\ \E r : Due(e, r) /\ RemovesAt(u, s, r)
  BY DEF Changing
<1>2. /\ UNCHANGED <<db, entries, groups>>
      /\ \A x \in DOMAIN ops : x \in DOMAIN ops' /\ ops'[x] = ops[x]
      /\ \A x \in DOMAIN ops' : x \notin DOMAIN ops => ops'[x] = Begun(x, 1)
  <2>1. PICK E : E = {e}
    OBVIOUS
  <2> QED
    BY <1>1, <2>1, HandlerWorks
<1>3. Working({e})' /\ \A r : Due(e, r)' <=> Due(e, r)
  BY <1>1, OneWorks
<1>4. /\ Live(u)' /\ Besides(u)' /\ EntryGood(u)' /\ \A s : Teaches(u[1], s)' <=> Teaches(u[1], s)
      /\ groups' = groups /\ entries' = entries
  BY <1>1, <1>2, NothingChanges
<1>5. ASSUME NEW x \in DOMAIN ops'
      PROVE  IF Kind(x) = "remove" THEN RemovalSound(u, x)' ELSE CreationSound(u, x)'
  <2>1. CASE x \in DOMAIN ops
    BY <1>1, <1>2, <2>1 DEF RemovalSound, CreationSound
  <2>2. CASE x \notin DOMAIN ops
    <3>1. x = <<e, x[2]>>
      BY <1>3 DEF Working
    <3>2. Due(e, x[2])'
      BY <3>1 DEF Due
    <3>3. Kind(x) \in {"remove", "create"}
      BY <1>1, <1>3, <3>2 DEF RemovesAt, CreatesAt, Kind
    <3>4. ops'[x].pc = "search"
      BY <1>2, <2>2, <3>3, BegunFirst DEF First
    <3> QED
      BY <3>4 DEF RemovalSound, CreationSound
  <2> QED
    BY <2>1, <2>2
<1>6. \A x : Kind(x)' = Kind(x)
  BY DEF Kind
<1> QED
  BY <1>1, <1>3, <1>4, <1>5, <1>6 DEF Changing, RemovesAt, CreatesAt

LEMMA RemailingHandled ==
    ASSUME FormInv, NEW e, NEW u, Remailing(e, u), NEW d \in DOMAIN events, Handles(d)
    PROVE  Remailing(e, u)'
<1>1. PICK r : r = AskMail(u, db[u[1]].mail)
  OBVIOUS
<1>2. /\ Working({e}) /\ Live(u) /\ Besides(u) /\ GroupsGood(u)
      /\ u \in DOMAIN entries => entries[u].naming = db[u[1]].name /\ (MailGood(u) \/ Due(e, r))
      /\ \A x : Due(e, x) => x = r
      /\ \A o \in DOMAIN ops : /\ ops[o].pc \in {"lookup", "primary", "alt"}
                               /\ ops[o].pc = "alt" => MailGood(u)
  BY <1>1 DEF Remailing
<1>3. /\ UNCHANGED <<db, entries, groups>>
      /\ \A x \in DOMAIN ops : x \in DOMAIN ops' /\ ops'[x] = ops[x]
      /\ \A x \in DOMAIN ops' : x \notin DOMAIN ops => ops'[x] = Begun(x, 1)
  <2>1. PICK E : E = {e}
    OBVIOUS
  <2> QED
    BY <1>2, <2>1, HandlerWorks
<1>4. Working({e})' /\ \A x : Due(e, x)' <=> Due(e, x)
  BY <1>2, OneWorks
<1>5. Live(u)' /\ Besides(u)' /\ GroupsGood(u)' /\ (MailGood(u)' <=> MailGood(u))
  BY <1>2, <1>3, NothingChanges
<1>6. ASSUME NEW x \in DOMAIN ops'
      PROVE  /\ ops'[x].pc \in {"lookup", "primary", "alt"}
             /\ ops'[x].pc = "alt" => MailGood(u)'
  <2>1. CASE x \in DOMAIN ops
    BY <1>2, <1>3, <1>5, <2>1
  <2>2. CASE x \notin DOMAIN ops
    <3>1. x = <<e, x[2]>>
      BY <1>4 DEF Working
    <3>2. Due(e, x[2])'
      BY <3>1 DEF Due
    <3>3. x[2] = r /\ r.kind = "mail"
      BY <1>1, <1>2, <1>4, <3>2 DEF AskMail, Request
    <3>4. ops'[x].pc = "lookup"
      BY <1>3, <2>2, <3>3, BegunFirst DEF First, Kind
    <3> QED
      BY <3>4
  <2> QED
    BY <2>1, <2>2
<1>7. r = AskMail(u, db'[u[1]].mail)
  BY <1>1, <1>3
<1> QED
  BY <1>2, <1>3, <1>4, <1>5, <1>6, <1>7 DEF Remailing

LEMMA DeletingHandled ==
    ASSUME FormInv, NEW e, NEW f, NEW u, Deleting(e, f, u), NEW d \in DOMAIN events, Handles(d)
    PROVE  Deleting(e, f, u)'
<1>1. PICK r : r = Request("delete", u)
  OBVIOUS
<1>2. /\ Working({e, f}) /\ e # f /\ u[1] \in Persons /\ db[u[1]].gone /\ db[u[1]].kontexte = {}
      /\ Besides(u)
      /\ \A x : Due(e, x) => \E s \in Schools : RemovesAt(u, s, x)
      /\ \A x : Due(f, x) => x = r
      /\ \A o \in DOMAIN ops :
             IF o[1] = e THEN RemovalSound(u, o) ELSE ops[o].pc \in {"lookup", "delete"}
      /\ \A s \in Schools : u \in groups[s] => \E x : Due(e, x) /\ RemovesAt(u, s, x)
      /\ u \in DOMAIN entries => Due(f, r)
  BY <1>1 DEF Deleting
<1>3. /\ UNCHANGED <<db, entries, groups>> /\ Working({e, f})'
      /\ \A x : (Due(e, x)' <=> Due(e, x)) /\ (Due(f, x)' <=> Due(f, x))
      /\ \A x \in DOMAIN ops : x \in DOMAIN ops' /\ ops'[x] = ops[x]
      /\ \A x \in DOMAIN ops' : x \notin DOMAIN ops => ops'[x] = Begun(x, 1)
  <2>1. PICK E : E = {e, f}
    OBVIOUS
  <2>2. /\ UNCHANGED <<db, entries, groups>>
        /\ Working(E)'
        /\ \A x \in E : \A y : Due(x, y)' <=> Due(x, y)
        /\ \A x \in DOMAIN ops : x \in DOMAIN ops' /\ ops'[x] = ops[x]
        /\ \A x \in DOMAIN ops' : x \notin DOMAIN ops => ops'[x] = Begun(x, 1)
    BY <1>2, <2>1, HandlerWorks
  <2> QED
    BY <2>1, <2>2
<1>4. Besides(u)'
  BY <1>2, <1>3, NothingChanges
<1>5. ASSUME NEW x \in DOMAIN ops'
      PROVE  IF x[1] = e THEN RemovalSound(u, x)' ELSE ops'[x].pc \in {"lookup", "delete"}
  <2>1. CASE x \in DOMAIN ops
    BY <1>2, <1>3, <2>1 DEF RemovalSound
  <2>2. CASE x \notin DOMAIN ops
    <3>1. x = <<x[1], x[2]>> /\ x[1] \in {e, f}
      BY <1>3 DEF Working
    <3>2. Due(x[1], x[2])'
      BY <3>1 DEF Due
    <3>3. CASE x[1] = e
      <4>1. Kind(x) = "remove"
        BY <1>2, <1>3, <3>2, <3>3 DEF RemovesAt, Kind
      <4>2. ops'[x].pc = "search"
        BY <1>3, <2>2, <4>1, BegunFirst DEF First
      <4> QED
        BY <3>3, <4>2 DEF RemovalSound
    <3>4. CASE x[1] = f
      <4>1. x[2] = r
        BY <1>2, <1>3, <3>2, <3>4
      <4>2. Kind(x) = "delete"
        <5>1. Request("delete", u).kind = "delete"
          BY DEF Request
        <5> QED
          BY <1>1, <4>1, <5>1 DEF Kind
      <4>3. ops'[x].pc = "lookup"
        BY <1>3, <2>2, <4>2, BegunFirst DEF First
      <4> QED
        BY <1>2, <3>4, <4>3
    <3> QED
      BY <3>1, <3>3, <3>4
  <2> QED
    BY <2>1, <2>2
<1> QED
  BY <1>1, <1>2, <1>3, <1>4, <1>5 DEF Deleting, RemovesAt

-----------------------------------------------------------------------------
(* Steps that change an address, or delete.                                 *)

LEMMA OneStepWorks ==
    ASSUME FormInv, NEW e, Working({e}), NEW o \in DOMAIN ops, Step(o), ~CallFails,
           Kind(o) \notin {"attributes", "groups"}, ops[o].pc = "uuid" => Kind(o) = "create"
    PROVE  /\ Others(o) /\ Working({e})' /\ \A r : Due(e, r)' => Due(e, r)
           /\ \A r : Due(e, r) => Due(e, r)' \/ (r = o[2] /\ o \notin DOMAIN ops')
<1>1. /\ Others(o) /\ DOMAIN events' = DOMAIN events
      /\ \A d \in DOMAIN events : events'[d].plan = events[d].plan
  BY StepOthers, PlansStay
<1>2. PICK E : E = {e}
  OBVIOUS
<1>3. /\ Working(E)'
      /\ \A d \in E : \A r : Due(d, r)' => Due(d, r)
      /\ \A d \in E : \A r : Due(d, r) => Due(d, r)' \/ (<<d, r>> = o /\ o \notin DOMAIN ops')
  BY <1>1, <1>2, StepWorking
<1>4. \A r : <<e, r>> = o => r = o[2]
  OBVIOUS
<1> QED
  BY <1>1, <1>2, <1>3, <1>4

\* What a step of changeEmailAddress() comes to.
LEMMA MailWork ==
    ASSUME MutexInv, FormInv, NEW o \in DOMAIN ops, NEW u, NEW m,
           Kind(o) = "mail", o[2].uid = u, o[2].mail = m, Step(o), ~CallFails,
           ops[o].pc \in {"lookup", "primary", "alt"},
           NEW G, m \in G, ops[o].pc = "alt" => entries[u].mail \in G
    PROVE  /\ UNCHANGED groups
           /\ \A v : v # u => SameEntry(v)
           /\ u \in DOMAIN entries <=> u \in DOMAIN entries'
           /\ u \in DOMAIN entries => entries'[u].naming = entries[u].naming
           /\ u \in DOMAIN entries => entries'[u].mail \in {entries[u].mail, m}
           /\ o \notin DOMAIN ops' /\ u \in DOMAIN entries' => entries'[u].mail \in G
           /\ o \in DOMAIN ops' =>
                  /\ ops'[o].pc \in {"lookup", "primary", "alt"}
                  /\ ops'[o].pc = "alt" => u \in DOMAIN entries' /\ entries'[u].mail \in G
<1>1. u \in DOMAIN entries => DOMAIN entries[u] = EntryFields
  BY DEF FormInv, EntriesFormed
<1>2. ops[o].pc \in {"primary", "alt"} => u \in DOMAIN entries
  BY HasMutex DEF Waiting, NeedsEntry, Found
<1>3. CASE ops[o].pc = "lookup"
  <2>1. Lookup(o)
    BY <1>3, StepAt
  <2>2. UNCHANGED <<entries, groups>>
    BY <2>1 DEF Lookup
  <2>3. \A v : SameEntry(v)
    BY <2>2 DEF SameEntry
  <2>4. CASE u \in DOMAIN entries
    <3> DEFINE to == [ops[o] EXCEPT !.pc = "primary", !.mail = entries[u].mail]
    <3>1. Continue(o, to)
      BY <2>1, <2>4 DEF Lookup, LookupMissing, LookupFound
    <3>2. to.pc = "primary"
      BY DEF MutexInv, Sound, Formed
    <3> HIDE DEF to
    <3>3. ops' = [ops EXCEPT ![o] = to]
      BY <3>1, <3>2 DEF Continue
    <3>4. o \in DOMAIN ops' /\ ops'[o].pc = "primary"
      BY <3>2, <3>3
    <3> QED
      BY <2>2, <2>3, <3>4
  <2>5. CASE u \notin DOMAIN entries
    <3>1. Fail(o)
      BY <2>1, <2>5 DEF Lookup, LookupMissing, LookupFound
    <3>2. Inner(o) = "" /\ First(o) = "lookup"
      BY DEF Inner, First
    <3>3. o \in DOMAIN ops' => ops'[o].pc = "lookup"
      BY <3>1, <3>2, FailsWhole, BegunFirst
    <3> QED
      BY <2>2, <2>3, <2>5, <3>3
  <2> QED
    BY <2>4, <2>5
<1>4. CASE ops[o].pc = "primary"
  <2> DEFINE x == [entries[u] EXCEPT !.mail = m]
  <2>1. SetEntry(u, x) /\ Answered(o, "alt") /\ UNCHANGED groups
    BY <1>4, StepAt DEF Primary
  <2>2. x.mail = m /\ x.naming = entries[u].naming
    BY <1>1, <1>2, <1>4 DEF EntryFields
  <2> HIDE DEF x
  <2>3. o \in DOMAIN ops' /\ ops'[o].pc = "alt"
    BY <2>1, AnswerComes, GotoDoes
  <2>4. u \in DOMAIN entries' /\ entries'[u] = x /\ \A v : v # u => SameEntry(v)
    BY <2>1, SetEntryDoes
  <2> QED
    BY <1>2, <1>4, <2>1, <2>2, <2>3, <2>4
<1>5. CASE ops[o].pc = "alt"
  <2> DEFINE x == [entries[u] EXCEPT !.alt = ops[o].mail]
  <2>1. SetEntry(u, x) /\ Answered(o, "end") /\ UNCHANGED groups
    BY <1>5, StepAt DEF Alternative
  <2>2. x.mail = entries[u].mail /\ x.naming = entries[u].naming
    BY <1>1, <1>2, <1>5 DEF EntryFields
  <2> HIDE DEF x
  <2>3. o \notin DOMAIN ops'
    BY <2>1, AnswerComes, GotoEnds
  <2>4. u \in DOMAIN entries' /\ entries'[u] = x /\ \A v : v # u => SameEntry(v)
    BY <2>1, SetEntryDoes
  <2> QED
    BY <1>2, <1>5, <2>1, <2>2, <2>3, <2>4
<1> QED
  BY <1>3, <1>4, <1>5

LEMMA RemailingStep ==
    ASSUME MutexInv, FormInv, NEW e, NEW u, Remailing(e, u),
           NEW o \in DOMAIN ops, Step(o), ~CallFails
    PROVE  Remailing(e, u)'
<1>1. PICK m, r : m = db[u[1]].mail /\ r = AskMail(u, m)
  OBVIOUS
<1>2. /\ Working({e}) /\ Live(u) /\ Besides(u) /\ GroupsGood(u)
      /\ u \in DOMAIN entries => entries[u].naming = db[u[1]].name /\ (MailGood(u) \/ Due(e, r))
      /\ \A x : Due(e, x) => x = r
      /\ \A x \in DOMAIN ops : /\ ops[x].pc \in {"lookup", "primary", "alt"}
                               /\ ops[x].pc = "alt" => MailGood(u)
  BY <1>1 DEF Remailing
<1>3. \A x \in DOMAIN ops : x = <<e, r>>
  BY <1>2 DEF Working, Due
<1>4. Kind(o) = "mail" /\ o[2].uid = u /\ o[2].mail = m /\ o[2] = r
  <2>1. r.kind = "mail" /\ r.uid = u /\ r.mail = m
    BY <1>1 DEF AskMail, Request
  <2> QED
    BY <1>3, <2>1 DEF Kind
<1>5. /\ Others(o) /\ Working({e})' /\ \A x : Due(e, x)' => Due(e, x)
      /\ \A x : Due(e, x) => Due(e, x)' \/ (x = r /\ o \notin DOMAIN ops')
  BY <1>2, <1>4, OneStepWorks
<1>6. /\ SameRows /\ u[1] \in Persons /\ db'[u[1]].mail = m
      /\ db'[u[1]].name = db[u[1]].name /\ Live(u)'
  BY <1>1, <1>2, StepRows, LiveSame DEF SameRows, SameRow, Live
<1>7. /\ UNCHANGED groups
      /\ \A v : v # u => SameEntry(v)
      /\ u \in DOMAIN entries <=> u \in DOMAIN entries'
      /\ u \in DOMAIN entries => entries'[u].naming = entries[u].naming
      /\ u \in DOMAIN entries => entries'[u].mail \in {entries[u].mail, m}
      /\ o \notin DOMAIN ops' /\ u \in DOMAIN entries' => entries'[u].mail \in {"", m}
      /\ o \in DOMAIN ops' =>
             /\ ops'[o].pc \in {"lookup", "primary", "alt"}
             /\ ops'[o].pc = "alt" => entries'[u].mail \in {"", m}
  <2>1. PICK G : G = {"", m} /\ m \in G
    OBVIOUS
  <2>2. ops[o].pc \in {"lookup", "primary", "alt"} /\ (ops[o].pc = "alt" => entries[u].mail \in G)
    BY <1>1, <1>2, <2>1 DEF MailGood
  <2>3. /\ UNCHANGED groups
        /\ \A v : v # u => SameEntry(v)
        /\ u \in DOMAIN entries <=> u \in DOMAIN entries'
        /\ u \in DOMAIN entries => entries'[u].naming = entries[u].naming
        /\ u \in DOMAIN entries => entries'[u].mail \in {entries[u].mail, m}
        /\ o \notin DOMAIN ops' /\ u \in DOMAIN entries' => entries'[u].mail \in G
        /\ o \in DOMAIN ops' =>
               /\ ops'[o].pc \in {"lookup", "primary", "alt"}
               /\ ops'[o].pc = "alt" => u \in DOMAIN entries' /\ entries'[u].mail \in G
    <3>1. /\ Kind(o) = "mail" /\ o[2].uid = u /\ o[2].mail = m /\ Step(o) /\ ~CallFails
          /\ ops[o].pc \in {"lookup", "primary", "alt"} /\ m \in G /\ (ops[o].pc = "alt" => entries[u].mail \in G)
          /\ MutexInv /\ FormInv
      BY <1>4, <2>1, <2>2
    <3>2. u \in DOMAIN entries <=> u \in DOMAIN entries'
      BY <3>1, MailWork
    <3>3. UNCHANGED groups
      BY <3>1, MailWork
    <3>4. \A v : v # u => SameEntry(v)
      BY <3>1, MailWork
    <3>5. u \in DOMAIN entries => entries'[u].naming = entries[u].naming
      BY <3>1, MailWork
    <3>6. u \in DOMAIN entries => entries'[u].mail \in {entries[u].mail, m}
      BY <3>1, MailWork
    <3>7. o \notin DOMAIN ops' /\ u \in DOMAIN entries' => entries'[u].mail \in G
      BY <3>1, MailWork
    <3>8. o \in DOMAIN ops' =>
               /\ ops'[o].pc \in {"lookup", "primary", "alt"}
               /\ ops'[o].pc = "alt" => u \in DOMAIN entries' /\ entries'[u].mail \in G
      BY <3>1, MailWork
    <3> QED
      BY <3>2, <3>3, <3>4, <3>5, <3>6, <3>7, <3>8
  <2> QED
    BY <2>1, <2>3
<1>8. Besides(u)'
  <2> SUFFICES ASSUME NEW v, v # u PROVE Good(v)'
    BY DEF Besides
  <2>1. SameEntry(v) /\ SameGroups(v) /\ Good(v)
    BY <1>2, <1>7 DEF SameGroups, Besides
  <2> QED
    BY <1>6, <2>1, GoodSame DEF SameRows
<1>9. GroupsGood(u)'
  <2>1. \A s : Teaches(u[1], s)' <=> Teaches(u[1], s)
    BY <1>6, TeachesSame DEF SameRows
  <2> QED
    BY <1>2, <1>6, <1>7, <2>1 DEF GroupsGood
<1>10. MailGood(u)' <=> entries'[u].mail \in {"", m}
  BY <1>6 DEF MailGood
<1>11. u \in DOMAIN entries' => entries'[u].naming = db'[u[1]].name /\ (MailGood(u)' \/ Due(e, r)')
  <2>1. MailGood(u) <=> entries[u].mail \in {"", m}
    BY <1>1 DEF MailGood
  <2> QED
    BY <1>2, <1>5, <1>6, <1>7, <1>10, <2>1
<1>12. ASSUME NEW x \in DOMAIN ops'
       PROVE  /\ ops'[x].pc \in {"lookup", "primary", "alt"}
              /\ ops'[x].pc = "alt" => MailGood(u)'
  <2>1. x = o
    BY <1>3, <1>5 DEF Others
  <2> QED
    BY <1>7, <1>10, <1>12, <2>1
<1> QED
  BY <1>1, <1>2, <1>5, <1>6, <1>8, <1>9, <1>11, <1>12 DEF Remailing

\* What a step of deleteLehrerByReferrer() comes to.
LEMMA DeleteWork ==
    ASSUME MutexInv, FormInv, NEW o \in DOMAIN ops, NEW u,
           Kind(o) = "delete", o[2].uid = u, Step(o), ~CallFails,
           ops[o].pc \in {"lookup", "delete"}
    PROVE  /\ UNCHANGED groups
           /\ \A v : v # u => SameEntry(v)
           /\ u \in DOMAIN entries' => u \in DOMAIN entries /\ o \in DOMAIN ops'
           /\ o \in DOMAIN ops' => ops'[o].pc \in {"lookup", "delete"}
<1>1. CASE ops[o].pc = "lookup"
  <2>1. Lookup(o)
    BY <1>1, StepAt
  <2>2. UNCHANGED <<entries, groups>>
    BY <2>1 DEF Lookup
  <2>3. \A v : SameEntry(v)
    BY <2>2 DEF SameEntry
  <2>4. CASE u \in DOMAIN entries
    <3>1. Goto(o, "delete")
      BY <2>1, <2>4 DEF Lookup, LookupMissing, LookupFound
    <3>2. o \in DOMAIN ops' /\ ops'[o].pc = "delete"
      BY <3>1, GotoDoes
    <3> QED
      BY <2>2, <2>3, <2>4, <3>2
  <2>5. CASE u \notin DOMAIN entries
    <3>1. Fail(o)
      BY <2>1, <2>5 DEF Lookup, LookupMissing, LookupFound
    <3>2. Inner(o) = "" /\ First(o) = "lookup"
      BY DEF Inner, First
    <3>3. o \in DOMAIN ops' => ops'[o].pc = "lookup"
      BY <3>1, <3>2, FailsWhole, BegunFirst
    <3> QED
      BY <2>2, <2>3, <2>5, <3>3
  <2> QED
    BY <2>4, <2>5
<1>2. CASE ops[o].pc = "delete"
  <2>1. /\ entries' = [v \in DOMAIN entries \ {u} |-> entries[v]]
        /\ Answered(o, "end") /\ UNCHANGED groups
    BY <1>2, StepAt DEF Delete
  <2>2. \A v : v # u => SameEntry(v)
    BY <2>1 DEF SameEntry
  <2>3. u \notin DOMAIN entries'
    BY <2>1
  <2>4. o \notin DOMAIN ops'
    BY <2>1, AnswerComes, GotoEnds
  <2> QED
    BY <2>1, <2>2, <2>3, <2>4
<1> QED
  BY <1>1, <1>2

LEMMA TwoStepWorks ==
    ASSUME FormInv, NEW e, NEW f, Working({e, f}), NEW o \in DOMAIN ops, Step(o), ~CallFails,
           Kind(o) \notin {"attributes", "groups"}, ops[o].pc = "uuid" => Kind(o) = "create"
    PROVE  /\ Others(o) /\ Working({e, f})'
           /\ \A r : (Due(e, r)' => Due(e, r)) /\ (Due(f, r)' => Due(f, r))
           /\ \A r : Due(e, r) => Due(e, r)' \/ (<<e, r>> = o /\ o \notin DOMAIN ops')
           /\ \A r : Due(f, r) => Due(f, r)' \/ (<<f, r>> = o /\ o \notin DOMAIN ops')
<1>1. /\ Others(o) /\ DOMAIN events' = DOMAIN events
      /\ \A d \in DOMAIN events : events'[d].plan = events[d].plan
  BY StepOthers, PlansStay
<1>2. PICK E : E = {e, f}
  OBVIOUS
<1>3. /\ Working(E)'
      /\ \A d \in E : \A r : Due(d, r)' => Due(d, r)
      /\ \A d \in E : \A r : Due(d, r) => Due(d, r)' \/ (<<d, r>> = o /\ o \notin DOMAIN ops')
  BY <1>1, <1>2, StepWorking
<1> QED
  BY <1>1, <1>2, <1>3

LEMMA DeletingStep ==
    ASSUME MutexInv, FormInv, NEW e, NEW f, NEW u, Deleting(e, f, u),
           NEW o \in DOMAIN ops, Step(o), ~CallFails
    PROVE  Deleting(e, f, u)'
<1>1. PICK r : r = Request("delete", u) /\ r.kind = "delete" /\ r.uid = u
  <2>1. Request("delete", u).kind = "delete" /\ Request("delete", u).uid = u
    BY DEF Request
  <2> QED
    BY <2>1
<1>2. /\ Working({e, f}) /\ e # f /\ u[1] \in Persons /\ db[u[1]].gone /\ db[u[1]].kontexte = {}
      /\ Besides(u)
      /\ \A x : Due(e, x) => \E s \in Schools : RemovesAt(u, s, x)
      /\ \A x : Due(f, x) => x = r
      /\ \A x \in DOMAIN ops :
             IF x[1] = e THEN RemovalSound(u, x) ELSE ops[x].pc \in {"lookup", "delete"}
      /\ \A s \in Schools : u \in groups[s] => \E x : Due(e, x) /\ RemovesAt(u, s, x)
      /\ u \in DOMAIN entries => Due(f, r)
  BY <1>1 DEF Deleting
<1>3. \A x \in DOMAIN ops : /\ x = <<x[1], x[2]>> /\ x[1] \in {e, f}
                            /\ x[1] = e => \E s \in Schools : RemovesAt(u, s, x[2])
                            /\ x[1] = f => x[2] = r
  <2>1. \A x \in DOMAIN ops : x = <<x[1], x[2]>> /\ x[1] \in {e, f}
    BY <1>2 DEF Working
  <2>2. \A x \in DOMAIN ops : Due(x[1], x[2])
    BY <2>1 DEF Due
  <2> QED
    BY <1>2, <2>1, <2>2
<1>4. /\ o[1] = e => Kind(o) = "remove"
      /\ o[1] = f => Kind(o) = "delete" /\ o[2].uid = u
      /\ ops[o].pc # "uuid"
  BY <1>1, <1>2, <1>3 DEF RemovesAt, Kind, RemovalSound
<1>5. /\ Others(o) /\ Working({e, f})'
      /\ \A x : (Due(e, x)' => Due(e, x)) /\ (Due(f, x)' => Due(f, x))
      /\ \A x : Due(e, x) => Due(e, x)' \/ (<<e, x>> = o /\ o \notin DOMAIN ops')
      /\ \A x : Due(f, x) => Due(f, x)' \/ (<<f, x>> = o /\ o \notin DOMAIN ops')
  <2>1. Kind(o) \notin {"attributes", "groups"}
    BY <1>3, <1>4
  <2> QED
    BY <1>2, <1>4, <2>1, TwoStepWorks
<1>6. SameRows /\ db'[u[1]].gone /\ db'[u[1]].kontexte = {}
  BY <1>2, StepRows DEF SameRows, SameRow
\* What the step does to the directory.
<1>7. /\ \A v : v # u => SameEntry(v)
      /\ \A s \in Schools : groups'[s] \cup {u} = groups[s] \cup {u}
      /\ \A s \in Schools : u \in groups'[s] => u \in groups[s]
      /\ \A s \in Schools : o[1] = e /\ RemovesAt(u, s, o[2]) /\ o \notin DOMAIN ops' => u \notin groups'[s]
      /\ u \in DOMAIN entries' => u \in DOMAIN entries
      /\ o[1] = f /\ o \notin DOMAIN ops' => u \notin DOMAIN entries'
      /\ o \in DOMAIN ops' =>
             IF o[1] = e THEN RemovalSound(u, o)' ELSE ops'[o].pc \in {"lookup", "delete"}
  <2>1. CASE o[1] = e
    <3>1. PICK t \in Schools : RemovesAt(u, t, o[2])
      BY <1>3, <2>1
    <3>2. /\ UNCHANGED entries
          /\ \A s \in Schools : groups'[s] \cup {u} = groups[s] \cup {u}
          /\ \A s \in Schools : s # t => groups'[s] = groups[s]
          /\ u \in groups'[t] => u \in groups[t]
          /\ o \notin DOMAIN ops' => u \notin groups'[t]
          /\ o \in DOMAIN ops' => RemovalSound(u, o)'
      BY <1>2, <2>1, <3>1, RemoveWork
    <3>3. \A v : SameEntry(v)
      BY <3>2 DEF SameEntry
    <3>4. \A s : RemovesAt(u, s, o[2]) => s = t
      BY <3>1 DEF RemovesAt
    <3> QED
      BY <1>2, <2>1, <3>2, <3>3, <3>4
  <2>2. CASE o[1] = f
    <3>1. /\ UNCHANGED groups
          /\ \A v : v # u => SameEntry(v)
          /\ u \in DOMAIN entries' => u \in DOMAIN entries /\ o \in DOMAIN ops'
          /\ o \in DOMAIN ops' => ops'[o].pc \in {"lookup", "delete"}
      BY <1>2, <1>4, <2>2, DeleteWork
    <3> QED
      BY <1>2, <2>2, <3>1
  <2> QED
    BY <1>3, <2>1, <2>2
<1>8. Besides(u)'
  <2> SUFFICES ASSUME NEW v, v # u PROVE Good(v)'
    BY DEF Besides
  <2>1. SameEntry(v) /\ SameGroups(v) /\ Good(v)
    BY <1>2, <1>7 DEF SameGroups, Besides
  <2> QED
    BY <1>6, <2>1, GoodSame DEF SameRows
<1>9. ASSUME NEW x \in DOMAIN ops'
      PROVE  IF x[1] = e THEN RemovalSound(u, x)' ELSE ops'[x].pc \in {"lookup", "delete"}
  <2>1. CASE x = o
    BY <1>7, <2>1
  <2>2. CASE x # o
    <3>1. x \in DOMAIN ops /\ ops'[x] = ops[x]
      BY <1>5, <2>2 DEF Others
    <3>2. CASE x[1] = e
      <4>1. PICK s \in Schools : RemovesAt(u, s, x[2])
        BY <1>3, <3>1, <3>2
      <4>2. RemovalSound(u, x) /\ groups'[s] \cup {u} = groups[s] \cup {u} /\ x[2].school = s
        BY <1>2, <1>7, <3>1, <3>2, <4>1 DEF RemovesAt
      <4> QED
        BY <3>1, <3>2, <4>2 DEF RemovalSound
    <3>3. CASE x[1] # e
      BY <1>2, <3>1, <3>3
    <3> QED
      BY <3>2, <3>3
  <2> QED
    BY <2>1, <2>2
<1>10. ASSUME NEW s \in Schools, u \in groups'[s] PROVE \E x : Due(e, x)' /\ RemovesAt(u, s, x)
  <2>1. PICK x : Due(e, x) /\ RemovesAt(u, s, x)
    BY <1>2, <1>7, <1>10
  <2>2. ASSUME <<e, x>> = o, o \notin DOMAIN ops' PROVE FALSE
    BY <1>7, <1>10, <2>1, <2>2
  <2> QED
    BY <1>5, <2>1, <2>2
<1>11. u \in DOMAIN entries' => Due(f, r)'
  BY <1>2, <1>5, <1>7
<1> QED
  BY <1>1, <1>2, <1>5, <1>6, <1>8, <1>9, <1>10, <1>11 DEF Deleting, RemovesAt

-----------------------------------------------------------------------------
(* Steps that rename.                                                       *)

LEMMA BeforeStays ==
    ASSUME NEW old, NEW u, BeforeRename(old, u), SameRow(u[1]), UNCHANGED <<entries, groups>>
    PROVE  BeforeRename(old, u)'
BY TeachesSame DEF BeforeRename, SameRow

\* The old username of the person is nobody's.
LEMMA OldIsDead ==
    ASSUME NEW old, NEW u, Live(u), old = <<u[1], old[2]>>, old # u PROVE ~Live(old)
<1>1. PICK a, b : a = u[1] /\ b = old[2]
  OBVIOUS
<1>2. old = <<a, b>>
  BY <1>1
<1>3. old[1] = u[1]
  BY <1>1, <1>2
<1> QED
  BY <1>3 DEF Live

LEMMA DeadIsGood ==
    ASSUME NEW v, ~Live(v), v \notin DOMAIN entries, \A s \in Schools : v \notin groups[s]
    PROVE  Good(v)
BY DEF Good, EntryGood, GroupsGood

LEMMA RenameLookup ==
    ASSUME MutexInv, FormInv, NEW o, Only(o), NEW old, NEW u, Live(u), ~Live(old),
           Kind(o) = "modify", o[2].uid = old,
           ops[o].pc = "lookup", BeforeRename(old, u), Step(o), ~CallFails
    PROVE  UNCHANGED <<entries, groups>> /\ RenameOn(o, old, u)'
<1>1. Lookup(o) /\ o \in DOMAIN ops /\ DOMAIN ops = {o}
  BY StepAt DEF Only
<1>2. UNCHANGED <<db, entries, groups>>
  BY <1>1 DEF Lookup
<1>3. BeforeRename(old, u)'
  <2>1. SameRow(u[1])
    BY <1>2 DEF SameRow
  <2> QED
    BY <1>2, <2>1, BeforeStays
<1>4. CASE old \in DOMAIN entries
  <2>1. Goto(o, "modify")
    BY <1>1, <1>4 DEF Lookup, LookupMissing, LookupFound
  <2>2. Only(o)' /\ ops'[o].pc = "modify"
    BY <1>1, <2>1, GotoDoes DEF Only
  <2> QED
    BY <1>2, <1>3, <2>2 DEF RenameOn, RenameAt
<1>5. CASE old \notin DOMAIN entries
  <2>1. Fail(o)
    BY <1>1, <1>5 DEF Lookup, LookupMissing, LookupFound
  <2>2. Inner(o) = "" /\ First(o) = "lookup"
    BY DEF Inner, First
  <2>3. DOMAIN ops' \in {{}, {o}}
    BY <1>1, <2>1, FailOthers DEF Others
  <2>4. o \in DOMAIN ops' => ops'[o].pc = "lookup"
    BY <1>1, <2>1, <2>2, FailsWhole, BegunFirst
  <2>5. CASE o \in DOMAIN ops'
    BY <1>2, <1>3, <2>3, <2>4, <2>5 DEF RenameOn, RenameAt, Only
  <2>6. CASE o \notin DOMAIN ops'
    <3>1. \A s \in Schools : old \notin groups[s] /\ u \notin groups[s] /\ ~Teaches(u[1], s)
      BY <1>5 DEF BeforeRename
    <3>2. Good(old)
      BY <1>5, <3>1, DeadIsGood
    <3>3. Good(u)
      BY <3>1 DEF Good, EntryGood, GroupsGood, BeforeRename
    <3>4. Good(old)' /\ Good(u)'
      BY <1>2, <3>2, <3>3, NothingChanges
    <3> QED
      BY <1>2, <2>3, <2>6, <3>4 DEF RenameOn, NoOps
  <2> QED
    BY <2>5, <2>6
<1> QED
  BY <1>4, <1>5

LEMMA RenameNames ==
    ASSUME MutexInv, FormInv, NEW o, Only(o), NEW old, NEW u, Live(u), old # u,
           Kind(o) = "modify", o[2].uid = old, o[2].new = u[2], old[2] # u[2],
           ops[o].pc = "modify", BeforeRename(old, u), Step(o), ~CallFails
    PROVE  UNCHANGED groups /\ (\A v : v # old => SameEntry(v)) /\ RenameOn(o, old, u)'
<1>1. ModifyNames(o) /\ o \in DOMAIN ops /\ DOMAIN ops = {o} /\ SameRow(u[1])
  BY StepAt, StepRows DEF Only, SameRows, Live
<1>2. old \in DOMAIN entries /\ DOMAIN entries[old] = EntryFields
  BY <1>1, HasMutex DEF Waiting, NeedsEntry, Found, FormInv, EntriesFormed
<1> DEFINE x == [entries[old] EXCEPT !.naming = u[2]]
<1>3. SetEntry(old, x) /\ Answered(o, "rename") /\ UNCHANGED groups
  BY <1>1 DEF ModifyNames
<1>4. x.naming = u[2] /\ x.mail = entries[old].mail
  BY <1>2 DEF EntryFields
<1> HIDE DEF x
<1>5. old \in DOMAIN entries' /\ entries'[old] = x /\ \A v : v # old => SameEntry(v)
  BY <1>3, SetEntryDoes
<1>6. Only(o)' /\ ops'[o].pc = "rename"
  BY <1>1, <1>3, AnswerComes, GotoDoes DEF Only
<1>7. BeforeRename(old, u)'
  <2>1. entries'[old].mail \in {"", db'[u[1]].mail}
    BY <1>1, <1>2, <1>4, <1>5 DEF BeforeRename, SameRow
  <2>2. u \notin DOMAIN entries'
    BY <1>5 DEF BeforeRename, SameEntry
  <2>3. \A s : Teaches(u[1], s)' <=> Teaches(u[1], s)
    BY <1>1, TeachesSame
  <2> QED
    BY <1>3, <1>5, <2>1, <2>2, <2>3 DEF BeforeRename
<1> QED
  BY <1>3, <1>4, <1>5, <1>6, <1>7 DEF RenameOn, RenameAt

LEMMA RenameMoves ==
    ASSUME MutexInv, FormInv, NEW o, Only(o), NEW old, NEW u, Live(u), old # u,
           o[2].uid = old, NewUid(o) = u,
           ops[o].pc = "rename", BeforeRename(old, u), entries[old].naming = u[2],
           Step(o), ~CallFails
    PROVE  UNCHANGED groups /\ (\A v : v \notin {old, u} => SameEntry(v)) /\ RenameOn(o, old, u)'
<1>1. ModifyDn(o) /\ o \in DOMAIN ops /\ DOMAIN ops = {o} /\ SameRow(u[1])
  BY StepAt, StepRows DEF Only, SameRows, Live
<1>2. old \in DOMAIN entries /\ u \notin DOMAIN entries
  BY <1>1, HasMutex DEF Waiting, NeedsEntry, Found, BeforeRename
<1>3. /\ entries' = [v \in (DOMAIN entries \ {old}) \cup {u} |-> entries[IF v = u THEN old ELSE v]]
      /\ Answered(o, "members") /\ UNCHANGED groups
  BY <1>1, <1>2 DEF ModifyDn
<1>4. /\ old \notin DOMAIN entries' /\ u \in DOMAIN entries' /\ entries'[u] = entries[old]
      /\ \A v : v \notin {old, u} => SameEntry(v)
  BY <1>2, <1>3 DEF SameEntry
<1>5. Only(o)' /\ ops'[o].pc = "members"
  BY <1>1, <1>3, AnswerComes, GotoDoes DEF Only
<1>6. EntryRenamed(old, u)'
  <2>1. entries'[u].naming = db'[u[1]].name
    BY <1>1, <1>4, LiveName DEF SameRow
  <2>2. entries'[u].mail \in {"", db'[u[1]].mail}
    BY <1>1, <1>2, <1>4 DEF BeforeRename, SameRow
  <2> QED
    BY <1>4, <2>1, <2>2 DEF EntryRenamed, EntryGood, MailGood
<1>7. \A s \in Schools : (old \in groups'[s] <=> Teaches(u[1], s)') /\ u \notin groups'[s]
  BY <1>1, <1>3, TeachesSame DEF BeforeRename
<1> QED
  BY <1>3, <1>4, <1>5, <1>6, <1>7 DEF RenameOn, RenameAt

\* What updateMemberDnInGroups() still has to do.
LEMMA RenameReplaces ==
    ASSUME MutexInv, NEW o \in DOMAIN ops, Only(o), NEW old, NEW u, Live(u)', ~Live(old)',
           EntryRenamed(old, u)',
           NEW seen, NEW pc, pc = IF seen = NoCopies THEN "end" ELSE "replace",
           Continue(o, [ops[o] EXCEPT !.seen = seen, !.pc = pc]), DOMAIN seen = Schools,
           \A s \in Schools :
               IF seen[s] # {}
               THEN /\ seen[s] = groups'[s] /\ u \notin groups'[s]
                    /\ old \in groups'[s] /\ Teaches(u[1], s)'
               ELSE old \notin groups'[s] /\ (u \in groups'[s] <=> Teaches(u[1], s)')
    PROVE  RenameOn(o, old, u)'
<1> DEFINE to == [ops[o] EXCEPT !.seen = seen, !.pc = pc]
<1>1. to.pc = pc /\ to.seen = seen
  BY DEF MutexInv, Sound, Formed
<1> HIDE DEF to
<1>2. CASE pc = "end"
  <2>1. ops' = Without(o)
    BY <1>1, <1>2 DEF Continue, to
  <2>2. NoOps'
    BY <2>1 DEF Without, NoOps, Only
  <2>3. \A s \in Schools : old \notin groups'[s] /\ (u \in groups'[s] <=> Teaches(u[1], s)')
    BY <1>2 DEF NoCopies
  <2>4. Good(u)'
    BY <2>3 DEF Good, GroupsGood, EntryRenamed
  <2>5. Good(old)'
    BY <2>3 DEF Good, EntryGood, GroupsGood, EntryRenamed
  <2> QED
    BY <2>2, <2>4, <2>5 DEF RenameOn
<1>3. CASE pc = "replace"
  <2>1. ops' = [ops EXCEPT ![o] = to]
    BY <1>1, <1>3 DEF Continue, to
  <2>2. Only(o)' /\ ops'[o].pc = "replace" /\ ops'[o].seen = seen
    BY <1>1, <1>3, <2>1 DEF Only
  <2> QED
    BY <2>2 DEF RenameOn, RenameAt
<1> QED
  BY <1>2, <1>3

LEMMA RenameMembers ==
    ASSUME MutexInv, FormInv, NEW o, Only(o), NEW old, NEW u, Live(u), ~Live(old),
           Kind(o) = "modify", o[2].uid = old, NewUid(o) = u, old # u,
           ops[o].pc \in {"members", "replace"}, RenameAt(old, u, ops[o]),
           Step(o), ~CallFails
    PROVE  /\ UNCHANGED entries
           /\ \A v : v \notin {old, u} => SameGroups(v)
           /\ RenameOn(o, old, u)'
<1>1. /\ o \in DOMAIN ops /\ DOMAIN ops = {o} /\ SameRows /\ u[1] \in Persons
      /\ \A s : Teaches(u[1], s)' <=> Teaches(u[1], s)
  BY StepRows, TeachesSame DEF Only, SameRows, Live
<1>2. Live(u)' /\ ~Live(old)' /\ EntryRenamed(old, u)
  BY <1>1, LiveSame DEF SameRows, RenameAt
<1>3. ASSUME UNCHANGED entries PROVE EntryRenamed(old, u)'
  BY <1>1, <1>2, <1>3, EntrySame DEF EntryRenamed, SameEntry, SameRows
<1>4. CASE ops[o].pc = "members"
  <2> DEFINE copies == [s \in Schools |-> IF s \in Members(old) THEN groups[s] ELSE {}]
             pc == IF copies = NoCopies THEN "end" ELSE "replace"
  <2>1. CopyMembers(o)
    BY <1>4, StepAt DEF GroupsFound
  <2>2. Continue(o, [ops[o] EXCEPT !.seen = copies, !.pc = pc]) /\ UNCHANGED <<entries, groups>>
    BY <2>1 DEF CopyMembers
  <2>3. \A s \in Schools : /\ old \in groups[s] <=> Teaches(u[1], s)
                           /\ u \notin groups[s]
    BY <1>4 DEF RenameAt
  <2>4. \A s \in Schools : IF old \in groups[s] THEN copies[s] = groups[s] ELSE copies[s] = {}
    BY DEF Members
  <2>5. DOMAIN copies = Schools /\ pc = IF copies = NoCopies THEN "end" ELSE "replace"
    OBVIOUS
  <2> HIDE DEF copies, pc
  <2>6. \A s \in Schools :
            IF copies[s] # {}
            THEN /\ copies[s] = groups'[s] /\ u \notin groups'[s]
                 /\ old \in groups'[s] /\ Teaches(u[1], s)'
            ELSE old \notin groups'[s] /\ (u \in groups'[s] <=> Teaches(u[1], s)')
    BY <1>1, <2>2, <2>3, <2>4
  <2>7. RenameOn(o, old, u)'
    BY <1>1, <1>2, <1>3, <2>2, <2>5, <2>6, RenameReplaces
  <2> QED
    BY <2>2, <2>7 DEF SameGroups
<1>5. CASE ops[o].pc = "replace"
  <2>1. PICK t \in Schools : Replace(o, t)
    BY <1>5, StepAt
  <2> DEFINE left == [ops[o].seen EXCEPT ![t] = {}]
             pc == IF left = NoCopies THEN "end" ELSE "replace"
  <2>2. /\ Continue(o, [ops[o] EXCEPT !.seen = left, !.pc = pc]) /\ UNCHANGED entries
        /\ ops[o].seen[t] # {}
    BY <2>1 DEF Replace
  <2>3. \A s \in Schools :
            IF ops[o].seen[s] # {}
            THEN /\ ops[o].seen[s] = groups[s] /\ u \notin groups[s]
                 /\ old \in groups[s] /\ Teaches(u[1], s)
            ELSE old \notin groups[s] /\ (u \in groups[s] <=> Teaches(u[1], s))
    BY <1>5 DEF RenameAt
  <2>4. groups' = [groups EXCEPT ![t] = (groups[t] \ {old}) \cup {u}]
    BY <2>1, <2>2, <2>3 DEF Replace
  <2>5. DOMAIN groups = Schools /\ DOMAIN ops[o].seen = Schools
    BY <1>1 DEF FormInv, GroupsFormed, MutexInv, Sound, Formed
  <2>6. /\ groups'[t] = (groups[t] \ {old}) \cup {u}
        /\ \A s \in Schools : s # t => groups'[s] = groups[s]
        /\ left[t] = {} /\ \A s \in Schools : s # t => left[s] = ops[o].seen[s]
    BY <2>4, <2>5
  <2>7. DOMAIN left = Schools /\ pc = IF left = NoCopies THEN "end" ELSE "replace"
    BY <2>5
  <2> HIDE DEF left, pc
  <2>8. ASSUME NEW s \in Schools
        PROVE  IF left[s] # {}
               THEN /\ left[s] = groups'[s] /\ u \notin groups'[s]
                    /\ old \in groups'[s] /\ Teaches(u[1], s)'
               ELSE old \notin groups'[s] /\ (u \in groups'[s] <=> Teaches(u[1], s)')
    <3>1. CASE s = t
      BY <1>1, <2>2, <2>3, <2>6, <3>1
    <3>2. CASE s # t
      BY <1>1, <2>3, <2>6, <3>2
    <3> QED
      BY <3>1, <3>2
  <2>9. RenameOn(o, old, u)'
    BY <1>1, <1>2, <1>3, <2>2, <2>7, <2>8, RenameReplaces
  <2>10. \A v : v \notin {old, u} => SameGroups(v)
    BY <2>6 DEF SameGroups
  <2> QED
    BY <2>2, <2>9, <2>10
<1> QED
  BY <1>4, <1>5

LEMMA RenameAsks ==
    ASSUME NEW e, NEW old, NEW u, NEW r, r = AskRename(old, u), NEW o, o = <<e, r>>,
           Live(u), old = <<u[1], old[2]>>, old # u
    PROVE  /\ Kind(o) = "modify" /\ o[2].uid = old /\ o[2].new = u[2] /\ NewUid(o) = u
           /\ old[2] # u[2]
<1>1. r.kind = "modify" /\ r.uid = old /\ r.new = u[2]
  BY DEF AskRename, Request
<1>2. o[2] = r
  OBVIOUS
<1>3. u = <<u[1], u[2]>>
  BY LiveName DEF Live, Uid
<1>4. old[1] = u[1]
  <2>1. PICK a, b : a = u[1] /\ b = old[2]
    OBVIOUS
  <2>2. old = <<a, b>>
    BY <2>1
  <2> QED
    BY <2>1, <2>2
<1>5. NewUid(o) = u
  BY <1>1, <1>2, <1>3, <1>4 DEF NewUid
<1>6. old[2] # u[2]
  BY <1>3
<1> QED
  BY <1>1, <1>2, <1>5, <1>6 DEF Kind

LEMMA RenamingStep ==
    ASSUME MutexInv, FormInv, NEW e, NEW old, NEW u, Renaming(e, old, u),
           NEW o \in DOMAIN ops, Step(o), ~CallFails
    PROVE  Renaming(e, old, u)'
<1>1. PICK r : r = AskRename(old, u)
  OBVIOUS
<1>2. /\ Working({e}) /\ Live(u) /\ old = <<u[1], old[2]>> /\ old # u
      /\ \A v : v \notin {old, u} => Good(v)
      /\ \/ events[e].plan = <<{r}>> /\ NoOps /\ BeforeRename(old, u)
         \/ events[e].plan = <<>> /\ RenameOn(<<e, r>>, old, u)
  BY <1>1 DEF Renaming
<1>3. /\ events[e].plan = <<>> /\ Only(o) /\ o = <<e, r>> /\ RenameAt(old, u, ops[o])
  BY <1>2 DEF NoOps, RenameOn, Only
<1>4. /\ Kind(o) = "modify" /\ o[2].uid = old /\ o[2].new = u[2] /\ NewUid(o) = u
      /\ old[2] # u[2]
  BY <1>1, <1>2, <1>3, RenameAsks
<1>5. ops[o].pc \in {"lookup", "modify", "rename", "members", "replace"}
  BY <1>3 DEF RenameAt
<1>6. /\ Working({e})' /\ events'[e].plan = <<>>
  <2>1. Kind(o) \notin {"attributes", "groups"} /\ ops[o].pc # "uuid"
    BY <1>4, <1>5
  <2>2. e \in DOMAIN events
    BY <1>2 DEF Working
  <2>3. events'[e].plan = events[e].plan
    BY <2>1, <2>2, PlansStay
  <2>4. Working({e})'
    BY <1>2, <2>1, OneStepWorks
  <2> QED
    BY <1>3, <2>3, <2>4
<1>7. SameRows /\ u[1] \in Persons /\ Live(u)' /\ ~Live(old)
  BY <1>2, StepRows, LiveSame, OldIsDead DEF SameRows, Live
<1>8. /\ \A v : v \notin {old, u} => SameEntry(v) /\ SameGroups(v)
      /\ RenameOn(o, old, u)'
  <2>1. ASSUME UNCHANGED groups PROVE \A v : SameGroups(v)
    BY <2>1 DEF SameGroups
  <2>2. ASSUME UNCHANGED entries PROVE \A v : SameEntry(v)
    BY <2>2 DEF SameEntry
  <2>3. CASE ops[o].pc = "lookup"
    <3>1. BeforeRename(old, u)
      BY <1>3, <2>3 DEF RenameAt
    <3>2. UNCHANGED <<entries, groups>> /\ RenameOn(o, old, u)'
      BY <1>2, <1>3, <1>4, <1>7, <2>3, <3>1, RenameLookup
    <3> QED
      BY <2>1, <2>2, <3>2
  <2>4. CASE ops[o].pc = "modify"
    <3>1. BeforeRename(old, u)
      BY <1>3, <2>4 DEF RenameAt
    <3>2. UNCHANGED groups /\ (\A v : v # old => SameEntry(v)) /\ RenameOn(o, old, u)'
      BY <1>2, <1>3, <1>4, <2>4, <3>1, RenameNames
    <3> QED
      BY <2>1, <3>2
  <2>5. CASE ops[o].pc = "rename"
    <3>1. BeforeRename(old, u) /\ entries[old].naming = u[2]
      BY <1>3, <2>5 DEF RenameAt
    <3>2. UNCHANGED groups /\ (\A v : v \notin {old, u} => SameEntry(v)) /\ RenameOn(o, old, u)'
      BY <1>2, <1>3, <1>4, <2>5, <3>1, RenameMoves
    <3> QED
      BY <2>1, <3>2
  <2>6. CASE ops[o].pc \in {"members", "replace"}
    <3>1. /\ UNCHANGED entries
          /\ \A v : v \notin {old, u} => SameGroups(v)
          /\ RenameOn(o, old, u)'
      BY <1>2, <1>3, <1>4, <1>7, <2>6, RenameMembers
    <3> QED
      BY <2>2, <3>1
  <2> QED
    BY <1>5, <2>3, <2>4, <2>5, <2>6
<1>9. ASSUME NEW v, v \notin {old, u} PROVE Good(v)'
  BY <1>2, <1>7, <1>8, <1>9, GoodSame DEF SameRows
<1> QED
  BY <1>1, <1>2, <1>3, <1>6, <1>7, <1>8, <1>9 DEF Renaming

LEMMA RenameOnSame ==
    ASSUME UNCHANGED <<db, entries, groups, ops>>, NEW o, NEW old, NEW u, RenameOn(o, old, u)
    PROVE  RenameOn(o, old, u)'
<1>1. /\ Good(old)' <=> Good(old)
      /\ Good(u)' <=> Good(u)
      /\ EntryGood(u)' <=> EntryGood(u)
      /\ \A s : Teaches(u[1], s)' <=> Teaches(u[1], s)
  BY NothingChanges
<1>2. BeforeRename(old, u)' <=> BeforeRename(old, u)
  BY <1>1 DEF BeforeRename
<1>3. EntryRenamed(old, u)' <=> EntryRenamed(old, u)
  BY <1>1 DEF EntryRenamed
<1>4. (NoOps' <=> NoOps) /\ (Only(o)' <=> Only(o))
  BY DEF NoOps, Only
<1>5. RenameAt(old, u, ops[o])' <=> RenameAt(old, u, ops[o])
  BY <1>1, <1>2, <1>3 DEF RenameAt
<1> QED
  BY <1>1, <1>4, <1>5 DEF RenameOn

LEMMA RenamingHandled ==
    ASSUME FormInv, NEW e, NEW old, NEW u, Renaming(e, old, u),
           NEW d \in DOMAIN events, Handles(d)
    PROVE  Renaming(e, old, u)'
<1>1. PICK r, o : r = AskRename(old, u) /\ o = <<e, r>>
  OBVIOUS
<1>2. /\ Working({e}) /\ Live(u) /\ old = <<u[1], old[2]>> /\ old # u
      /\ \A v : v \notin {old, u} => Good(v)
      /\ \/ events[e].plan = <<{r}>> /\ NoOps /\ BeforeRename(old, u)
         \/ events[e].plan = <<>> /\ RenameOn(o, old, u)
  BY <1>1 DEF Renaming
<1>3. UNCHANGED <<db, entries, groups>>
  BY DEF Handles, Advance, Return
<1>4. Working({e})'
  BY <1>2, OneWorks
<1>5. /\ Live(u)' /\ \A v : v \notin {old, u} => Good(v)'
      /\ \A s : Teaches(u[1], s)' <=> Teaches(u[1], s)
  BY <1>2, <1>3, NothingChanges
<1>6. BeforeRename(old, u) => BeforeRename(old, u)'
  BY <1>3, <1>5 DEF BeforeRename
<1>7. \/ events'[e].plan = <<{r}>> /\ NoOps' /\ BeforeRename(old, u)'
      \/ events'[e].plan = <<>> /\ RenameOn(o, old, u)'
  <2>1. CASE Return(d)
    <3>1. UNCHANGED ops
      BY <2>1 DEF Return
    <3>2. events'[e].plan = events[e].plan
      <4>1. /\ events'[d].plan = <<>> /\ events[d].plan = <<>>
            /\ \A x \in DOMAIN events : x # d => events'[x] = events[x]
        BY <2>1, ReturnDoes, OverFields DEF FormInv, Return
      <4>2. e \in DOMAIN events
        BY <1>2 DEF Working
      <4> QED
        BY <4>1, <4>2
    <3>3. RenameOn(o, old, u) => RenameOn(o, old, u)'
      BY <1>3, <3>1, RenameOnSame
    <3>4. NoOps' <=> NoOps
      BY <3>1 DEF NoOps
    <3> QED
      BY <1>2, <1>6, <3>2, <3>3, <3>4
  <2>2. CASE Advance(d)
    <3>1. d = e /\ events[e].plan = <<{r}>> /\ NoOps /\ BeforeRename(old, u)
      BY <1>2, <2>2 DEF Advance, Working
    <3>2. Head(events[e].plan) = {r} /\ Tail(events[e].plan) = <<>>
      BY <3>1, Tuples
    <3>3. Only(o)' /\ ops'[o] = Begun(o, 1)
      BY <1>1, <2>2, <3>1, <3>2, OneBegins
    <3>4. Kind(o) = "modify"
      BY <1>1, <1>2, RenameAsks
    <3>5. ops'[o].pc = "lookup"
      BY <3>3, <3>4, BegunAt
    <3>6. events'[e].plan = <<>>
      BY <2>2, <3>1, <3>2, AdvanceDoes DEF FormInv
    <3> QED
      BY <1>6, <3>1, <3>3, <3>5, <3>6 DEF RenameOn, RenameAt
  <2> QED
    BY <2>1, <2>2 DEF Handles
<1> QED
  BY <1>1, <1>2, <1>4, <1>5, <1>7 DEF Renaming

-----------------------------------------------------------------------------
(* Steps of a synchronisation of a person who was right before.             *)

\* A synchronisation that is under way is not about to begin.
LEMMA LaterPlan ==
    ASSUME NEW e, NEW u, NEW m, NEW W, Later(e, u, m, W)'
    PROVE  events'[e].plan # <<{AskAttributes(u)}>>
<1>1. \A a, b, c, d : /\ <<a>> # <<>> /\ <<a>> # <<b, c>> /\ <<a>> # <<b, c, d>>
                      /\ <<a>> = <<b>> => a = b
  OBVIOUS
<1>2. \A a, b, c, d, f : <<a>> # <<b, c, d, f>>
  OBVIOUS
<1>3. Asks(e, u)' \/ AsksGroups(e, u)' \/ Listing(e, u, m, W)' => events'[e].plan = <<>>
  BY DEF Asks, AsksGroups, Listing, Plan
<1>4. RestPlanned(e, u, W)' => events'[e].plan # <<{AskAttributes(u)}>>
  BY <1>1 DEF RestPlanned, Rest, KeepRest, Plan
<1>5. Mailing(e, u, m, W)' \/ HasMailed(e, u, m, W)' \/ Keeping(e, u, m, W)' => RestPlanned(e, u, W)'
  BY DEF Mailing, HasMailed, Keeping, RestPlanned
<1>6. WillMail(e, u, m, W)' => events'[e].plan # <<{AskAttributes(u)}>>
  BY <1>1, <1>2 DEF WillMail, Plan
<1>7. HasAsked(e, u)' => events'[e].plan # <<{AskAttributes(u)}>>
  <2>1. AskGroups(u).kind = "groups" /\ AskAttributes(u).kind = "attributes"
    BY DEF AskGroups, AskAttributes, Request
  <2>2. {AskGroups(u)} # {AskAttributes(u)}
    BY <2>1
  <2> QED
    BY <1>1, <2>2 DEF HasAsked, Plan
<1>8. AskLists(u, W)' # {AskAttributes(u)}
  <2>1. AskAttributes(u).kind = "attributes"
    BY DEF AskAttributes, Request
  <2>2. \A r \in AskLists(u, W)' : r.kind \in {"add", "remove"}
    BY DEF AskLists, Lists, Request
  <2> QED
    BY <2>1, <2>2
<1>9. Naming(e, u, m, W)' \/ HasNamed(e, u, m, W)' => events'[e].plan = <<AskLists(u, W)'>>
  BY DEF Naming, HasNamed, Plan
<1> QED
  BY <1>1, <1>3, <1>4, <1>5, <1>6, <1>7, <1>8, <1>9 DEF Later

LEMMA SyncedSame ==
    ASSUME NEW o, Step(o), ~CallFails, GroupsFound(o) => ~SyncAborts(events[o[1]])
    PROVE  synced' = synced
<1>1. CASE Search(o) \/ Lookup(o) \/ ReadUuid(o) \/ CopyMembers(o) \/ GroupsFound(o) \/ Store(o)
  BY <1>1 DEF Search, Lookup, ReadUuid, CopyMembers, GroupsFound, Store, luck
<1>2. \A pc : Answered(o, pc) => synced' = synced
  BY DEF Answered, luck
<1>3. Refused(o) => synced' = synced
  BY DEF Refused, luck
<1>4. CASE AddMember(o) \/ RemoveMember(o) \/ Insert(o) \/ ModifyNames(o) \/ ModifyDn(o)
           \/ Delete(o) \/ Primary(o) \/ Alternative(o)
  BY <1>2, <1>3, <1>4 DEF AddMember, RemoveMember, Insert, ModifyNames, ModifyDn, Delete, Primary,
                          Alternative
<1>5. CASE \E s \in Schools : Replace(o, s)
  BY <1>5 DEF Replace, luck
<1> QED
  BY <1>1, <1>4, <1>5 DEF Step, CallLost

\* The address that a handler knows is the one it has looked up.
LEMMA EventMails ==
    ASSUME FormInv, NEW o, Step(o), ~CallFails,
           Kind(o) = "attributes" /\ ops[o].pc = "lookup" => o[2].uid \notin DOMAIN entries
    PROVE  \A d \in DOMAIN events : events'[d].mail = events[d].mail
<1> DEFINE e == o[1]
<1>1. e \in DOMAIN events => DOMAIN events[e] = EventFields
  BY EventIsFormed DEF FormInv
<1>2. CASE Lookup(o)
  BY <1>2 DEF Lookup, LookupMissing, LookupFound
<1>3. CASE ReadUuid(o)
  <2> DEFINE plan == IF Kind(o) = "create" THEN events[e].plan ELSE <<{Request("groups", o[2].uid)}>>
             x == [events[e] EXCEPT !.uuid = TRUE, !.plan = plan]
  <2>1. events' = [events EXCEPT ![e] = x]
    BY <1>3 DEF ReadUuid
  <2>2. e \in DOMAIN events => DOMAIN x = EventFields /\ x.mail = events[e].mail
    BY <1>1 DEF EventFields
  <2> HIDE DEF x
  <2> QED
    BY <2>1, <2>2, EventForms DEF FormInv
<1>4. CASE GroupsFound(o)
  <2> DEFINE plan == IF SyncAborts(events[e]) THEN <<>>
                     ELSE SyncPlan(e, o[2].uid, Members(o[2].uid))
             x == [events[e] EXCEPT !.plan = plan]
  <2>1. events' = [events EXCEPT ![e] = x]
    BY <1>4 DEF GroupsFound
  <2>2. e \in DOMAIN events => DOMAIN x = EventFields /\ x.mail = events[e].mail
    BY <1>1 DEF EventFields
  <2> HIDE DEF x
  <2> QED
    BY <2>1, <2>2, EventForms DEF FormInv
<1> QED
  BY <1>2, <1>3, <1>4, StepWrites DEF WritesEvents

\* What a step comes to while no group is to be changed.
SyncKeeps(o, u) ==
    /\ DOMAIN ops = {o} /\ o[2].uid = u
    /\ \A s \in Schools : groups'[s] = groups[s]
    /\ \A v : v # u => SameEntry(v)
    /\ u \in DOMAIN entries => u \in DOMAIN entries'
    /\ Kind(o) = "attributes" /\ o \in DOMAIN ops' => ops'[o].pc # "lookup"

LEMMA AsksKeeps ==
    ASSUME MutexInv, NEW e, NEW u, Asks(e, u), NEW o \in DOMAIN ops, Step(o), ~CallFails
    PROVE  SyncKeeps(o, u)
<1>1. /\ o = <<e, AskAttributes(u)>> /\ DOMAIN ops = {o}
      /\ ops[o].pc \in {"lookup", "insert", "uuid"}
  BY DEF Asks, Only
<1>2. Kind(o) = "attributes" /\ o[2].uid = u
  BY <1>1 DEF Kind, AskAttributes, Request
<1>3. CASE ops[o].pc = "lookup"
  <2>1. Lookup(o)
    BY <1>3, StepAt
  <2>2. UNCHANGED <<entries, groups>> /\ (Goto(o, "insert") \/ Goto(o, "end"))
    BY <1>2, <2>1 DEF Lookup, LookupMissing, LookupFound
  <2>3. o \in DOMAIN ops' => ops'[o].pc # "lookup"
    <3>1. CASE Goto(o, "insert")
      BY <3>1, GotoDoes
    <3>2. CASE Goto(o, "end")
      BY <3>2, GotoEnds
    <3> QED
      BY <2>2, <3>1, <3>2
  <2> QED
    BY <1>1, <1>2, <2>2, <2>3 DEF SyncKeeps, SameEntry
<1>4. CASE ops[o].pc = "insert"
  <2>1. Insert(o)
    BY <1>4, StepAt
  <2>2. PICK x : SetEntry(u, x) /\ Goto(o, "uuid") /\ UNCHANGED groups
    BY <1>2, <2>1, AnswerComes DEF Insert
  <2>3. ops'[o].pc = "uuid"
    BY <2>2, GotoDoes
  <2> QED
    BY <1>1, <1>2, <2>2, <2>3, SetEntryDoes DEF SyncKeeps
<1>5. CASE ops[o].pc = "uuid"
  <2>1. Goto(o, "store") /\ UNCHANGED <<entries, groups>>
    BY <1>5, StepAt DEF ReadUuid
  <2>2. ops'[o].pc = "store"
    BY <2>1, GotoDoes
  <2> QED
    BY <1>1, <1>2, <2>1, <2>2 DEF SyncKeeps, SameEntry
<1> QED
  BY <1>1, <1>3, <1>4, <1>5

LEMMA StageKeeps ==
    ASSUME MutexInv, FormInv, NEW e \in DOMAIN events, NEW u, NEW m, NEW W, Stage(e, u, m, W),
           u = <<u[1], u[2]>>, NEW o \in DOMAIN ops, Step(o), ~CallFails,
           Kind(o) \notin {"add", "remove"}
    PROVE  SyncKeeps(o, u)
<1>1. ASSUME UNCHANGED <<entries, groups>>, DOMAIN ops = {o}, o[2].uid = u,
             Kind(o) = "attributes" /\ o \in DOMAIN ops' => ops'[o].pc # "lookup"
      PROVE  SyncKeeps(o, u)
  BY <1>1 DEF SyncKeeps, SameEntry
<1>2. ~Starts(e, u) /\ ~WillMail(e, u, m, W) /\ ~HasMailed(e, u, m, W) /\ ~HasNamed(e, u, m, W)
  BY DEF NoOps, Starts, WillMail, HasMailed, HasNamed
<1>3. ~Listing(e, u, m, W)
  <2>1. \A s : AskRemoval(u, s).kind = "remove"
    BY DEF AskRemoval, Request
  <2>2. ~Adds(e, u, W, o) /\ ~Removes(e, u, W, o)
    BY <2>1 DEF Adds, Removes, Kind
  <2> QED
    BY <2>2 DEF Listing
<1>4. CASE HasAsked(e, u) \/ Keeping(e, u, m, W)
  <2>1. DOMAIN ops = {o} /\ ops[o].pc = "store" /\ o[2].uid = u
    <3>1. CASE HasAsked(e, u)
      <4>1. o = <<e, AskAttributes(u)>> /\ DOMAIN ops = {o} /\ ops[o].pc = "store"
        BY <3>1 DEF HasAsked, NoOps, Only
      <4> QED
        BY <4>1 DEF AskAttributes, Request
    <3>2. CASE Keeping(e, u, m, W)
      <4>1. PICK a : o = <<e, AskKeep(u, a)>> /\ DOMAIN ops = {o}
        BY <3>2 DEF Keeping, Only
      <4>2. Kind(o) = "keep" /\ o[2].uid = u
        BY <4>1 DEF Kind, AskKeep, Request
      <4> QED
        BY <4>1, <4>2 DEF MutexInv, Sound, Unguarded
    <3> QED
      BY <1>4, <3>1, <3>2
  <2>2. Goto(o, "end") /\ UNCHANGED <<entries, groups>>
    BY <2>1, StepAt DEF Store
  <2>3. o \notin DOMAIN ops'
    BY <2>2, GotoEnds
  <2> QED
    BY <1>1, <2>1, <2>2, <2>3
<1>5. CASE AsksGroups(e, u)
  <2>1. o = <<e, AskGroups(u)>> /\ DOMAIN ops = {o} /\ ops[o].pc \in {"lookup", "members"}
    BY <1>5 DEF AsksGroups, Only
  <2>2. Kind(o) = "groups" /\ o[2].uid = u
    BY <2>1 DEF Kind, AskGroups, Request
  <2>3. UNCHANGED <<entries, groups>>
    BY <2>1, StepAt DEF Lookup, CopyMembers, GroupsFound
  <2> QED
    BY <1>1, <2>1, <2>2, <2>3
<1>6. CASE Mailing(e, u, m, W)
  <2>1. /\ o = <<e, AskMail(u, m)>> /\ DOMAIN ops = {o}
        /\ ops[o].pc \in {"lookup", "primary", "alt"} /\ (ops[o].pc = "alt" => MailAgrees(u, m))
    BY <1>6 DEF Mailing, Only
  <2>2. Kind(o) = "mail" /\ o[2].uid = u /\ o[2].mail = m
    BY <2>1 DEF Kind, AskMail, Request
  <2>3. PICK G : G = {m} /\ m \in G
    OBVIOUS
  <2>4. ops[o].pc = "alt" => entries[u].mail \in G
    BY <2>1, <2>3 DEF MailAgrees
  <2>5. UNCHANGED groups /\ (\A v : v # u => SameEntry(v))
        /\ (u \in DOMAIN entries <=> u \in DOMAIN entries')
    BY <2>1, <2>2, <2>3, <2>4, MailWork
  <2> QED
    BY <2>1, <2>2, <2>5 DEF SyncKeeps
<1>7. CASE Naming(e, u, m, W)
  <2>1. o = <<e, AskNames(u)>> /\ DOMAIN ops = {o}
    BY <1>7 DEF Naming, Only
  <2>2. Kind(o) = "modify" /\ o[2].uid = u
    BY <2>1 DEF Kind, AskNames, Request
  <2>3. /\ \A s \in Schools : groups'[s] = groups[s]
        /\ DOMAIN entries' = DOMAIN entries
        /\ \A v \in DOMAIN entries : v # u => entries'[v] = entries[v]
    BY <1>7, NamingStep
  <2> QED
    BY <2>1, <2>2, <2>3 DEF SyncKeeps, SameEntry
<1> QED
  BY <1>2, <1>3, <1>4, <1>5, <1>6, <1>7, AsksKeeps DEF Stage, Later

\* Who is synchronised, by which handler.
LEMMA ResyncingBy ==
    ASSUME SyncInv, NEW u, Resyncing(u)
    PROVE  \E m, W :
               /\ u[1] \in Persons /\ u = Uid(u[1]) /\ m = db[u[1]].mail /\ m # "" /\ W = Wanted(u[1])
               /\ AllOver \/ \E e : OneHandler(e, u[1]) /\ Stage(e, u, m, W)
<1>1. synced = u[1] /\ u[1] \in Persons /\ u = Uid(u[1])
  BY DEF Resyncing, Live
<1>2. SyncOf(u[1])
  BY <1>1, LdapAssumption DEF SyncInv, Nobody
<1> QED
  BY <1>1, <1>2 DEF SyncOf

LEMMA ResyncingStep ==
    ASSUME MutexInv, FormInv, SyncInv, NEW u, Resyncing(u),
           NEW o \in DOMAIN ops, Step(o), ~CallFails
    PROVE  Resyncing(u)'
<1>1. PICK p, m, W : p = u[1] /\ m = db[p].mail /\ W = Wanted(p)
  OBVIOUS
<1>2. /\ synced = p /\ Live(u) /\ Besides(u) /\ p \in Persons
      /\ \A s \in Schools : /\ u \in groups[s] <=> Teaches(p, s)
                            /\ u \in groups[s] => u \in DOMAIN entries
      /\ \A e \in DOMAIN events :
             /\ events[e].mail \in {"", m}
             /\ events[e].plan = <<{AskAttributes(u)}>> => EntryGood(u)
      /\ \A x \in DOMAIN ops : /\ Kind(x) \in {"attributes", "groups", "mail", "keep", "modify"}
                               /\ Kind(x) = "attributes" /\ ops[x].pc = "lookup" => EntryGood(u)
  BY <1>1 DEF Resyncing, Live
<1>3. PICK e : /\ OneHandler(e, p) /\ Stage(e, u, m, W) /\ m # "" /\ u = <<u[1], u[2]>>
               /\ e \in DOMAIN events /\ u = Uid(p)
  <2>1. ~AllOver
    BY DEF AllOver, NoOps
  <2>2. u = <<u[1], u[2]>>
    BY <1>2, LiveName DEF Live, Uid
  <2> QED
    BY <1>1, <2>1, <2>2, ResyncingBy DEF OneHandler
<1>4. Kind(o) \notin {"add", "remove"}
  BY <1>2
<1>5. SyncKeeps(o, u)
  BY <1>3, <1>4, StageKeeps
<1>6. o[1] = e
  BY <1>3, StageOps
<1>7. synced' = p
  <2>1. ~SyncAborts(events[e])
    <3>1. events[e].data.mail = m
      BY <1>1, <1>3 DEF OneHandler
    <3> QED
      BY <1>2, <1>3, <3>1 DEF SyncAborts
  <2> QED
    BY <1>2, <1>6, <2>1, SyncedSame
<1>8. /\ SameRows /\ Live(u)' /\ db'[p].mail = m /\ \A s : Teaches(p, s)' <=> Teaches(p, s)
  BY <1>1, <1>2, StepRows, LiveSame, TeachesSame DEF SameRows, SameRow
<1>9. OneHandler(e, p)'
  BY <1>2, <1>3, <1>6, OneHandlerStep
<1>10. Later(e, u, m, W)'
  <2>1. events[e].data.mail = m /\ W = {k \in events[e].data.kontexte : Lehr(k)}
    BY <1>1, <1>3 DEF OneHandler, Wanted
  <2>2. SchoolsOf(W) \subseteq Schools
    BY <1>1, <1>2, WantedSchools
  <2>3. synced' # Nobody
    BY <1>2, <1>7, LdapAssumption DEF Nobody
  <2> QED
    BY <1>3, <2>1, <2>2, <2>3, StageStep
<1>11. events'[e].mail \in {"", m}
  <2>1. CASE Kind(o) = "attributes" /\ ops[o].pc = "lookup" /\ o[2].uid \in DOMAIN entries
    <3>1. Lookup(o) /\ EntryGood(u)
      BY <1>2, <2>1, StepAt
    <3>2. o[2].uid = u
      BY <1>5 DEF SyncKeeps
    <3> DEFINE x == [events[e] EXCEPT !.mail = entries[u].mail, !.alt = entries[u].alt,
                                      !.plan = <<{Request("groups", u)}>>]
    <3>3. events' = [events EXCEPT ![e] = x]
      BY <1>6, <2>1, <3>1, <3>2 DEF Lookup, LookupMissing, LookupFound
    <3>4. DOMAIN x = EventFields /\ x.mail = entries[u].mail
      BY <1>3, EventIsFormed DEF FormInv, EventFields
    <3> HIDE DEF x
    <3>5. events'[e] = x
      BY <1>3, <3>3, <3>4, EventPlan DEF FormInv
    <3> QED
      BY <1>1, <2>1, <3>1, <3>2, <3>4, <3>5 DEF EntryGood, MailGood
  <2>2. CASE ~(Kind(o) = "attributes" /\ ops[o].pc = "lookup" /\ o[2].uid \in DOMAIN entries)
    BY <1>2, <1>3, <2>2, EventMails
  <2> QED
    BY <2>1, <2>2
<1>12. ASSUME NEW d \in DOMAIN events'
       PROVE  events'[d].mail \in {"", m} /\ events'[d].plan # <<{AskAttributes(u)}>>
  <2>1. CASE d = e
    BY <1>10, <1>11, <2>1, LaterPlan
  <2>2. CASE d # e
    <3>1. events'[d] = Over
      BY <1>9, <2>2 DEF OneHandler
    <3>2. <<{AskAttributes(u)}>> # <<>>
      OBVIOUS
    <3> QED
      BY <3>1, <3>2, OverFields
  <2> QED
    BY <2>1, <2>2
<1>13. ASSUME NEW x \in DOMAIN ops'
       PROVE  /\ Kind(x) \in {"attributes", "groups", "mail", "keep", "modify"}
              /\ ~(Kind(x) = "attributes" /\ ops'[x].pc = "lookup")
  <2>1. x = o
    BY <1>5, StepOthers DEF SyncKeeps, Others
  <2> QED
    BY <1>2, <1>5, <2>1 DEF SyncKeeps
<1>14. Besides(u)'
  <2> SUFFICES ASSUME NEW v, v # u PROVE Good(v)'
    BY DEF Besides
  <2>1. SameEntry(v) /\ SameGroups(v) /\ Good(v)
    BY <1>2, <1>5 DEF SyncKeeps, SameGroups, Besides
  <2> QED
    BY <1>8, <2>1, GoodSame DEF SameRows
<1> QED
  BY <1>1, <1>2, <1>5, <1>7, <1>8, <1>12, <1>13, <1>14 DEF Resyncing, SyncKeeps, Kind

\* Who is in the right groups has nothing to be listed.
LEMMA NothingToList ==
    ASSUME NEW u, NEW W, GroupsAgree(u, W), SchoolsOf(W) \subseteq Schools PROVE AskLists(u, W) = {}
<1>1. \A k \in W : k.school \in Members(u)
  BY DEF GroupsAgree, SchoolsOf, Members
<1>2. Members(u) \subseteq SchoolsOf(W)
  BY DEF GroupsAgree, Members
<1> QED
  BY <1>1, <1>2 DEF AskLists, Lists, SchoolsOf

LEMMA StageAsks ==
    ASSUME NEW e, NEW u, NEW m, NEW W, Stage(e, u, m, W), NoOps, events[e].plan # <<>>,
           GroupsAgree(u, W), SchoolsOf(W) \subseteq Schools, NEW r \in Head(events[e].plan)
    PROVE  /\ r.kind \in {"attributes", "groups", "mail", "keep", "modify"}
           /\ r.kind = "attributes" => events[e].plan = <<{AskAttributes(u)}>>
<1>1. /\ \A a : AskKeep(u, a).kind = "keep" /\ AskMail(u, a).kind = "mail"
      /\ AskAttributes(u).kind = "attributes" /\ AskGroups(u).kind = "groups"
      /\ AskNames(u).kind = "modify"
  BY DEF AskKeep, AskMail, AskAttributes, AskGroups, AskNames, Request
<1>2. ~Asks(e, u) /\ ~AsksGroups(e, u) /\ ~Mailing(e, u, m, W) /\ ~Keeping(e, u, m, W)
      /\ ~Naming(e, u, m, W)
  BY DEF NoOps, Only, Asks, AsksGroups, Mailing, Keeping, Naming
<1>3. Listing(e, u, m, W) => events[e].plan = <<>>
  BY DEF Listing, Plan
<1>4. CASE Starts(e, u)
  <2>1. events[e].plan = <<{AskAttributes(u)}>>
    BY <1>4 DEF Starts, Plan
  <2>2. r = AskAttributes(u)
    BY <2>1, Tuples
  <2> QED
    BY <1>1, <2>1, <2>2
<1>5. CASE HasAsked(e, u)
  <2>1. events[e].plan = <<{AskGroups(u)}>>
    BY <1>5 DEF HasAsked, Plan
  <2>2. r = AskGroups(u)
    BY <2>1, Tuples
  <2> QED
    BY <1>1, <2>2
<1>6. CASE WillMail(e, u, m, W)
  <2>1. Head(events[e].plan) = {AskMail(u, m)}
    <3>1. CASE events[e].plan = <<{AskMail(u, m)}, {AskNames(u)}, AskLists(u, W)>>
      BY <3>1, Tuples
    <3>2. ASSUME NEW a,
                 events[e].plan = <<{AskMail(u, m)}, {AskKeep(u, a)}, {AskNames(u)}, AskLists(u, W)>>
          PROVE Head(events[e].plan) = {AskMail(u, m)}
      BY <3>2, Tuples
    <3> QED
      BY <1>6, <3>1, <3>2 DEF WillMail, Plan
  <2> QED
    BY <1>1, <2>1
<1>7. CASE HasMailed(e, u, m, W)
  <2>1. Head(events[e].plan) = {AskNames(u)} \/ \E a : Head(events[e].plan) = {AskKeep(u, a)}
    BY <1>7, Tuples DEF HasMailed, RestPlanned, Plan, Rest, KeepRest
  <2> QED
    BY <1>1, <2>1
<1>8. CASE HasNamed(e, u, m, W)
  <2>1. Head(events[e].plan) = {}
    BY <1>8, Tuples, NothingToList DEF HasNamed, Plan
  <2> QED
    BY <2>1
<1> QED
  BY <1>2, <1>3, <1>4, <1>5, <1>6, <1>7, <1>8 DEF Stage, Later

LEMMA ResyncingHandled ==
    ASSUME FormInv, SyncInv, NEW u, Resyncing(u), NEW d \in DOMAIN events, Handles(d)
    PROVE  Resyncing(u)'
<1>1. PICK p, m, W : p = u[1] /\ m = db[p].mail /\ W = Wanted(p)
  OBVIOUS
<1>2. /\ synced = p /\ Live(u) /\ Besides(u) /\ p \in Persons
      /\ \A s \in Schools : /\ u \in groups[s] <=> Teaches(p, s)
                            /\ u \in groups[s] => u \in DOMAIN entries
      /\ \A e \in DOMAIN events :
             /\ events[e].mail \in {"", m}
             /\ events[e].plan = <<{AskAttributes(u)}>> => EntryGood(u)
      /\ \A x \in DOMAIN ops : /\ Kind(x) \in {"attributes", "groups", "mail", "keep", "modify"}
                               /\ Kind(x) = "attributes" /\ ops[x].pc = "lookup" => EntryGood(u)
  BY <1>1 DEF Resyncing, Live
<1>3. UNCHANGED <<db, entries, groups, synced>> /\ events[d] # Over
  BY OverFields DEF Handles, Advance, Return, luck
<1>4. PICK e : e = d /\ OneHandler(e, p) /\ Stage(e, u, m, W)
  BY <1>1, <1>3, ResyncingBy DEF AllOver, OneHandler
<1>5. /\ Live(u)' /\ Besides(u)' /\ (EntryGood(u)' <=> EntryGood(u))
      /\ \A s : Teaches(p, s)' <=> Teaches(p, s)
  BY <1>2, <1>3, NothingChanges
<1>6. \A x \in DOMAIN events \ {e} : events[x] = Over
  BY <1>4 DEF OneHandler
<1>7. <<{AskAttributes(u)}>> # <<>>
  OBVIOUS
<1>8. CASE Return(d)
  <2>1. DOMAIN events' = DOMAIN events /\ \A x \in DOMAIN events : events'[x] = Over
    BY <1>4, <1>6, <1>8, ReturnDoes DEF FormInv
  <2>2. \A x \in DOMAIN events' : events'[x].mail = "" /\ events'[x].plan = <<>>
    BY <2>1, OverFields
  <2>3. UNCHANGED ops
    BY <1>8 DEF Return
  <2>4. \A x \in DOMAIN ops' : /\ Kind(x) \in {"attributes", "groups", "mail", "keep", "modify"}
                               /\ Kind(x) = "attributes" /\ ops'[x].pc = "lookup" => EntryGood(u)'
    BY <1>2, <1>5, <2>3
  <2> QED
    BY <1>1, <1>2, <1>3, <1>5, <1>7, <2>2, <2>4 DEF Resyncing, Kind
<1>9. CASE Advance(d)
  <2>1. NoOps
    BY <1>4, <1>9, StageOps DEF Advance, OpsOf, NoOps
  <2>2. SchoolsOf(W) \subseteq Schools
    BY <1>1, <1>2, WantedSchools
  <2>3. Later(e, u, m, W)'
    BY <1>4, <1>9, <2>2, StageOn
  <2>4. /\ DOMAIN events' = DOMAIN events
        /\ \A x \in DOMAIN events : x # e => events'[x] = Over
        /\ events'[e].mail = events[e].mail
    BY <1>4, <1>6, <1>9, AdvanceDoes DEF FormInv, EventFields
  <2>5. ASSUME NEW x \in DOMAIN events'
        PROVE  events'[x].mail \in {"", m} /\ events'[x].plan # <<{AskAttributes(u)}>>
    <3>1. CASE x = e
      BY <1>2, <2>3, <2>4, <3>1, LaterPlan
    <3>2. CASE x # e
      BY <1>7, <2>4, <3>2, OverFields
    <3> QED
      BY <3>1, <3>2
  <2>6. ASSUME NEW x \in DOMAIN ops'
        PROVE  /\ Kind(x) \in {"attributes", "groups", "mail", "keep", "modify"}
               /\ Kind(x) = "attributes" => EntryGood(u)'
    <3>1. x[2] \in Head(events[e].plan) /\ events[e].plan # <<>>
      BY <1>4, <1>9, <2>1 DEF Advance, NoOps
    <3>2. GroupsAgree(u, W)
      BY <1>1, <1>2, TeachesWanted DEF GroupsAgree
    <3>3. /\ x[2].kind \in {"attributes", "groups", "mail", "keep", "modify"}
          /\ x[2].kind = "attributes" => events[e].plan = <<{AskAttributes(u)}>>
      BY <1>4, <2>1, <2>2, <3>1, <3>2, StageAsks
    <3> QED
      BY <1>2, <1>4, <1>5, <3>3 DEF Kind
  <2> QED
    BY <1>1, <1>2, <1>3, <1>5, <2>5, <2>6 DEF Resyncing, Kind
<1> QED
  BY <1>8, <1>9 DEF Handles

-----------------------------------------------------------------------------
(* When all is over.                                                        *)

LEMMA NothingDue ==
    ASSUME Quiet, NEW e, e \in DOMAIN events PROVE \A r : ~Due(e, r)
<1>1. DOMAIN ops = {} /\ events[e].plan = <<>>
  <2>1. DOMAIN ops = {} /\ events[e] = Over
    BY DEF Quiet
  <2> QED
    BY <2>1, OverFields
<1> QED
  BY <1>1, PlannedWhen DEF Due

LEMMA QuietSettled ==
    ASSUME SyncInv, FormInv, Quiet, Calmly PROVE Settled
<1>1. ASSUME NEW u, Besides(u), Good(u) PROVE Settled
  BY <1>1 DEF Settled, Besides
<1>2. ASSUME NEW u, Resyncing(u) PROVE Settled
  <2>1. /\ synced = u[1] /\ Live(u) /\ Besides(u) /\ u[1] \in Persons /\ u = Uid(u[1])
        /\ \A s \in Schools : u \in groups[s] <=> Teaches(u[1], s)
    BY <1>2 DEF Resyncing, Live
  <2>2. SyncMirrors
    BY SyncMirrorsDb DEF FormInv
  <2>3. /\ u \in DOMAIN entries
        /\ entries[u].mail = db[u[1]].mail
        /\ entries[u].naming = db[u[1]].name
    BY <2>1, <2>2 DEF SyncMirrors
  <2>4. Good(u)
    BY <2>1, <2>3 DEF Good, EntryGood, MailGood, GroupsGood
  <2> QED
    BY <1>1, <2>1, <2>4
<1>3. ASSUME NEW e, NEW u, Changing(e, u) PROVE Settled
  <2>1. \A r : ~Due(e, r)
    BY <1>3, NothingDue DEF Changing, Working
  <2>2. Good(u)
    BY <1>3, <2>1 DEF Changing, Good, GroupsGood
  <2> QED
    BY <1>1, <1>3, <2>2 DEF Changing
<1>4. ASSUME NEW e, NEW u, Remailing(e, u) PROVE Settled
  <2>1. \A r : ~Due(e, r)
    BY <1>4, NothingDue DEF Remailing, Working
  <2>2. Good(u)
    BY <1>4, <2>1 DEF Remailing, Good, EntryGood
  <2> QED
    BY <1>1, <1>4, <2>2 DEF Remailing
<1>5. ASSUME NEW e, NEW old, NEW u, Renaming(e, old, u) PROVE Settled
  <2>1. e \in DOMAIN events
    BY <1>5 DEF Renaming, Working
  <2>2. events[e].plan = <<>> /\ DOMAIN ops = {}
    BY <2>1, OverFields DEF Quiet
  <2>3. \A a : <<a>> # <<>>
    OBVIOUS
  <2>4. Good(old) /\ Good(u)
    BY <1>5, <2>2, <2>3 DEF Renaming, RenameOn, Only
  <2> QED
    BY <1>5, <2>4 DEF Renaming, Settled
<1>6. ASSUME NEW e, NEW d, NEW u, Deleting(e, d, u) PROVE Settled
  <2>1. \A r : ~Due(e, r) /\ ~Due(d, r)
    BY <1>6, NothingDue DEF Deleting, Working
  <2>2. ~Live(u) /\ u \notin DOMAIN entries /\ \A s \in Schools : u \notin groups[s]
    BY <1>6, <2>1 DEF Deleting, Live
  <2> QED
    BY <1>1, <1>6, <2>2, DeadIsGood DEF Deleting
<1> QED
  BY <1>2, <1>3, <1>4, <1>5, <1>6 DEF Calmly

LEMMA SettledMirrors ==
    ASSUME Settled, FormInv PROVE CalmMirrors
<1>1. \A v : Good(v)
  BY DEF Settled
<1>2. ASSUME NEW v, Live(v) PROVE v \in {Uid(p) : p \in Living} /\ v[1] \in Living
  BY <1>2 DEF Live, Living
<1>3. TeachersOnly
  <2> SUFFICES ASSUME NEW s \in Schools, NEW v \in groups[s]
               PROVE  v \in {Uid(p) : p \in {x \in Living : Teaches(x, s)}}
    BY DEF TeachersOnly
  <2>1. Live(v) /\ Teaches(v[1], s)
    BY <1>1 DEF Good, GroupsGood
  <2> QED
    BY <2>1 DEF Live, Living
<1>4. DOMAIN entries \subseteq {Uid(p) : p \in Living}
  BY <1>1, <1>2 DEF Good
<1>5. ASSUME NEW p \in Living
      PROVE  /\ \A s \in Schools : Teaches(p, s) => Uid(p) \in groups[s] \cap DOMAIN entries
             /\ Uid(p) \in DOMAIN entries =>
                    /\ entries[Uid(p)].naming = db[p].name
                    /\ entries[Uid(p)].mail \in {"", db[p].mail}
  <2>1. PICK v : v = Uid(p) /\ v[1] = p
    <3>1. Uid(p)[1] = p
      BY DEF Uid
    <3> QED
      BY <3>1
  <2>2. Live(v)
    BY <2>1 DEF Live, Living
  <2>3. Good(v)
    BY <1>1
  <2> QED
    BY <2>1, <2>2, <2>3 DEF Good, EntryGood, MailGood, GroupsGood
<1> QED
  BY <1>3, <1>4, <1>5 DEF CalmMirrors

-----------------------------------------------------------------------------
(* When the database changes.                                               *)

\* The events' handlers are all that is under way.
Starting(e, n) ==
    /\ e \notin DOMAIN events /\ DOMAIN events' = DOMAIN events \cup {e} /\ events'[e] = n
    /\ \A d \in DOMAIN events : events'[d] = Over
    /\ UNCHANGED <<entries, groups, ops>> /\ DOMAIN ops = {}

StartingTwo(e, d, n, k) ==
    /\ e # d /\ DOMAIN events' = DOMAIN events \cup {e, d}
    /\ events'[e] = n /\ events'[d] = k
    /\ \A i \in DOMAIN events : i \notin {e, d} /\ events'[i] = Over
    /\ UNCHANGED <<entries, groups, ops>> /\ DOMAIN ops = {}

LEMMA PublishOne ==
    ASSUME FormInv, Quiet, NEW n, Publish(<<n>>) PROVE \E e : Starting(e, n)
<1>1. PICK S : events \in Seq(S)
  BY DEF FormInv, EventsFormed
<1>2. PICK e : e = Len(events) + 1
  OBVIOUS
<1>3. /\ DOMAIN events' = DOMAIN events \cup {e} /\ e \notin DOMAIN events
      /\ events'[e] = n /\ \A d \in DOMAIN events : events'[d] = events[d]
  <2>1. PICK s, t : s = events /\ t = events'
    OBVIOUS
  <2>2. s \in Seq(S) /\ t = s \o <<n>> /\ e = Len(s) + 1
    BY <1>1, <1>2, <2>1 DEF Publish
  <2>3. /\ DOMAIN t = DOMAIN s \cup {e} /\ e \notin DOMAIN s /\ t[e] = n
        /\ \A d \in DOMAIN s : t[d] = s[d]
    BY <2>2, OneMore
  <2> QED
    BY <2>1, <2>3
<1> QED
  BY <1>3 DEF Publish, Quiet, Starting

LEMMA TwoMore ==
    ASSUME NEW S, NEW s \in Seq(S), NEW x, NEW y, NEW t, t = s \o <<x, y>>,
           NEW e, e = Len(s) + 1, NEW d, d = Len(s) + 2
    PROVE  /\ e # d /\ e \notin DOMAIN s /\ d \notin DOMAIN s
           /\ DOMAIN t = DOMAIN s \cup {e, d} /\ t[e] = x /\ t[d] = y
           /\ \A i \in DOMAIN s : t[i] = s[i]
<1> DEFINE T == S \cup {x, y}
<1>1. s \in Seq(T) /\ <<x, y>> \in Seq(T)
  OBVIOUS
<1> HIDE DEF T
<1>2. Len(<<x, y>>) = 2 /\ <<x, y>>[1] = x /\ <<x, y>>[2] = y
  OBVIOUS
<1>3. Len(s) \in Nat /\ DOMAIN s = 1 .. Len(s)
  OBVIOUS
<1>4. Len(t) = Len(s) + 2 /\ DOMAIN t = 1 .. Len(s) + 2
  BY <1>1, <1>2, <1>3
<1>5. \A i \in 1 .. Len(s) : t[i] = s[i]
  BY <1>1, <1>2, <1>3
<1>6. t[e] = x /\ t[d] = y
  BY <1>1, <1>2, <1>3
<1>7. /\ 1 .. Len(s) + 2 = (1 .. Len(s)) \cup {e, d}
      /\ e # d /\ e \notin 1 .. Len(s) /\ d \notin 1 .. Len(s)
  BY <1>3
<1> QED
  BY <1>3, <1>4, <1>5, <1>6, <1>7

LEMMA PublishTwo ==
    ASSUME FormInv, Quiet, NEW n, NEW k, Publish(<<n, k>>)
    PROVE  \E e, d : StartingTwo(e, d, n, k)
<1>1. PICK S : events \in Seq(S)
  BY DEF FormInv, EventsFormed
<1>2. PICK s, t : s = events /\ t = events'
  OBVIOUS
<1>3. PICK e, d : e = Len(s) + 1 /\ d = Len(s) + 2
  OBVIOUS
<1>4. s \in Seq(S) /\ t = s \o <<n, k>>
  BY <1>1, <1>2 DEF Publish
<1>5. /\ e # d /\ e \notin DOMAIN s /\ d \notin DOMAIN s
      /\ DOMAIN t = DOMAIN s \cup {e, d} /\ t[e] = n /\ t[d] = k
      /\ \A i \in DOMAIN s : t[i] = s[i]
  <2>1. /\ e # d /\ e \notin DOMAIN s /\ d \notin DOMAIN s
        /\ DOMAIN t = DOMAIN s \cup {e, d}
    BY SMTT(30), <1>3, <1>4, TwoMore
  <2>2. t[e] = n /\ t[d] = k
    BY SMTT(30), <1>3, <1>4, TwoMore
  <2>3. \A i \in DOMAIN s : t[i] = s[i]
    BY SMTT(30), <1>3, <1>4, TwoMore
  <2> QED
    BY <2>1, <2>2, <2>3
<1>6. UNCHANGED <<entries, groups, ops>> /\ DOMAIN ops = {} /\ \A i \in DOMAIN events : events[i] = Over
  BY DEF Publish, Quiet
<1>7. \A i \in DOMAIN events : i \notin {e, d} /\ events'[i] = Over
  BY <1>2, <1>5, <1>6
<1>8. StartingTwo(e, d, n, k)
  BY <1>2, <1>5, <1>6, <1>7 DEF StartingTwo
<1> QED
  BY <1>8

\* What a new handler has to do is what its plan says.
LEMMA StartingWorks ==
    ASSUME NEW e, NEW n, Starting(e, n), Short(n.plan)
    PROVE  /\ Working({e})' /\ NoOps'
           /\ \A r : Due(e, r)' <=> Planned(n.plan, r)
<1>1. /\ DOMAIN events' = DOMAIN events \cup {e} /\ events'[e] = n /\ DOMAIN ops' = {}
      /\ \A d \in DOMAIN events : events'[d].plan = <<>>
  BY OverFields DEF Starting
<1>2. Short(<<>>)
  BY DEF Short
<1>3. Working({e})'
  BY <1>1, <1>2 DEF Working
<1> QED
  BY <1>1, <1>3 DEF Due, NoOps

\* A person whose username stays, in a database where the others do.
LEMMA GoodBesides ==
    ASSUME Settled, UNCHANGED <<entries, groups>>, NEW p \in Persons, NEW u, u = Uid(p),
           \A q \in Persons : q # p => db'[q] = db[q],
           db'[p].name = db[p].name
    PROVE  Besides(u)'
<1> SUFFICES ASSUME NEW v, v # u PROVE Good(v)'
  BY DEF Besides
<1>1. CASE v[1] = p
  <2>1. ~Live(v) /\ ~Live(v)'
    BY <1>1 DEF Live, Uid
  <2>2. Good(v)
    BY DEF Settled
  <2> QED
    BY <2>1, <2>2, GoodStays DEF SameEntry, SameGroups
<1>2. CASE v[1] # p
  <2>1. v[1] \in Persons => SameRow(v[1])
    BY <1>2 DEF SameRow
  <2>2. Good(v)
    BY DEF Settled
  <2> QED
    BY <2>1, <2>2, GoodSame DEF SameEntry, SameGroups
<1> QED
  BY <1>1, <1>2

\* What a request of an event asks for.
LEMMA RequestFits ==
    ASSUME NEW u, NEW k
    PROVE  /\ RemovesAt(u, k.school, [Request("remove", u) EXCEPT !.school = k.school, !.rolle = k.rolle])
           /\ CreatesAt(u, k.school, [Request("create", u) EXCEPT !.school = k.school, !.rolle = k.rolle])
BY DEF RemovesAt, CreatesAt, Request

LEMMA RemovalsAsk ==
    ASSUME NEW u, NEW removed, NEW current
    PROVE  /\ \A r \in Removals(u, removed, current) :
                  \E k \in removed : /\ Lehr(k) /\ ~\E c \in current : c.school = k.school
                                     /\ RemovesAt(u, k.school, r)
           /\ \A k \in removed : Lehr(k) /\ ~(\E c \in current : c.school = k.school) =>
                  \E r \in Removals(u, removed, current) : RemovesAt(u, k.school, r)
<1>1. ASSUME NEW r \in Removals(u, removed, current)
      PROVE  \E k \in removed : /\ Lehr(k) /\ ~\E c \in current : c.school = k.school
                                /\ RemovesAt(u, k.school, r)
  <2>1. PICK k \in removed :
            /\ Lehr(k) /\ ~\E c \in current : c.school = k.school
            /\ r = [Request("remove", u) EXCEPT !.school = k.school, !.rolle = k.rolle]
    BY DEF Removals
  <2> QED
    BY <2>1, RequestFits
<1>2. ASSUME NEW k \in removed, Lehr(k), ~\E c \in current : c.school = k.school
      PROVE  \E r \in Removals(u, removed, current) : RemovesAt(u, k.school, r)
  <2>1. PICK r : r = [Request("remove", u) EXCEPT !.school = k.school, !.rolle = k.rolle]
    OBVIOUS
  <2>2. r \in Removals(u, removed, current)
    BY <1>2, <2>1 DEF Removals
  <2> QED
    BY <2>1, <2>2, RequestFits
<1> QED
  BY <1>1, <1>2

LEMMA CreationsAsk ==
    ASSUME NEW u, NEW created
    PROVE  /\ \A r \in Creations(u, created) : \E k \in created : Lehr(k) /\ CreatesAt(u, k.school, r)
           /\ \A k \in created : Lehr(k) => \E r \in Creations(u, created) : CreatesAt(u, k.school, r)
<1>1. ASSUME NEW r \in Creations(u, created)
      PROVE  \E k \in created : Lehr(k) /\ CreatesAt(u, k.school, r)
  <2>1. PICK k \in created :
            /\ Lehr(k)
            /\ r = [Request("create", u) EXCEPT !.school = k.school, !.rolle = k.rolle]
    BY DEF Creations
  <2> QED
    BY <2>1, RequestFits
<1>2. ASSUME NEW k \in created, Lehr(k) PROVE \E r \in Creations(u, created) : CreatesAt(u, k.school, r)
  <2>1. PICK r : r = [Request("create", u) EXCEPT !.school = k.school, !.rolle = k.rolle]
    OBVIOUS
  <2>2. r \in Creations(u, created)
    BY <1>2, <2>1 DEF Creations
  <2> QED
    BY <2>1, <2>2, RequestFits
<1> QED
  BY <1>1, <1>2

LEMMA OnePlanned == ASSUME NEW r, NEW x PROVE Planned(<<{r}>>, x) <=> x = r
<1>1. PICK a : a = {r}
  OBVIOUS
<1>2. Planned(<<a>>, x) <=> x \in a
  BY PlannedWhen
<1> QED
  BY <1>1, <1>2

LEMMA LiveNow ==
    ASSUME NEW p \in Persons, ~db[p].gone PROVE Live(Uid(p)) /\ Uid(p)[1] = p /\ Uid(p)[2] = db[p].name
BY DEF Live, Uid

LEMMA UpdateCalm ==
    ASSUME FormInv, Settled, \A k \in Kontexte : Lehr(k),
           NEW p \in Persons, ~db[p].gone, NEW K \in SUBSET Kontexte, Update(p, K)
    PROVE  \E e, u : Changing(e, u)'
<1>1. PICK u, old : u = Uid(p) /\ u[1] = p /\ Live(u) /\ old = db[p].kontexte
  BY LiveNow
<1>2. old \subseteq Kontexte /\ K \subseteq Kontexte
  BY <1>1 DEF FormInv, DbFormed, RowFormed
<1>3. /\ \A q \in Persons : q # p => db'[q] = db[q]
      /\ db'[p].name = db[p].name /\ db'[p].mail = db[p].mail
      /\ db'[p].gone = db[p].gone /\ db'[p].kontexte = K
  <2> DEFINE x == [db[p] EXCEPT !.kontexte = K]
  <2>1. db' = [db EXCEPT ![p] = x]
    BY DEF Update
  <2>2. x.name = db[p].name /\ x.mail = db[p].mail /\ x.gone = db[p].gone /\ x.kontexte = K
    BY DEF FormInv, DbFormed, RowFormed, DbFields
  <2> HIDE DEF x
  <2> QED
    BY <2>1, <2>2 DEF FormInv, DbFormed
<1>4. PICK a, b : a = Removals(u, old \ K, K) /\ b = Creations(u, K \ old)
  OBVIOUS
<1>5. PICK n : n = Event(p, <<a, b>>) /\ n.plan = <<a, b>>
  <2>1. Event(p, <<a, b>>).plan = <<a, b>>
    BY DEF Event
  <2> QED
    BY <2>1
<1>6. PICK e : Starting(e, n)
  <2>1. Quiet /\ Publish(<<n>>)
    BY <1>1, <1>4, <1>5 DEF Update, Settled
  <2> QED
    BY <2>1, PublishOne
<1>7. /\ Working({e})' /\ NoOps' /\ UNCHANGED <<entries, groups>>
      /\ \A r : Due(e, r)' <=> r \in a \/ r \in b
  <2>1. Short(n.plan)
    BY <1>5 DEF Short
  <2>2. Working({e})' /\ NoOps' /\ \A r : Due(e, r)' <=> Planned(n.plan, r)
    BY <1>6, <2>1, StartingWorks
  <2> QED
    BY <1>5, <1>6, <2>2, PlannedWhen DEF Starting
<1>8. Live(u)'
  BY <1>1, <1>3 DEF Live, Uid
<1>9. Besides(u)'
  BY <1>1, <1>3, <1>7, GoodBesides
<1>10. Good(u)
  BY DEF Settled
<1>11. EntryGood(u)'
  BY <1>1, <1>3, <1>7, <1>10 DEF Good, EntryGood, MailGood
<1>12. \A s : Teaches(p, s)' <=> \E k \in K : k.school = s
  BY <1>2, <1>3 DEF Teaches
<1>13. ASSUME NEW r, Due(e, r)'
       PROVE  \E s \in Schools : \/ RemovesAt(u, s, r) /\ ~Teaches(p, s)'
                                 \/ CreatesAt(u, s, r) /\ Teaches(p, s)'
  <2>1. CASE r \in a
    <3>1. PICK k \in old \ K : ~(\E c \in K : c.school = k.school) /\ RemovesAt(u, k.school, r)
      BY <1>4, <2>1, RemovalsAsk
    <3> QED
      BY <1>2, <1>12, <3>1 DEF Schools
  <2>2. CASE r \in b
    <3>1. PICK k \in K \ old : CreatesAt(u, k.school, r)
      BY <1>4, <2>2, CreationsAsk
    <3> QED
      BY <1>2, <1>12, <3>1 DEF Schools
  <2> QED
    BY <1>7, <1>13, <2>1, <2>2
<1>14. ASSUME NEW s \in Schools
       PROVE  IF Teaches(p, s)'
              THEN \/ u \in groups'[s] /\ u \in DOMAIN entries'
                   \/ \E r : Due(e, r)' /\ CreatesAt(u, s, r)
              ELSE u \in groups'[s] => u \in DOMAIN entries' /\ \E r : Due(e, r)' /\ RemovesAt(u, s, r)
  <2>1. /\ u \in groups[s] <=> \E k \in old : k.school = s
        /\ u \in groups[s] => u \in DOMAIN entries
    BY <1>1, <1>2, <1>10 DEF Good, GroupsGood, Teaches
  <2>2. CASE Teaches(p, s)'
    <3>1. PICK k \in K : k.school = s
      BY <1>12, <2>2
    <3>2. CASE k \in old
      BY <1>7, <2>1, <2>2, <3>1, <3>2
    <3>3. CASE k \notin old
      <4>1. \E r \in b : CreatesAt(u, s, r)
        BY <1>2, <1>4, <3>1, <3>3, CreationsAsk
      <4> QED
        BY <1>7, <2>2, <4>1
    <3> QED
      BY <3>2, <3>3
  <2>3. CASE ~Teaches(p, s)' /\ u \in groups[s]
    <3>1. PICK k \in old : k.school = s
      BY <2>1, <2>3
    <3>2. k \in old \ K /\ Lehr(k) /\ ~\E c \in K : c.school = k.school
      BY <1>2, <1>12, <2>3, <3>1
    <3>3. \E r \in a : RemovesAt(u, s, r)
      BY <1>4, <3>1, <3>2, RemovalsAsk
    <3> QED
      BY <1>7, <2>1, <2>3, <3>3
  <2> QED
    BY <1>7, <2>2, <2>3
<1>15. \A s : Teaches(u[1], s)' <=> Teaches(p, s)'
  BY <1>1 DEF Teaches
<1>16. /\ \A r : Due(e, r)' =>
              \E s \in Schools : \/ RemovesAt(u, s, r) /\ ~Teaches(u[1], s)'
                                 \/ CreatesAt(u, s, r) /\ Teaches(u[1], s)'
       /\ \A s \in Schools :
              IF Teaches(u[1], s)'
              THEN \/ u \in groups'[s] /\ u \in DOMAIN entries'
                   \/ \E r : Due(e, r)' /\ CreatesAt(u, s, r)
              ELSE u \in groups'[s] => u \in DOMAIN entries' /\ \E r : Due(e, r)' /\ RemovesAt(u, s, r)
  BY <1>13, <1>14, <1>15
<1>17. \A o \in DOMAIN ops' :
           IF Kind(o) = "remove" THEN RemovalSound(u, o)' ELSE CreationSound(u, o)'
  BY <1>7 DEF NoOps
<1>18. Changing(e, u)'
  BY <1>7, <1>8, <1>9, <1>11, <1>16, <1>17 DEF Changing, RemovesAt, CreatesAt, Kind
<1> QED
  BY <1>18

LEMMA MailCalm ==
    ASSUME FormInv, Settled, NEW p \in Persons, ~db[p].gone, NEW m, ChangeMail(p, m)
    PROVE  \E e, u : Remailing(e, u)'
<1>1. PICK u : u = Uid(p) /\ u[1] = p /\ Live(u)
  BY LiveNow
<1>2. /\ \A q \in Persons : q # p => db'[q] = db[q]
      /\ db'[p].name = db[p].name /\ db'[p].mail = m
      /\ db'[p].gone = db[p].gone /\ db'[p].kontexte = db[p].kontexte
  <2> DEFINE x == [db[p] EXCEPT !.mail = m, !.old = db[p].old \cup ({db[p].mail} \ {""})]
  <2>1. db' = [db EXCEPT ![p] = x]
    BY DEF ChangeMail
  <2>2. x.name = db[p].name /\ x.mail = m /\ x.gone = db[p].gone /\ x.kontexte = db[p].kontexte
    BY DEF FormInv, DbFormed, RowFormed, DbFields
  <2> HIDE DEF x
  <2> QED
    BY <2>1, <2>2 DEF FormInv, DbFormed
<1>3. PICK r : r = AskMail(u, m)
  OBVIOUS
<1>4. PICK n : n = Event(p, <<{r}>>) /\ n.plan = <<{r}>>
  <2>1. Event(p, <<{r}>>).plan = <<{r}>>
    BY DEF Event
  <2> QED
    BY <2>1
<1>5. PICK e : Starting(e, n)
  <2>1. Quiet /\ Publish(<<n>>)
    BY <1>1, <1>3, <1>4 DEF ChangeMail, Settled, AskMail
  <2> QED
    BY <2>1, PublishOne
<1>6. /\ Working({e})' /\ NoOps' /\ UNCHANGED <<entries, groups>>
      /\ \A x : Due(e, x)' <=> x = r
  <2>1. Short(n.plan)
    BY <1>4 DEF Short
  <2>2. Working({e})' /\ NoOps' /\ \A x : Due(e, x)' <=> Planned(n.plan, x)
    BY <1>5, <2>1, StartingWorks
  <2>3. \A x : Planned(n.plan, x) <=> x = r
    BY <1>4, OnePlanned
  <2> QED
    BY <1>5, <2>2, <2>3 DEF Starting
<1>7. Live(u)'
  BY <1>1, <1>2 DEF Live, Uid
<1>8. Besides(u)'
  BY <1>1, <1>2, <1>6, GoodBesides
<1>9. Good(u)
  BY DEF Settled
<1>10. GroupsGood(u)'
  <2>1. \A s : Teaches(p, s)' <=> Teaches(p, s)
    BY <1>2 DEF Teaches
  <2> QED
    BY <1>1, <1>6, <1>7, <1>9, <2>1 DEF Good, GroupsGood
<1>11. u \in DOMAIN entries' => entries'[u].naming = db'[p].name
  BY <1>1, <1>2, <1>6, <1>9 DEF Good, EntryGood
<1>12. r = AskMail(u, db'[p].mail)
  BY <1>2, <1>3
<1> QED
  BY <1>1, <1>6, <1>7, <1>8, <1>10, <1>11, <1>12 DEF Remailing, NoOps

LEMMA RenameCalm ==
    ASSUME FormInv, Settled, NEW p \in Persons, ~db[p].gone, Rename(p)
    PROVE  \E e, old, u : Renaming(e, old, u)'
<1>1. PICK name, old, u : /\ name = db[p].name + 1 /\ name # db[p].name
                          /\ old = Uid(p) /\ old = <<p, db[p].name>> /\ u = <<p, name>>
  <2>1. db[p].name \in Nat
    BY DEF FormInv, DbFormed, RowFormed
  <2>2. db[p].name + 1 # db[p].name
    BY <2>1
  <2> QED
    BY <2>2 DEF Uid
<1>2. /\ Live(old) /\ old[1] = p /\ u[1] = p /\ u[2] = name /\ old # u
      /\ old = <<u[1], old[2]>>
  <2>1. PICK was : was = db[p].name
    OBVIOUS
  <2>2. old = <<p, was>> /\ u = <<p, name>> /\ was # name
    BY <1>1, <2>1
  <2>3. old[1] = p /\ u[1] = p /\ u[2] = name /\ old[2] = was
    BY <2>2
  <2>4. Live(old)
    BY <1>1, LiveNow
  <2> QED
    BY <2>2, <2>3, <2>4
<1>3. /\ \A q \in Persons : q # p => db'[q] = db[q]
      /\ db'[p].name = name /\ db'[p].mail = db[p].mail
      /\ db'[p].gone = db[p].gone /\ db'[p].kontexte = db[p].kontexte
  <2> DEFINE x == [db[p] EXCEPT !.name = name]
  <2>1. db' = [db EXCEPT ![p] = x]
    BY <1>1 DEF Rename
  <2>2. x.name = name /\ x.mail = db[p].mail /\ x.gone = db[p].gone /\ x.kontexte = db[p].kontexte
    BY DEF FormInv, DbFormed, RowFormed, DbFields
  <2> HIDE DEF x
  <2> QED
    BY <2>1, <2>2 DEF FormInv, DbFormed
<1>4. PICK r : r = AskRename(old, u)
  OBVIOUS
<1>5. PICK n : n = Event(p, <<{r}>>) /\ n.plan = <<{r}>>
  <2>1. Event(p, <<{r}>>).plan = <<{r}>>
    BY DEF Event
  <2> QED
    BY <2>1
<1>6. PICK e : Starting(e, n)
  <2>1. r = [Request("modify", Uid(p)) EXCEPT !.new = db[p].name + 1]
    BY <1>1, <1>2, <1>4 DEF AskRename
  <2>2. Quiet /\ Publish(<<n>>)
    BY <1>5, <2>1 DEF Rename, Settled
  <2> QED
    BY <2>2, PublishOne
<1>7. Working({e})' /\ NoOps' /\ UNCHANGED <<entries, groups>> /\ events'[e].plan = <<{r}>>
  <2>1. Short(n.plan)
    BY <1>5 DEF Short
  <2> QED
    BY <1>5, <1>6, <2>1, StartingWorks DEF Starting
<1>8. Live(u)'
  BY <1>1, <1>2, <1>3 DEF Live, Uid
<1>9. ASSUME NEW v, v \notin {old, u} PROVE Good(v)'
  <2>1. Good(v)
    BY DEF Settled
  <2>2. CASE v[1] = p
    <3>1. ~Live(v) /\ ~Live(v)'
      BY <1>1, <1>3, <1>9, <2>2 DEF Live, Uid
    <3> QED
      BY <1>7, <2>1, <3>1, GoodStays DEF SameEntry, SameGroups
  <2>3. CASE v[1] # p
    <3>1. v[1] \in Persons => SameRow(v[1])
      BY <1>3, <2>3 DEF SameRow
    <3> QED
      BY <1>7, <2>1, <3>1, GoodSame DEF SameEntry, SameGroups
  <2> QED
    BY <2>2, <2>3
<1>10. BeforeRename(old, u)'
  <2>1. ~Live(u) /\ Good(u) /\ Good(old)
    BY <1>1, <1>2 DEF Live, Uid, Settled
  <2>2. u \notin DOMAIN entries /\ \A s \in Schools : u \notin groups[s]
    BY <2>1 DEF Good, GroupsGood
  <2>3. /\ old \in DOMAIN entries => entries[old].mail \in {"", db[p].mail}
        /\ \A s \in Schools : /\ old \in groups[s] <=> Teaches(p, s)
                              /\ old \in groups[s] => old \in DOMAIN entries
    BY <1>2, <2>1 DEF Good, EntryGood, MailGood, GroupsGood
  <2>4. \A s : Teaches(u[1], s)' <=> Teaches(p, s)
    BY <1>2, <1>3 DEF Teaches
  <2> QED
    BY <1>2, <1>3, <1>7, <2>2, <2>3, <2>4 DEF BeforeRename
<1>11. Renaming(e, old, u)'
  BY <1>2, <1>4, <1>7, <1>8, <1>9, <1>10 DEF Renaming
<1> QED
  BY <1>11

LEMMA DeleteCalm ==
    ASSUME FormInv, Settled, NEW p \in Persons, ~db[p].gone, DeletePerson(p)
    PROVE  \E e, d, u : Deleting(e, d, u)'
<1>1. PICK u, old : u = Uid(p) /\ u[1] = p /\ Live(u) /\ old = db[p].kontexte
  BY LiveNow
<1>2. old \subseteq Kontexte
  BY <1>1 DEF FormInv, DbFormed, RowFormed
<1>3. /\ \A q \in Persons : q # p => db'[q] = db[q]
      /\ db'[p].name = db[p].name /\ db'[p].gone /\ db'[p].kontexte = {}
  <2> DEFINE x == [db[p] EXCEPT !.gone = TRUE, !.kontexte = {}]
  <2>1. db' = [db EXCEPT ![p] = x]
    BY DEF DeletePerson
  <2>2. x.name = db[p].name /\ x.gone /\ x.kontexte = {}
    BY DEF FormInv, DbFormed, RowFormed, DbFields
  <2> HIDE DEF x
  <2> QED
    BY <2>1, <2>2 DEF FormInv, DbFormed
<1>4. PICK a, r : a = Removals(u, old, {}) /\ r = Request("delete", u)
  OBVIOUS
<1>5. PICK n, k : /\ n = Event(p, <<a>>) /\ n.plan = <<a>>
                  /\ k = Event(p, <<{r}>>) /\ k.plan = <<{r}>>
  <2>1. Event(p, <<a>>).plan = <<a>> /\ Event(p, <<{r}>>).plan = <<{r}>>
    BY DEF Event
  <2> QED
    BY <2>1
<1>6. PICK e, d : StartingTwo(e, d, n, k)
  <2>1. Quiet /\ Publish(<<n, k>>)
    BY <1>1, <1>4, <1>5 DEF DeletePerson, Settled
  <2> QED
    BY <2>1, PublishTwo
<1> USE DEF StartingTwo
<1>7. Working({e, d})'
  <2>1. Short(<<>>) /\ Short(n.plan) /\ Short(k.plan)
    BY <1>5 DEF Short
  <2>2. \A i \in DOMAIN events : events'[i].plan = <<>>
    BY <1>6, OverFields
  <2> QED
    BY <1>6, <2>1, <2>2 DEF Working
<1>8. \A x : (Due(e, x)' <=> x \in a) /\ (Due(d, x)' <=> x = r)
  <2>1. \A x : Due(e, x)' <=> Planned(n.plan, x)
    BY <1>6 DEF Due
  <2>2. \A x : Due(d, x)' <=> Planned(k.plan, x)
    BY <1>6 DEF Due
  <2>3. \A x : Planned(n.plan, x) <=> x \in a
    BY <1>5, PlannedWhen
  <2>4. \A x : Planned(k.plan, x) <=> x = r
    BY <1>5, OnePlanned
  <2> QED
    BY <2>1, <2>2, <2>3, <2>4
<1>9. Besides(u)'
  BY <1>1, <1>3, <1>6, GoodBesides
<1>10. Good(u)
  BY DEF Settled
<1>11. ASSUME NEW x, Due(e, x)' PROVE \E s \in Schools : RemovesAt(u, s, x)
  <2>1. PICK l \in old : RemovesAt(u, l.school, x)
    BY <1>4, <1>8, <1>11, RemovalsAsk
  <2> QED
    BY <1>2, <2>1 DEF Schools
<1>12. ASSUME NEW s \in Schools, u \in groups'[s] PROVE \E x : Due(e, x)' /\ RemovesAt(u, s, x)
  <2>1. PICK l \in old : l.school = s /\ Lehr(l)
    BY <1>1, <1>6, <1>10, <1>12 DEF Good, GroupsGood, Teaches
  <2>2. \E x \in a : RemovesAt(u, s, x)
    <3>1. ~\E c \in {} : c.school = l.school
      OBVIOUS
    <3> QED
      BY <1>4, <2>1, <3>1, RemovalsAsk
  <2> QED
    BY <1>8, <2>2
<1>13. u[1] \in Persons /\ db'[u[1]].gone /\ db'[u[1]].kontexte = {}
  BY <1>1, <1>3
<1>14. Deleting(e, d, u)'
  BY <1>4, <1>6, <1>7, <1>8, <1>9, <1>11, <1>12, <1>13 DEF Deleting, RemovesAt
<1> QED
  BY <1>14

LEMMA SyncCalm ==
    ASSUME FormInv, Settled, NEW p \in Persons, ~db[p].gone, Sync(p)
    PROVE  \E u : Resyncing(u)'
<1>1. PICK u : u = Uid(p) /\ u[1] = p /\ Live(u)
  BY LiveNow
<1>2. PICK n : n = Event(p, <<{AskAttributes(u)}>>)
  OBVIOUS
<1>3. n.mail = "" /\ Quiet /\ synced' = p /\ UNCHANGED db
  BY <1>2 DEF Event, Sync, Settled
<1>4. PICK e : Starting(e, n)
  <2>1. Publish(<<n>>)
    BY <1>1, <1>2 DEF Sync, AskAttributes
  <2> QED
    BY <1>3, <2>1, PublishOne
<1>5. UNCHANGED <<entries, groups>> /\ DOMAIN ops' = {}
  BY <1>4 DEF Starting
<1>6. /\ Live(u)' /\ (\A v : Good(v)') /\ EntryGood(u)' /\ GroupsGood(u)'
      /\ \A s : Teaches(p, s)' <=> Teaches(p, s)
  BY <1>1, <1>3, <1>5, NothingChanges DEF Settled, Good
<1>7. \A d \in DOMAIN events' : events'[d].mail = ""
  BY <1>3, <1>4, OverFields DEF Starting
<1>8. \A s \in Schools : /\ u \in groups'[s] <=> Teaches(u[1], s)'
                         /\ u \in groups'[s] => u \in DOMAIN entries'
  BY <1>6 DEF GroupsGood
<1>9. Resyncing(u)'
  BY <1>1, <1>3, <1>5, <1>6, <1>7, <1>8 DEF Resyncing, Besides
<1> QED
  BY <1>9

-----------------------------------------------------------------------------
(* All together.                                                            *)

LEMMA PublishCalm ==
    ASSUME FormInv, SyncInv, CalmInv, \A k \in Kontexte : Lehr(k), Publishes
    PROVE  CalmInv'
<1>1. PICK p \in Persons :
          /\ ~db[p].gone
          /\ \/ \E kontexte \in SUBSET Kontexte : Update(p, kontexte)
             \/ Rename(p)
             \/ \E mail \in Mails : ChangeMail(p, mail)
             \/ DeletePerson(p)
             \/ Sync(p)
  BY Zenon DEF Publishes
<1>2. \E new : Publish(new)
  BY <1>1 DEF Update, Rename, ChangeMail, DeletePerson, Sync
<1>3. troubles \in Nat
  BY DEF CalmInv
<1>4. CASE ~Quiet
  <2>1. troubles' = troubles + 1
    BY <1>2, <1>4 DEF Publish
  <2> QED
    BY <1>3, <2>1 DEF CalmInv
<1>5. CASE Quiet
  <2>1. troubles' = troubles
    BY <1>2, <1>5 DEF Publish
  <2>2. ASSUME troubles = 0 PROVE Calmly'
    <3>1. Settled
      BY <1>5, <2>2, QuietSettled DEF CalmInv
    <3>2. CASE \E kontexte \in SUBSET Kontexte : Update(p, kontexte)
      <4>1. \E e, u : Changing(e, u)'
        BY <1>1, <3>1, <3>2, UpdateCalm
      <4> QED
        BY <4>1 DEF Calmly
    <3>3. CASE Rename(p)
      <4>1. \E e, old, u : Renaming(e, old, u)'
        BY <1>1, <3>1, <3>3, RenameCalm
      <4> QED
        BY <4>1 DEF Calmly
    <3>4. CASE \E mail \in Mails : ChangeMail(p, mail)
      <4>1. \E e, u : Remailing(e, u)'
        BY <1>1, <3>1, <3>4, MailCalm
      <4> QED
        BY <4>1 DEF Calmly
    <3>5. CASE DeletePerson(p)
      <4>1. \E e, d, u : Deleting(e, d, u)'
        BY <1>1, <3>1, <3>5, DeleteCalm
      <4> QED
        BY <4>1 DEF Calmly
    <3>6. CASE Sync(p)
      <4>1. \E u : Resyncing(u)'
        BY <1>1, <3>1, <3>6, SyncCalm
      <4> QED
        BY <4>1 DEF Calmly
    <3> QED
      BY <1>1, <3>2, <3>3, <3>4, <3>5, <3>6
  <2> QED
    BY <1>3, <2>1, <2>2 DEF CalmInv
<1> QED
  BY <1>4, <1>5

\* Only a call that fails is trouble for an operation.
LEMMA TroublesSame ==
    ASSUME NEW o, Step(o), ~CallFails PROVE troubles' = troubles
<1>1. CASE Search(o) \/ Lookup(o) \/ ReadUuid(o) \/ CopyMembers(o) \/ GroupsFound(o) \/ Store(o)
  BY <1>1 DEF Search, Lookup, ReadUuid, CopyMembers, GroupsFound, Store, luck
<1>2. \A pc : Answered(o, pc) => troubles' = troubles
  BY DEF Answered, luck
<1>3. Refused(o) => troubles' = troubles
  BY DEF Refused, luck
<1>4. CASE AddMember(o) \/ RemoveMember(o) \/ Insert(o) \/ ModifyNames(o) \/ ModifyDn(o)
           \/ Delete(o) \/ Primary(o) \/ Alternative(o)
  BY <1>2, <1>3, <1>4 DEF AddMember, RemoveMember, Insert, ModifyNames, ModifyDn, Delete, Primary,
                          Alternative
<1>5. CASE \E s \in Schools : Replace(o, s)
  BY <1>5 DEF Replace, luck
<1> QED
  BY <1>1, <1>4, <1>5 DEF Step, CallLost

LEMMA StepCalm ==
    ASSUME MutexInv, FormInv, SyncInv, CalmInv, NEW o \in DOMAIN ops, Step(o)
    PROVE  CalmInv'
<1>1. troubles \in Nat
  BY DEF CalmInv
<1>2. CASE CallFails
  <2>1. troubles' = troubles + 1
    BY <1>2 DEF CallFails
  <2> QED
    BY <1>1, <2>1 DEF CalmInv
<1>3. CASE ~CallFails
  <2>1. troubles' = troubles
    BY <1>3, TroublesSame
  <2>2. ASSUME Calmly PROVE Calmly'
    <3>1. ~Settled
      BY DEF Settled, Quiet
    <3>2. ASSUME NEW u, Resyncing(u) PROVE Calmly'
      <4>1. Resyncing(u)'
        BY <1>3, <3>2, ResyncingStep
      <4> QED
        BY <4>1 DEF Calmly
    <3>3. ASSUME NEW e, NEW u, Changing(e, u) PROVE Calmly'
      <4>1. Changing(e, u)'
        BY <1>3, <3>3, ChangingStep
      <4> QED
        BY <4>1 DEF Calmly
    <3>4. ASSUME NEW e, NEW u, Remailing(e, u) PROVE Calmly'
      <4>1. Remailing(e, u)'
        BY <1>3, <3>4, RemailingStep
      <4> QED
        BY <4>1 DEF Calmly
    <3>5. ASSUME NEW e, NEW old, NEW u, Renaming(e, old, u) PROVE Calmly'
      <4>1. Renaming(e, old, u)'
        BY <1>3, <3>5, RenamingStep
      <4> QED
        BY <4>1 DEF Calmly
    <3>6. ASSUME NEW e, NEW d, NEW u, Deleting(e, d, u) PROVE Calmly'
      <4>1. Deleting(e, d, u)'
        BY <1>3, <3>6, DeletingStep
      <4> QED
        BY <4>1 DEF Calmly
    <3> QED
      BY <2>2, <3>1, <3>2, <3>3, <3>4, <3>5, <3>6 DEF Calmly
  <2> QED
    BY <1>1, <2>1, <2>2 DEF CalmInv
<1> QED
  BY <1>2, <1>3

LEMMA HandledCalm ==
    ASSUME FormInv, SyncInv, CalmInv, NEW a \in DOMAIN events, Handles(a)
    PROVE  CalmInv'
<1>1. troubles' = troubles
  BY DEF Handles, Advance, Return, luck
<1>2. ASSUME Calmly PROVE Calmly'
  <2>1. ~Settled
    BY OverFields DEF Settled, Quiet, Handles, Advance, Return
  <2>2. ASSUME NEW u, Resyncing(u) PROVE Calmly'
    <3>1. Resyncing(u)'
      BY <2>2, ResyncingHandled
    <3> QED
      BY <3>1 DEF Calmly
  <2>3. ASSUME NEW e, NEW u, Changing(e, u) PROVE Calmly'
    <3>1. Changing(e, u)'
      BY <2>3, ChangingHandled
    <3> QED
      BY <3>1 DEF Calmly
  <2>4. ASSUME NEW e, NEW u, Remailing(e, u) PROVE Calmly'
    <3>1. Remailing(e, u)'
      BY <2>4, RemailingHandled
    <3> QED
      BY <3>1 DEF Calmly
  <2>5. ASSUME NEW e, NEW old, NEW u, Renaming(e, old, u) PROVE Calmly'
    <3>1. Renaming(e, old, u)'
      BY <2>5, RenamingHandled
    <3> QED
      BY <3>1 DEF Calmly
  <2>6. ASSUME NEW e, NEW d, NEW u, Deleting(e, d, u) PROVE Calmly'
    <3>1. Deleting(e, d, u)'
      BY <2>6, DeletingHandled
    <3> QED
      BY <3>1 DEF Calmly
  <2> QED
    BY <1>2, <2>1, <2>2, <2>3, <2>4, <2>5, <2>6 DEF Calmly
<1> QED
  BY <1>1, <1>2 DEF CalmInv

LEMMA IdleCalm == ASSUME CalmInv, UNCHANGED vars PROVE CalmInv'
<1>1. UNCHANGED <<db, entries, groups, ops, events, troubles, synced>>
  BY DEF vars, luck
<1>2. /\ \A v : Good(v)' <=> Good(v)
      /\ \A v : Live(v)' <=> Live(v)
      /\ \A v : EntryGood(v)' <=> EntryGood(v)
      /\ \A v : MailGood(v)' <=> MailGood(v)
      /\ \A v : GroupsGood(v)' <=> GroupsGood(v)
      /\ \A v : Besides(v)' <=> Besides(v)
      /\ \A p, s : Teaches(p, s)' <=> Teaches(p, s)
  BY <1>1, NothingChanges
<1>3. /\ \A e, r : Due(e, r)' <=> Due(e, r)
      /\ \A E : Working(E)' <=> Working(E)
      /\ Quiet' <=> Quiet
      /\ NoOps' <=> NoOps
      /\ \A o : Only(o)' <=> Only(o)
  BY <1>1 DEF Due, Working, Quiet, NoOps, Only
<1>4. \A u, o : /\ RemovalSound(u, o)' <=> RemovalSound(u, o)
                /\ CreationSound(u, o)' <=> CreationSound(u, o)
  BY <1>1 DEF RemovalSound, CreationSound
<1>5. Settled => Settled'
  BY <1>2, <1>3 DEF Settled
<1>6. ASSUME NEW u, Resyncing(u) PROVE Calmly'
  <2>1. Resyncing(u)'
    BY <1>1, <1>2, <1>6 DEF Resyncing
  <2> QED
    BY <2>1 DEF Calmly
<1>7. ASSUME NEW e, NEW u, Changing(e, u) PROVE Calmly'
  <2>1. Changing(e, u)'
    BY <1>1, <1>2, <1>3, <1>4, <1>7 DEF Changing
  <2> QED
    BY <2>1 DEF Calmly
<1>8. ASSUME NEW e, NEW u, Remailing(e, u) PROVE Calmly'
  <2>1. Remailing(e, u)'
    BY <1>1, <1>2, <1>3, <1>8 DEF Remailing
  <2> QED
    BY <2>1 DEF Calmly
<1>9. ASSUME NEW e, NEW old, NEW u, Renaming(e, old, u) PROVE Calmly'
  <2>1. \A a, b : BeforeRename(a, b)' <=> BeforeRename(a, b)
    BY <1>1, <1>2 DEF BeforeRename
  <2>2. \A a, b : EntryRenamed(a, b)' <=> EntryRenamed(a, b)
    BY <1>1, <1>2 DEF EntryRenamed
  <2>3. \A o : RenameOn(o, old, u) => RenameOn(o, old, u)'
    BY <1>1, <1>2, <1>3, <2>1, <2>2 DEF RenameOn, RenameAt
  <2>4. Renaming(e, old, u)'
    BY <1>1, <1>2, <1>3, <1>9, <2>1, <2>3 DEF Renaming
  <2> QED
    BY <2>4 DEF Calmly
<1>10. ASSUME NEW e, NEW d, NEW u, Deleting(e, d, u) PROVE Calmly'
  <2>1. Deleting(e, d, u)'
    BY <1>1, <1>2, <1>3, <1>4, <1>10 DEF Deleting
  <2> QED
    BY <2>1 DEF Calmly
<1> QED
  BY <1>1, <1>5, <1>6, <1>7, <1>8, <1>9, <1>10 DEF CalmInv, Calmly

LEMMA NoneThere == \A f : f = <<>> => DOMAIN f = {}
OBVIOUS

LEMMA InitCalm == ASSUME Init PROVE CalmInv
<1>1. PICK has \in [Persons -> SUBSET Kontexte],
           addressed \in [Persons -> Mails \cup {""}],
           left \in SUBSET (Persons \X Schools) :
         /\ \A l \in left : \A k \in has[l[1]] : k.school # l[2]
         /\ Cardinality(left) <= MaxTroubles
         /\ troubles = Cardinality(left)
         /\ db = [p \in Persons |->
                [name |-> 1, kontexte |-> has[p], mail |-> addressed[p], old |-> {},
                 uuid |-> \/ \E k \in has[p] : Lehr(k)
                          \/ \E s \in Schools : <<p, s>> \in left,
                 gone |-> FALSE]]
         /\ groups = [s \in Schools |-> {Uid(p) : p \in
                {x \in Persons : Teaches(x, s) \/ <<x, s>> \in left}}]
  BY Zenon DEF Init
<1>2. IsFiniteSet(left)
  <2> DEFINE f == [k \in Kontexte |-> k.school]
  <2>1. f \in Surjection(Kontexte, Schools)
    BY DEF Surjection, Schools
  <2>2. IsFiniteSet(Schools)
    BY <2>1, LdapAssumption, FS_Surjection
  <2>3. IsFiniteSet(Persons \X Schools)
    BY <2>2, LdapAssumption, FS_Product
  <2> QED
    BY <2>3, FS_Subset
<1>3. troubles \in Nat
  BY <1>1, <1>2, FS_CardinalityType
<1>4. ASSUME troubles = 0 PROVE Settled
  <2>1. left = {}
    BY <1>1, <1>2, <1>4, FS_EmptySet
  <2>2. Quiet
    <3>1. ops = <<>> /\ events = <<>>
      BY DEF Init
    <3> QED
      BY <3>1, NoneThere DEF Quiet
  <2>3. \A p \in Persons : /\ db[p].name = 1 /\ ~db[p].gone
                           /\ db[p].uuid <=> \E k \in db[p].kontexte : Lehr(k)
    <3> DEFINE row(p) ==
            [name |-> 1, kontexte |-> has[p], mail |-> addressed[p], old |-> {},
             uuid |-> \/ \E k \in has[p] : Lehr(k)
                      \/ \E s \in Schools : <<p, s>> \in left,
             gone |-> FALSE]
    <3>1. db = [p \in Persons |-> row(p)]
      BY Zenon, <1>1
    <3>2. \A p \in Persons : /\ row(p).name = 1 /\ row(p).gone = FALSE
                             /\ row(p).kontexte = has[p]
                             /\ row(p).uuid <=> \E k \in has[p] : Lehr(k)
      BY <2>1
    <3> HIDE DEF row
    <3> QED
      BY <3>1, <3>2
  <2>4. \A s \in Schools : groups[s] = {Uid(p) : p \in {x \in Persons : Teaches(x, s)}}
    BY <1>1, <2>1
  <2>5. \A p \in Persons : Uid(p)[1] = p
    BY DEF Uid
  <2>6. entries = [u \in {Uid(p) : p \in {x \in Persons : db[x].uuid}} |-> Entry(1, db[u[1]].mail)]
    BY DEF Init
  <2>7. ASSUME NEW v PROVE Good(v)
    <3>1. ASSUME v \in DOMAIN entries PROVE Live(v) /\ EntryGood(v)
      <4>1. PICK p \in Persons : v = Uid(p) /\ entries[v] = Entry(1, db[v[1]].mail)
        BY <2>6, <3>1
      <4>2. v[1] = p
        BY <2>5, <4>1
      <4>3. entries[v].naming = 1 /\ entries[v].mail = db[v[1]].mail
        <5>1. PICK n, m : n = 1 /\ m = db[v[1]].mail
          OBVIOUS
        <5>2. entries[v] = Entry(n, m)
          BY <4>1, <5>1
        <5>3. Entry(n, m).naming = n /\ Entry(n, m).mail = m
          BY EntryHas
        <5> QED
          BY Zenon, <5>1, <5>2, <5>3
      <4> QED
        BY <2>3, <4>1, <4>2, <4>3 DEF Live, EntryGood, MailGood
    <3>2. ASSUME NEW s \in Schools PROVE v \in groups[s] <=> Live(v) /\ Teaches(v[1], s)
      <4>1. v \in groups[s] <=> \E p \in Persons : v = Uid(p) /\ Teaches(p, s)
        BY <2>4
      <4>2. ASSUME NEW p \in Persons, v = Uid(p) PROVE v[1] = p
        BY <2>5, <4>2
      <4> QED
        BY <2>3, <4>1, <4>2 DEF Live
    <3>3. ASSUME NEW s \in Schools, Live(v), Teaches(v[1], s) PROVE v \in DOMAIN entries
      BY <2>3, <2>6, <3>3 DEF Live, Teaches
    <3> QED
      BY <3>1, <3>2, <3>3 DEF Good, GroupsGood, EntryGood
  <2> QED
    BY <2>2, <2>7 DEF Settled
<1> QED
  BY <1>3, <1>4 DEF CalmInv, Calmly

\* Where every Rolle is a teacher's, the directory mirrors the database when
\* no call has failed and every event was handled before the next one came:
\* the groups hold the teachers of the living and nobody else, and every
\* entry has the current username and an address the person has
\* (ldap-event-handler.ts with ldap-client.service.ts).
THEOREM CalmStillMirrors ==
    ASSUME \A k \in Kontexte : Lehr(k) PROVE Spec => []CalmMirrors
<1> DEFINE Inv == MutexInv /\ FormInv /\ SyncInv /\ CalmInv
<1>1. Init => Inv
  <2>1. Init => SyncInv
    BY DEF Init, SyncInv
  <2> QED
    BY <2>1, InitLooks, InitForms, InitCalm
<1>2. Inv /\ [Next]_vars => Inv'
  <2> SUFFICES ASSUME Inv, [Next]_vars PROVE CalmInv'
    BY MutexInductive, FormInductive, SyncInductive
  <2>1. CASE UNCHANGED vars
    BY <2>1, IdleCalm
  <2>2. CASE Publishes
    BY <2>2, PublishCalm
  <2>3. ASSUME NEW e \in DOMAIN events, Advance(e) \/ Return(e) PROVE CalmInv'
    BY <2>3, HandledCalm DEF Handles
  <2>4. ASSUME NEW o \in DOMAIN ops, Step(o) PROVE CalmInv'
    BY <2>4, StepCalm
  <2> QED
    BY <2>1, <2>2, <2>3, <2>4 DEF Next, Idle
<1>3. Inv => CalmMirrors
  <2> SUFFICES ASSUME Inv PROVE CalmMirrors
    OBVIOUS
  <2>1. CASE Calm
    <3>1. Settled
      BY <2>1, QuietSettled DEF Calm, CalmInv
    <3> QED
      BY <3>1, SettledMirrors
  <2>2. CASE ~Calm
    BY <2>2 DEF CalmMirrors, TeachersOnly
  <2> QED
    BY <2>1, <2>2
<1> QED
  BY <1>1, <1>2, <1>3, PTL DEF Spec
=============================================================================
