------------------------ MODULE PersonAccounts_proofs ------------------------
(***************************************************************************)
(* Proofs about persons and their accounts, for any number of persons,     *)
(* requests under way and failures, and about the locks on one person,     *)
(* which have state of their own.                                          *)
(***************************************************************************)
EXTENDS PersonAccounts, UserLocks, FiniteSetTheorems, WellFoundedInduction, TLAPS

-----------------------------------------------------------------------------
(* Usernames.                                                              *)

\* A non-empty set of natural numbers has a least element, which is its Min.
LEMMA MinIsMember ==
    ASSUME NEW S, S \subseteq Nat, S # {} PROVE Min(S) \in S
<1> DEFINE R == {ss \in Nat \X Nat : ss[1] < ss[2]}
<1>1. IsWellFoundedOn(R, Nat)
  BY NatLessThanWellFounded DEF OpToRel
<1>2. PICK x \in S : \A y \in S : ~(<<y, x>> \in R)
  <2> HIDE DEF R
  <2>1. \E x \in S : \A y \in S : ~(<<y, x>> \in R)
    BY <1>1, WFMin
  <2> QED
    BY <2>1
<1>3. \A y \in S : x <= y
  <2> SUFFICES ASSUME NEW y \in S, y < x PROVE FALSE
    BY x \in Nat
  <2> DEFINE ss == <<y, x>>
  <2>1. ss \in Nat \X Nat /\ ss[1] = y /\ ss[2] = x
    OBVIOUS
  <2>2. ss \in R
    BY <2>1
  <2> QED
    BY <1>2, <2>2
<1> QED
  BY <1>2, <1>3 DEF Min

\* There are more counters than persons, so one is free.
LEMMA FreeUsernameTyped ==
    ASSUME AccountsAssumption, NEW base \in Bases PROVE FreeUsername(base) \in Username
<1> DEFINE free == {n \in 0 .. MaxCounter : ~Taken(<<base, n>>)}
<1>1. MaxCounter \in Nat
  BY FS_CardinalityType DEF MaxCounter, AccountsAssumption
<1>2. free # {}
  <2> SUFFICES ASSUME \A n \in 0 .. MaxCounter : Taken(<<base, n>>) PROVE FALSE
    OBVIOUS
  <2> DEFINE holder == [n \in 0 .. MaxCounter |-> CHOOSE p \in Persons : HeldBy(p, <<base, n>>)]
  <2>1. \A n \in 0 .. MaxCounter : holder[n] \in Persons /\ users[holder[n]] = <<base, n>>
    BY DEF Taken, HeldBy
  <2>2. holder \in [0 .. MaxCounter -> Persons]
    BY <2>1
  <2>3. \A m, n \in 0 .. MaxCounter : holder[m] = holder[n] => m = n
    <3> SUFFICES ASSUME NEW m \in 0 .. MaxCounter, NEW n \in 0 .. MaxCounter,
                        holder[m] = holder[n]
                 PROVE  m = n
      OBVIOUS
    <3>1. <<base, m>> = <<base, n>>
      BY <2>1
    <3> QED
      BY <3>1
  <2> HIDE DEF holder
  <2>4. holder \in Injection(0 .. MaxCounter, Persons)
    BY <2>2, <2>3 DEF Injection, IsInjective
  <2>5. Cardinality(0 .. MaxCounter) <= Cardinality(Persons)
    BY <2>4, FS_Injection DEF AccountsAssumption
  <2>6. Cardinality(0 .. MaxCounter) = MaxCounter + 1
    BY <1>1, FS_Interval
  <2> QED
    BY <1>1, <2>5, <2>6 DEF MaxCounter
<1>3. free \subseteq Nat
  BY <1>1
<1>4. Min(free) \in free
  <2> HIDE DEF free
  <2> QED BY <1>2, <1>3, MinIsMember
<1> QED
  BY <1>1, <1>4 DEF FreeUsername, Username

-----------------------------------------------------------------------------
(* Types.                                                                  *)

Pcs == {"load", "number", "find", "user", "password", "undo", "commit",
        "generate", "rename", "save", "row"}

Request == [pc : Pcs, op : {"create", "change", "delete", "put"}, id : Persons, name : Names,
            nummer : Nummern \cup {NoNummer}, page : Nat, row : Row \cup {NoRow},
            username : Username \cup {NoUser}, user : Persons]

\* A creation that goes on has a username, a change or a PUT the row it has read
\* as well.
Equipped(c) ==
    /\ c.op \in {"create", "change", "put"} /\ c.pc # "load" => c.username \in Username
    /\ c.op \in {"change", "put"} /\ c.pc # "load" => c.row \in Row
    /\ c.op = "put" => c.nummer = NoNummer

RequestState == {Idle} \cup {c \in Request : Equipped(c)}

CallsOK == call \in [Requests -> RequestState]

TypeInv == TypeOK /\ CallsOK

\* Busy requests are requests.
LEMMA BusyIsRequest ==
    ASSUME CallsOK, NEW r \in Requests, Busy(r)
    PROVE  call[r] \in Request /\ Equipped(call[r])
BY DEF CallsOK, RequestState, Busy

\* A request is not an idle call.
LEMMA RequestNotIdle == ASSUME NEW c \in Request PROVE c # Idle
<1>1. c.pc # "idle"
  BY DEF Request, Pcs
<1> QED
  BY <1>1 DEF Idle

\* A request that ends leaves the others as they are.
LEMMA EndKeepsCalls == ASSUME CallsOK, NEW r \in Requests, End(r) PROVE CallsOK'
BY DEF CallsOK, End, RequestState

\* A request that goes on keeps what it is equipped with.
LEMMA GoKeepsCalls ==
    ASSUME CallsOK, NEW r \in Requests, Busy(r), NEW pc \in Pcs, Go(r, pc),
           call[r].pc # "load" \/ call[r].op = "delete"
    PROVE  CallsOK'
<1> DEFINE d == [call[r] EXCEPT !.pc = pc]
<1>1. call[r] \in Request /\ Equipped(call[r])
  BY BusyIsRequest
<1>2. d \in Request
  BY <1>1 DEF Request
<1>3. Equipped(d)
  BY <1>1 DEF Equipped, Request
<1>4. call' = [call EXCEPT ![r] = d]
  BY DEF Go, CallsOK
<1> HIDE DEF d
<1> QED
  BY <1>2, <1>3, <1>4 DEF CallsOK, RequestState

\* The initial state.
LEMMA InitTyped == ASSUME AccountsAssumption, Init PROVE TypeInv
<1>1. MaxCounter \in Nat
  BY FS_CardinalityType DEF MaxCounter, AccountsAssumption
<1>2. CallsOK
  BY DEF Init, CallsOK, RequestState
<1>3. broken \subseteq Persons /\ calls \in 0 .. MaxCalls /\ failures \in 0 .. MaxFailures
  BY DEF Init, AccountsAssumption
<1>4. \A p \in Persons : rows[p] \in Row \cup {NoRow}
  <2> SUFFICES ASSUME NEW p \in Persons PROVE rows[p] \in Row \cup {NoRow}
    OBVIOUS
  <2>1. MaxCounter > 0
    BY <1>1, FS_EmptySet DEF MaxCounter, AccountsAssumption
  <2> QED
    BY <1>1, <2>1 DEF Init, Row, Username
<1>5. rows \in [Persons -> Row \cup {NoRow}]
  BY <1>4 DEF Init
<1>6. \A p \in Persons : users[p] = IF Exists(p) THEN rows[p].username ELSE NoUser
  BY DEF Init
<1>7. users \in [Persons -> Username \cup {NoUser}]
  BY <1>4, <1>6 DEF Init, Row, Exists
<1>8. ASSUME NEW p \in Persons, NEW q \in Persons, p # q
      PROVE  /\ users[p] = users[q] => users[p] = NoUser
             /\ Exists(p) /\ Exists(q) /\ rows[p].nummer = rows[q].nummer
                => rows[p].nummer = NoNummer
  <2>1. Exists(p) /\ Exists(q) =>
          /\ rows[p].username # rows[q].username
          /\ rows[p].nummer # rows[q].nummer \/ rows[p].nummer = NoNummer
    BY <1>8 DEF Init
  <2> QED
    BY <1>6, <2>1
<1> QED
  BY <1>2, <1>3, <1>5, <1>7, <1>8 DEF TypeInv, TypeOK

TablesOK ==
    /\ rows \in [Persons -> Row \cup {NoRow}]
    /\ users \in [Persons -> Username \cup {NoUser}]
    /\ \A p, q \in Persons : p # q =>
        /\ users[p] = users[q] => users[p] = NoUser
        /\ Exists(p) /\ Exists(q) /\ rows[p].nummer = rows[q].nummer
           => rows[p].nummer = NoNummer

CountersOK ==
    calls \in 0 .. MaxCalls /\ failures \in 0 .. MaxFailures /\ broken \subseteq Persons

LEMMA TypeInvParts == TypeInv <=> TablesOK /\ CountersOK /\ CallsOK
BY DEF TypeInv, TypeOK, TablesOK, CountersOK

\* An account may be given a name that nobody else has.
LEMMA UserWritten ==
    ASSUME TablesOK, NEW p \in Persons, NEW u \in Username \cup {NoUser},
           users' = [users EXCEPT ![p] = u], UNCHANGED rows,
           u = NoUser \/ \A q \in Persons \ {p} : users[q] # u
    PROVE  TablesOK'
<1>1. users' \in [Persons -> Username \cup {NoUser}]
  BY DEF TablesOK
<1>2. ASSUME NEW a \in Persons, NEW b \in Persons, a # b, users'[a] = users'[b]
      PROVE  users'[a] = NoUser
  BY <1>2 DEF TablesOK
<1> QED
  BY <1>1, <1>2 DEF TablesOK, Exists

\* A row may be given a number that no other row has.
LEMMA RowWritten ==
    ASSUME TablesOK, NEW p \in Persons, NEW row \in Row \cup {NoRow},
           rows' = [rows EXCEPT ![p] = row], UNCHANGED users,
           \/ row = NoRow
           \/ row.nummer = NoNummer
           \/ \A q \in Persons \ {p} : Exists(q) => rows[q].nummer # row.nummer
    PROVE  TablesOK'
<1>1. rows' \in [Persons -> Row \cup {NoRow}]
  BY DEF TablesOK
<1>2. ASSUME NEW a \in Persons, NEW b \in Persons, a # b, rows'[a] # NoRow, rows'[b] # NoRow,
             rows'[a].nummer = rows'[b].nummer
      PROVE  rows'[a].nummer = NoNummer
  <2>1. CASE a = p
    BY <1>2, <2>1 DEF TablesOK, Exists
  <2>2. CASE b = p
    BY <1>2, <2>2 DEF TablesOK, Exists
  <2>3. CASE a # p /\ b # p
    BY <1>2, <2>3 DEF TablesOK, Exists
  <2> QED
    BY <2>1, <2>2, <2>3
<1> QED
  BY <1>1, <1>2 DEF TablesOK, Exists

LEMMA NothingWritten == ASSUME TablesOK, UNCHANGED <<rows, users>> PROVE TablesOK'
BY DEF TablesOK, Exists

\* The bounds and the history.
LEMMA FaultCounted ==
    ASSUME CountersOK, AccountsAssumption, Fault, broken' \subseteq Persons PROVE CountersOK'
BY DEF CountersOK, Fault, AccountsAssumption

LEMMA NothingCounted ==
    ASSUME CountersOK, UNCHANGED counters, broken' \subseteq Persons PROVE CountersOK'
BY DEF CountersOK, counters

LEMMA BreaksTyped ==
    ASSUME CountersOK, CallsOK, NEW r \in Requests, Busy(r), Breaks(r)
    PROVE  broken' \subseteq Persons
BY BusyIsRequest DEF CountersOK, Breaks, Request

LEMMA BeginTyped ==
    ASSUME AccountsAssumption, TypeInv, NEW r \in Requests, Ask(r) PROVE TypeInv'
<1>1. PICK op \in {"create", "change", "delete", "put"}, id \in Persons, name \in Names,
           nummer \in Nummern \cup {NoNummer}, page \in Nat :
        Begin(r, op, id, name, nummer, page) /\ (op = "put" => nummer = NoNummer)
  <2>1. CASE AskCreate(r)
    BY <2>1 DEF AskCreate
  <2>2. CASE AskChange(r)
    <3>1. PICK p \in Persons, name \in Names, nummer \in Nummern \cup {NoNummer} :
            /\ Exists(p)
            /\ \E page \in 1 .. rows[p].version : Begin(r, "change", p, name, nummer, page)
      BY <2>2 DEF AskChange
    <3>2. rows[p].version \in Nat
      BY <3>1 DEF Exists, TypeInv, TypeOK, Row
    <3> QED
      BY <3>1, <3>2
  <2>3. CASE AskDelete(r)
    <3>1. PICK p \in Persons : Exists(p) /\ Begin(r, "delete", p, rows[p].name, NoNummer, 0)
      BY <2>3 DEF AskDelete
    <3>2. rows[p].name \in Names
      BY <3>1 DEF Exists, TypeInv, TypeOK, Row
    <3> QED
      BY <3>1, <3>2
  <2>4. CASE AskPut(r)
    <3>1. PICK p \in Persons, name \in Names :
            /\ Exists(p)
            /\ \E page \in 1 .. rows[p].version : Begin(r, "put", p, name, NoNummer, page)
      BY <2>4 DEF AskPut
    <3>2. rows[p].version \in Nat
      BY <3>1 DEF Exists, TypeInv, TypeOK, Row
    <3> QED
      BY <3>1, <3>2
  <2> QED
    BY <2>1, <2>2, <2>3, <2>4 DEF Ask
<1> DEFINE d == [pc |-> "load", op |-> op, id |-> id, name |-> name, nummer |-> nummer,
                 page |-> page, row |-> NoRow, username |-> NoUser, user |-> id]
<1>2. d \in Request /\ Equipped(d)
  BY <1>1 DEF Request, Equipped, Pcs
<1>3. call' = [call EXCEPT ![r] = d]
  BY <1>1 DEF Begin
<1>4. CallsOK'
  <2> HIDE DEF d
  <2> QED
    BY <1>2, <1>3, TypeInvParts DEF CallsOK, RequestState
<1>5. CountersOK'
  BY <1>1, TypeInvParts DEF Begin, CountersOK, AccountsAssumption
<1>6. TablesOK'
  BY <1>1, TypeInvParts, NothingWritten DEF Begin
<1>7. TypeInv' <=> (TablesOK /\ CountersOK /\ CallsOK)'
  BY DEF TypeInv, TypeOK, TablesOK, CountersOK
<1> QED
  BY <1>4, <1>5, <1>6, <1>7

LEMMA CallWritten ==
    ASSUME CallsOK, NEW r \in Requests, NEW d \in Request, Equipped(d),
           call' = [call EXCEPT ![r] = d]
    PROVE  CallsOK'
BY DEF CallsOK, RequestState

\* A step of a creation keeps the types.
LEMMA CreateTyped ==
    ASSUME AccountsAssumption, TypeInv, NEW r \in Requests,
           \/ Generate(r) \/ CheckNumber(r) \/ FindUser(r) \/ CreateUser(r)
           \/ SetPassword(r) \/ Undo(r) \/ Commit(r)
    PROVE  TablesOK' /\ CountersOK' /\ CallsOK'
<1>1. TablesOK /\ CountersOK /\ CallsOK
  BY TypeInvParts
<1>2. Busy(r) /\ call[r].op = "create"
  BY DEF Generate, CheckNumber, FindUser, CreateUser, SetPassword, Undo, Commit, At
<1>3. call[r] \in Request /\ Equipped(call[r])
  BY <1>1, <1>2, BusyIsRequest
<1>4. call[r].id \in Persons /\ call[r].name \in Names /\ call[r].nummer \in Nummern \cup {NoNummer}
  BY <1>3 DEF Request
<1>5. call[r].pc # "load" => call[r].username \in Username
  BY <1>2, <1>3 DEF Equipped
<1>6. broken \subseteq Persons
  BY <1>1 DEF CountersOK
<1>7. CASE Generate(r)
  <2> DEFINE d == [call[r] EXCEPT !.pc = "number", !.username = FreeUsername(BaseOf[call[r].name])]
  <2>1. FreeUsername(BaseOf[call[r].name]) \in Username
    BY <1>4, FreeUsernameTyped DEF Bases
  <2> HIDE DEF FreeUsername
  <2>2. d \in Request /\ Equipped(d)
    BY <1>2, <1>3, <2>1 DEF Request, Equipped, Pcs
  <2>3. call' = [call EXCEPT ![r] = d]
    BY <1>1, <1>7 DEF Generate, CallsOK
  <2> HIDE DEF d
  <2>4. CallsOK'
    BY <1>1, <2>2, <2>3, CallWritten
  <2> QED
    BY <1>1, <1>6, <1>7, <2>4, NothingWritten, NothingCounted DEF Generate
<1>8. CASE CheckNumber(r)
  <2>1. CallsOK'
    BY <1>1, <1>2, <1>8, GoKeepsCalls, EndKeepsCalls DEF CheckNumber, At, Pcs
  <2> QED
    BY <1>1, <1>6, <1>8, <2>1, NothingWritten, NothingCounted DEF CheckNumber
<1>9. CASE FindUser(r)
  <2>1. CallsOK'
    BY <1>1, <1>2, <1>9, GoKeepsCalls, EndKeepsCalls DEF FindUser, At, Pcs
  <2>2. CountersOK'
    BY <1>1, <1>6, <1>9, NothingCounted, FaultCounted DEF FindUser
  <2> QED
    BY <1>1, <1>9, <2>1, <2>2, NothingWritten DEF FindUser
<1>10. CASE CreateUser(r)
  <2>1. CASE Refuse(r)
    <3>1. CallsOK'
      BY <1>1, <2>1, EndKeepsCalls DEF Refuse
    <3> QED
      BY <1>1, <1>6, <2>1, <3>1, NothingWritten, NothingCounted DEF Refuse
  <2>2. CASE ~Refuse(r)
    <3>1. /\ ~Taken(call[r].username)
          /\ users' = [users EXCEPT ![call[r].id] = call[r].username]
          /\ Go(r, "password") \/ Go(r, "commit")
          /\ UNCHANGED <<rows, counters, broken>>
      BY <1>10, <2>2 DEF CreateUser
    <3>2. call[r].pc = "user"
      BY <1>10 DEF CreateUser, At
    <3>3. CallsOK'
      BY <1>1, <1>2, <3>1, <3>2, GoKeepsCalls DEF Pcs
    <3>4. \A q \in Persons : users[q] # call[r].username
      BY <3>1 DEF Taken, HeldBy
    <3>5. TablesOK'
      BY <1>1, <1>4, <1>5, <3>1, <3>2, <3>4, UserWritten
    <3> QED
      BY <1>1, <1>6, <3>1, <3>3, <3>5, NothingCounted
  <2> QED
    BY <2>1, <2>2
<1>11. CASE SetPassword(r)
  <2>1. CallsOK'
    BY <1>1, <1>2, <1>11, GoKeepsCalls DEF SetPassword, At, Pcs
  <2>2. CountersOK'
    BY <1>1, <1>6, <1>11, NothingCounted, FaultCounted DEF SetPassword
  <2> QED
    BY <1>1, <1>11, <2>1, <2>2, NothingWritten DEF SetPassword
<1>12. CASE Undo(r)
  <2>1. CallsOK'
    BY <1>1, <1>12, EndKeepsCalls DEF Undo
  <2>2. CountersOK'
    BY <1>1, <1>2, <1>6, <1>12, NothingCounted, FaultCounted, BreaksTyped DEF Undo
  <2>3. TablesOK'
    BY <1>1, <1>4, <1>12, NothingWritten, UserWritten DEF Undo
  <2> QED
    BY <2>1, <2>2, <2>3
<1>13. CASE Commit(r)
  <2>1. CallsOK'
    BY <1>1, <1>13, EndKeepsCalls DEF Commit
  <2>2. CountersOK'
    BY <1>1, <1>2, <1>6, <1>13, NothingCounted, FaultCounted, BreaksTyped DEF Commit
  <2>3. CASE UNCHANGED rows
    BY <1>1, <1>13, <2>1, <2>2, <2>3, NothingWritten DEF Commit
  <2>4. CASE rows' # rows
    <3> DEFINE row == [name |-> call[r].name, username |-> call[r].username,
                       nummer |-> call[r].nummer, version |-> 1]
    <3>1. ~Conflict(r, call[r].nummer) /\ rows' = [rows EXCEPT ![call[r].id] = row]
      BY <1>13, <2>4 DEF Commit
    <3>2. row \in Row
      BY <1>4, <1>5, <1>13 DEF Commit, At, Row
    <3>3. row.nummer = NoNummer \/ \A q \in Persons \ {call[r].id} :
                                      Exists(q) => rows[q].nummer # row.nummer
      BY <3>1 DEF Conflict
    <3>4. UNCHANGED users
      BY <1>13 DEF Commit
    <3> HIDE DEF row
    <3>5. TablesOK'
      BY <1>1, <1>4, <3>1, <3>2, <3>3, <3>4, RowWritten
    <3> QED
      BY <2>1, <2>2, <3>5
  <2> QED
    BY <2>3, <2>4
<1> QED
  BY <1>7, <1>8, <1>9, <1>10, <1>11, <1>12, <1>13

\* A step of a change keeps the types.
LEMMA ChangeTyped ==
    ASSUME AccountsAssumption, TypeInv, NEW r \in Requests,
           \/ Load(r) \/ CheckNewNumber(r) \/ GenerateNew(r) \/ FindAccount(r)
           \/ Rename(r) \/ Save(r)
    PROVE  TablesOK' /\ CountersOK' /\ CallsOK'
<1>1. TablesOK /\ CountersOK /\ CallsOK
  BY TypeInvParts
<1>2. Busy(r) /\ call[r].op = "change"
  BY DEF Load, CheckNewNumber, GenerateNew, FindAccount, Rename, Save, At
<1>3. call[r] \in Request /\ Equipped(call[r])
  BY <1>1, <1>2, BusyIsRequest
<1>4. /\ call[r].id \in Persons /\ call[r].name \in Names /\ call[r].user \in Persons
      /\ call[r].nummer \in Nummern \cup {NoNummer}
  BY <1>3 DEF Request
<1>5. call[r].pc # "load" => call[r].username \in Username /\ call[r].row \in Row
  BY <1>2, <1>3 DEF Equipped
<1>6. broken \subseteq Persons
  BY <1>1 DEF CountersOK
<1>7. CASE Load(r)
  <2>1. CASE End(r)
    <3>1. CallsOK'
      BY <1>1, <2>1, EndKeepsCalls
    <3> QED
      BY <1>1, <1>6, <1>7, <3>1, NothingWritten, NothingCounted DEF Load
  <2>2. CASE ~End(r)
    <3> DEFINE row == rows[call[r].id]
               d == [call[r] EXCEPT !.pc = "number", !.row = row, !.username = row.username]
    <3>1. row # NoRow /\ call' = [call EXCEPT ![r].pc = "number", ![r].row = row,
                                     ![r].username = row.username]
      BY <1>7, <2>2 DEF Load
    <3>2. row \in Row /\ row.username \in Username
      BY <1>1, <1>4, <3>1 DEF TablesOK, Row
    <3>3. call' = [call EXCEPT ![r] = d]
      BY <1>1, <3>1 DEF CallsOK
    <3> HIDE DEF row
    <3>4. d \in Request /\ Equipped(d)
      BY <1>2, <1>3, <3>2 DEF Request, Equipped, Pcs
    <3> HIDE DEF d
    <3>5. CallsOK'
      BY <1>1, <3>3, <3>4, CallWritten
    <3> QED
      BY <1>1, <1>6, <1>7, <3>5, NothingWritten, NothingCounted DEF Load
  <2> QED
    BY <2>1, <2>2
<1>8. CASE CheckNewNumber(r)
  <2>1. CallsOK'
    BY <1>1, <1>2, <1>8, GoKeepsCalls, EndKeepsCalls DEF CheckNewNumber, At, Pcs
  <2> QED
    BY <1>1, <1>6, <1>8, <2>1, NothingWritten, NothingCounted DEF CheckNewNumber
<1>9. CASE GenerateNew(r)
  <2> DEFINE d == [call[r] EXCEPT !.pc = "find", !.username = FreeUsername(BaseOf[call[r].name])]
  <2>1. FreeUsername(BaseOf[call[r].name]) \in Username
    BY <1>4, FreeUsernameTyped DEF Bases
  <2>2. call[r].pc # "load"
    BY <1>9 DEF GenerateNew, At
  <2>3. d \in Request /\ Equipped(d)
    BY <1>2, <1>3, <2>1, <2>2 DEF Request, Equipped, Pcs
  <2>4. call' = [call EXCEPT ![r] = d]
    BY <1>1, <1>9 DEF GenerateNew, CallsOK
  <2> HIDE DEF d
  <2>5. CallsOK'
    BY <1>1, <2>3, <2>4, CallWritten
  <2> QED
    BY <1>1, <1>6, <1>9, <2>5, NothingWritten, NothingCounted DEF GenerateNew
<1>10. CASE FindAccount(r)
  <2>1. CASE Refuse(r)
    <3>1. CallsOK'
      BY <1>1, <2>1, EndKeepsCalls DEF Refuse
    <3> QED
      BY <1>1, <1>6, <2>1, <3>1, NothingWritten, NothingCounted DEF Refuse
  <2>2. CASE ~Refuse(r)
    <3>1. PICK p \in Persons :
            /\ call' = [call EXCEPT ![r].pc = "rename", ![r].user = p]
            /\ broken' = IF p = call[r].id THEN broken ELSE broken \cup {p}
            /\ UNCHANGED <<rows, users, counters>>
      BY <1>10, <2>2 DEF FindAccount
    <3> DEFINE d == [call[r] EXCEPT !.pc = "rename", !.user = p]
    <3>2. call[r].pc # "load"
      BY <1>10 DEF FindAccount, At
    <3>3. d \in Request /\ Equipped(d)
      BY <1>2, <1>3, <3>2 DEF Request, Equipped, Pcs
    <3>4. call' = [call EXCEPT ![r] = d]
      BY <1>1, <3>1 DEF CallsOK
    <3> HIDE DEF d
    <3>5. CallsOK'
      BY <1>1, <3>3, <3>4, CallWritten
    <3> QED
      BY <1>1, <1>6, <3>1, <3>5, NothingWritten, NothingCounted
  <2> QED
    BY <2>1, <2>2
<1>11. CASE Rename(r)
  <2>1. CASE Refuse(r)
    <3>1. CallsOK'
      BY <1>1, <2>1, EndKeepsCalls DEF Refuse
    <3> QED
      BY <1>1, <1>6, <2>1, <3>1, NothingWritten, NothingCounted DEF Refuse
  <2>2. CASE ~Refuse(r)
    <3>1. /\ \A q \in Persons \ {call[r].user} : users[q] # call[r].username
          /\ users' = [users EXCEPT ![call[r].user] = call[r].username]
          /\ Go(r, "save")
          /\ UNCHANGED <<rows, counters, broken>>
      BY <1>11, <2>2 DEF Rename, HeldBy
    <3>2. call[r].pc = "rename"
      BY <1>11 DEF Rename, At
    <3>3. CallsOK'
      BY <1>1, <1>2, <3>1, <3>2, GoKeepsCalls DEF Pcs
    <3>4. TablesOK'
      BY <1>1, <1>4, <1>5, <3>1, <3>2, UserWritten
    <3> QED
      BY <1>1, <1>6, <3>1, <3>3, <3>4, NothingCounted
  <2> QED
    BY <2>1, <2>2
<1>12. CASE Save(r)
  <2>1. CallsOK'
    BY <1>1, <1>12, EndKeepsCalls DEF Save
  <2>2. CountersOK'
    BY <1>1, <1>2, <1>6, <1>12, NothingCounted, FaultCounted, BreaksTyped DEF Save
  <2>3. CASE UNCHANGED rows
    BY <1>1, <1>12, <2>1, <2>2, <2>3, NothingWritten DEF Save
  <2>4. CASE rows' # rows
    <3>1. ~Conflict(r, call[r].nummer) /\ rows' = [rows EXCEPT ![call[r].id] = Saved(r)]
      BY <1>12, <2>4 DEF Save
    <3>2. UNCHANGED users
      BY <1>12 DEF Save
    <3>3. call[r].username \in Username /\ call[r].row.version + 1 \in Nat \ {0}
      BY <1>5, <1>12 DEF Save, At, Row
    <3>4. rows[call[r].id] \in Row \cup {NoRow}
      BY <1>1, <1>4 DEF TablesOK
    <3>5. Saved(r) \in Row \cup {NoRow}
      BY <1>4, <3>3, <3>4 DEF Saved, Row
    <3>6. \/ Saved(r) = NoRow
          \/ Saved(r).nummer = NoNummer
          \/ \A q \in Persons \ {call[r].id} : Exists(q) => rows[q].nummer # Saved(r).nummer
      <4>1. CASE rows[call[r].id] = NoRow
        BY <4>1 DEF Saved
      <4>2. CASE rows[call[r].id] # NoRow /\ call[r].nummer # NoNummer
        <5>1. Saved(r).nummer = call[r].nummer
          BY <4>2 DEF Saved
        <5> QED
          BY <3>1, <4>2, <5>1 DEF Conflict
      <4>3. CASE rows[call[r].id] # NoRow /\ call[r].nummer = NoNummer
        <5>1. Saved(r).nummer = rows[call[r].id].nummer
          BY <4>3 DEF Saved
        <5> QED
          BY <1>1, <1>4, <4>3, <5>1 DEF TablesOK, Exists
      <4> QED
        BY <4>1, <4>2, <4>3
    <3>7. TablesOK'
      BY <1>1, <1>4, <3>1, <3>2, <3>5, <3>6, RowWritten
    <3> QED
      BY <2>1, <2>2, <3>7
  <2> QED
    BY <2>3, <2>4
<1> QED
  BY <1>7, <1>8, <1>9, <1>10, <1>11, <1>12

\* A step of a PUT keeps the types.
LEMMA PutTyped ==
    ASSUME AccountsAssumption, TypeInv, NEW r \in Requests, LoadPut(r) \/ SavePut(r)
    PROVE  TablesOK' /\ CountersOK' /\ CallsOK'
<1>1. TablesOK /\ CountersOK /\ CallsOK
  BY TypeInvParts
<1>2. Busy(r) /\ call[r].op = "put"
  BY DEF LoadPut, SavePut, At
<1>3. call[r] \in Request /\ Equipped(call[r])
  BY <1>1, <1>2, BusyIsRequest
<1>4. call[r].id \in Persons /\ call[r].name \in Names /\ call[r].nummer = NoNummer
  BY <1>2, <1>3 DEF Request, Equipped
<1>5. broken \subseteq Persons
  BY <1>1 DEF CountersOK
<1>6. CASE LoadPut(r)
  <2>1. CASE End(r)
    <3>1. CallsOK'
      BY <1>1, <2>1, EndKeepsCalls
    <3> QED
      BY <1>1, <1>5, <1>6, <3>1, NothingWritten, NothingCounted DEF LoadPut
  <2>2. CASE ~End(r)
    <3> DEFINE row == rows[call[r].id]
    <3>1. PICK username \in Username :
            call' = [call EXCEPT ![r].pc = "save", ![r].row = row, ![r].username = username]
      BY <1>6, <2>2 DEF LoadPut
    <3> DEFINE d == [call[r] EXCEPT !.pc = "save", !.row = row, !.username = username]
    <3>2. row \in Row
      BY <1>1, <1>4, <1>6, <2>2 DEF LoadPut, TablesOK
    <3>3. call' = [call EXCEPT ![r] = d]
      BY <1>1, <3>1 DEF CallsOK
    <3> HIDE DEF row
    <3>4. d \in Request /\ Equipped(d)
      BY <1>2, <1>3, <1>4, <3>2 DEF Request, Equipped, Pcs
    <3> HIDE DEF d
    <3>5. CallsOK'
      BY <1>1, <3>3, <3>4, CallWritten
    <3> QED
      BY <1>1, <1>5, <1>6, <3>5, NothingWritten, NothingCounted DEF LoadPut
  <2> QED
    BY <2>1, <2>2
<1>7. CASE SavePut(r)
  <2>1. CallsOK'
    BY <1>1, <1>7, EndKeepsCalls DEF SavePut
  <2>2. CountersOK'
    BY <1>1, <1>2, <1>5, <1>7, NothingCounted, FaultCounted, BreaksTyped DEF SavePut
  <2>3. CASE UNCHANGED rows
    BY <1>1, <1>7, <2>1, <2>2, <2>3, NothingWritten DEF SavePut
  <2>4. CASE rows' # rows
    <3>1. rows' = [rows EXCEPT ![call[r].id] = Saved(r)] /\ UNCHANGED users
      BY <1>7, <2>4 DEF SavePut
    <3>2. call[r].username \in Username /\ call[r].row.version + 1 \in Nat \ {0}
      BY <1>2, <1>3, <1>7 DEF SavePut, At, Equipped, Row
    <3>3. rows[call[r].id] \in Row \cup {NoRow}
      BY <1>1, <1>4 DEF TablesOK
    <3>4. Saved(r) \in Row \cup {NoRow}
      BY <1>4, <3>2, <3>3 DEF Saved, Row
    <3>5. \/ Saved(r) = NoRow
          \/ Saved(r).nummer = NoNummer
          \/ \A q \in Persons \ {call[r].id} : Exists(q) => rows[q].nummer # Saved(r).nummer
      <4>1. CASE rows[call[r].id] = NoRow
        BY <4>1 DEF Saved
      <4>2. CASE rows[call[r].id] # NoRow
        <5>1. Saved(r).nummer = rows[call[r].id].nummer
          BY <1>4, <4>2 DEF Saved
        <5> QED
          BY <1>1, <1>4, <4>2, <5>1 DEF TablesOK, Exists
      <4> QED
        BY <4>1, <4>2
    <3>6. TablesOK'
      BY <1>1, <1>4, <3>1, <3>4, <3>5, RowWritten
    <3> QED
      BY <2>1, <2>2, <3>6
  <2> QED
    BY <2>3, <2>4
<1> QED
  BY <1>6, <1>7

\* A step of a deletion keeps the types, and so does a call that fails.
LEMMA DeleteTyped ==
    ASSUME AccountsAssumption, TypeInv, NEW r \in Requests,
           LoadForDelete(r) \/ DeleteUser(r) \/ DeleteRow(r) \/ KeycloakFails(r)
    PROVE  TablesOK' /\ CountersOK' /\ CallsOK'
<1>1. TablesOK /\ CountersOK /\ CallsOK
  BY TypeInvParts
<1>2. Busy(r)
  BY DEF LoadForDelete, DeleteUser, DeleteRow, KeycloakFails, At
<1>3. call[r].id \in Persons
  BY <1>1, <1>2, BusyIsRequest DEF Request
<1>4. broken \subseteq Persons
  BY <1>1 DEF CountersOK
<1>5. CASE LoadForDelete(r)
  <2>1. CallsOK'
    BY <1>1, <1>2, <1>5, GoKeepsCalls, EndKeepsCalls DEF LoadForDelete, At, Pcs
  <2> QED
    BY <1>1, <1>4, <1>5, <2>1, NothingWritten, NothingCounted DEF LoadForDelete
<1>6. CASE DeleteUser(r)
  <2>1. CallsOK'
    BY <1>1, <1>2, <1>6, GoKeepsCalls DEF DeleteUser, At, Pcs
  <2>2. CountersOK'
    BY <1>1, <1>2, <1>4, <1>6, NothingCounted, FaultCounted, BreaksTyped DEF DeleteUser
  <2>3. TablesOK'
    BY <1>1, <1>3, <1>6, NothingWritten, UserWritten DEF DeleteUser
  <2> QED
    BY <2>1, <2>2, <2>3
<1>7. CASE DeleteRow(r)
  <2>1. CallsOK'
    BY <1>1, <1>7, EndKeepsCalls DEF DeleteRow
  <2>2. CountersOK'
    BY <1>1, <1>2, <1>4, <1>7, NothingCounted, FaultCounted, BreaksTyped DEF DeleteRow
  <2>3. TablesOK'
    BY <1>1, <1>3, <1>7, NothingWritten, RowWritten DEF DeleteRow
  <2> QED
    BY <2>1, <2>2, <2>3
<1>8. CASE KeycloakFails(r)
  <2>1. CallsOK'
    BY <1>1, <1>8, EndKeepsCalls DEF KeycloakFails
  <2> QED
    BY <1>1, <1>4, <1>8, <2>1, NothingWritten, FaultCounted DEF KeycloakFails
<1> QED
  BY <1>5, <1>6, <1>7, <1>8

\* Every step keeps the types.
LEMMA StepTyped == ASSUME AccountsAssumption, TypeInv, [Next]_vars PROVE TypeInv'
<1>1. TypeInv' <=> (TablesOK /\ CountersOK /\ CallsOK)'
  BY DEF TypeInv, TypeOK, TablesOK, CountersOK
<1>2. CASE UNCHANGED vars
  BY <1>2 DEF vars, TypeInv, TypeOK, CallsOK, Exists
<1>3. ASSUME NEW r \in Requests, Ask(r) PROVE TypeInv'
  BY <1>3, BeginTyped
<1>4. ASSUME NEW r \in Requests, Proceed(r) \/ KeycloakFails(r) PROVE TypeInv'
  BY <1>1, <1>4, CreateTyped, ChangeTyped, PutTyped, DeleteTyped DEF Proceed
<1> QED
  BY <1>2, <1>3, <1>4 DEF Next

\* The variables keep their types, and no two persons have the same Personalnummer
\* or accounts of the same name.
THEOREM TypeCorrect == Spec => []TypeOK
<1>1. Init => TypeInv
  BY AccountsAssumption, InitTyped
<1>2. TypeInv /\ [Next]_vars => TypeInv'
  BY AccountsAssumption, StepTyped
<1>3. TypeInv => TypeOK
  BY DEF TypeInv
<1> QED
  BY <1>1, <1>2, <1>3, PTL DEF Spec

-----------------------------------------------------------------------------
(* The rows and the accounts.                                              *)

\* What a row and an account have in common when no request works on them.
Agrees(row, user) == user = IF row = NoRow THEN NoUser ELSE row.username

Rebased(c) == FormOf[c.name] # FormOf[c.row.name]

\* What they have in common with the one request that works on them.
Matches(c, row, user) ==
    /\ c.op = "create" =>
        /\ row = NoRow
        /\ user = IF c.pc \in {"password", "undo", "commit"} THEN c.username ELSE NoUser
    /\ c.op = "delete" =>
        IF c.pc = "row" THEN user = NoUser ELSE Agrees(row, user)
    /\ c.op \in {"change", "put"} => row # NoRow
    /\ c.op \in {"change", "put"} /\ c.pc = "load" => user = row.username
    /\ c.op \in {"change", "put"} /\ c.pc # "load" => row = c.row /\ c.row.version = c.page
    /\ c.op = "put" /\ c.pc # "load" => user = row.username
    /\ c.op = "change" /\ c.pc # "load" =>
        /\ c.pc = "generate" => Rebased(c)
        /\ c.pc = "number" \/ ~Rebased(c) => c.username = row.username
        /\ user = IF c.pc = "save" THEN c.username ELSE row.username

AgreeInv ==
    /\ \A p \in Persons : Quiet(p) /\ p \notin broken => Agrees(rows[p], users[p])
    /\ \A r \in Requests : Busy(r) /\ call[r].id \notin broken =>
        Matches(call[r], rows[call[r].id], users[call[r].id])
    /\ \A r \in Requests : Busy(r) /\ call[r].user # call[r].id =>
        call[r].user \in broken /\ call[r].id \in broken
    /\ \A r, s \in Requests : Busy(r) /\ Busy(s) /\ r # s /\ call[r].id = call[s].id =>
        call[r].id \in broken

\* A request that ends leaves the row and the account of its person as they belong
\* together, and those of nobody else otherwise than they were.
LEMMA EndAgrees ==
    ASSUME TypeInv, AgreeInv, NEW r \in Requests, Busy(r), End(r),
           broken \subseteq broken',
           \A p \in Persons \ broken' : p # call[r].id => rows'[p] = rows[p] /\ users'[p] = users[p],
           call[r].id \notin broken' => Agrees(rows'[call[r].id], users'[call[r].id])
    PROVE  AgreeInv'
<1>1. /\ call'[r] = Idle
      /\ \A s \in Requests \ {r} : call'[s] = call[s]
  BY DEF End, TypeInv, CallsOK
<1>2. \A s \in Requests : Busy(s) => call[s].id \in Persons
  BY BusyIsRequest DEF TypeInv, Request
<1>3. ASSUME NEW p \in Persons, p \notin broken',
             \A s \in Requests : call'[s] # Idle => call'[s].id # p
      PROVE  Agrees(rows'[p], users'[p])
  <2>1. CASE p = call[r].id
    BY <1>3, <2>1
  <2>2. CASE p # call[r].id
    <3>1. Quiet(p)
      BY <1>1, <1>3, <2>2 DEF Quiet, Busy
    <3> QED
      BY <1>3, <2>2, <3>1 DEF AgreeInv
  <2> QED
    BY <2>1, <2>2
<1>4. ASSUME NEW s \in Requests, call'[s] # Idle, call'[s].id \notin broken'
      PROVE  Matches(call'[s], rows'[call'[s].id], users'[call'[s].id])
  <2>1. s # r /\ call'[s] = call[s] /\ Busy(s) /\ call[s].id \in Persons
    BY <1>1, <1>2, <1>4 DEF Busy
  <2>2. call[s].id # call[r].id
    BY <1>4, <2>1 DEF AgreeInv
  <2> QED
    BY <1>4, <2>1, <2>2 DEF AgreeInv
<1>5. ASSUME NEW s \in Requests, call'[s] # Idle, call'[s].user # call'[s].id
      PROVE  call'[s].user \in broken' /\ call'[s].id \in broken'
  BY <1>1, <1>5 DEF AgreeInv, Busy
<1>6. ASSUME NEW s \in Requests, NEW t \in Requests, call'[s] # Idle, call'[t] # Idle, s # t,
             call'[s].id = call'[t].id
      PROVE  call'[s].id \in broken'
  BY <1>1, <1>6 DEF AgreeInv, Busy
<1> QED
  BY <1>3, <1>4, <1>5, <1>6 DEF AgreeInv, Quiet, Busy

\* The same for a request that goes on.
LEMMA GoAgrees ==
    ASSUME TypeInv, AgreeInv, NEW r \in Requests, Busy(r), NEW d \in Request,
           call' = [call EXCEPT ![r] = d], d.id = call[r].id,
           broken \subseteq broken',
           \A p \in Persons \ broken' : p # d.id => rows'[p] = rows[p] /\ users'[p] = users[p],
           d.id \notin broken' => Matches(d, rows'[d.id], users'[d.id]),
           d.user # d.id => d.user \in broken' /\ d.id \in broken'
    PROVE  AgreeInv'
<1>1. /\ call'[r] = d
      /\ \A s \in Requests \ {r} : call'[s] = call[s]
  BY DEF TypeInv, CallsOK
<1>2. \A s \in Requests : Busy(s) => call[s].id \in Persons
  BY BusyIsRequest DEF TypeInv, Request
<1>3. ASSUME NEW p \in Persons, p \notin broken',
             \A s \in Requests : call'[s] # Idle => call'[s].id # p
      PROVE  Agrees(rows'[p], users'[p])
  <2>1. p # d.id
    BY <1>1, <1>3, RequestNotIdle
  <2>2. Quiet(p)
    BY <1>1, <1>3, <2>1 DEF Quiet, Busy
  <2> QED
    BY <1>3, <2>1, <2>2 DEF AgreeInv
<1>4. ASSUME NEW s \in Requests, call'[s] # Idle, call'[s].id \notin broken'
      PROVE  Matches(call'[s], rows'[call'[s].id], users'[call'[s].id])
  <2>1. CASE s = r
    BY <1>1, <1>4, <2>1
  <2>2. CASE s # r
    <3>1. call'[s] = call[s] /\ Busy(s) /\ call[s].id \in Persons
      BY <1>1, <1>2, <1>4, <2>2 DEF Busy
    <3>2. call[s].id # d.id
      BY <1>4, <2>2, <3>1 DEF AgreeInv
    <3> QED
      BY <1>4, <3>1, <3>2 DEF AgreeInv
  <2> QED
    BY <2>1, <2>2
<1>5. ASSUME NEW s \in Requests, call'[s] # Idle, call'[s].user # call'[s].id
      PROVE  call'[s].user \in broken' /\ call'[s].id \in broken'
  BY <1>1, <1>5 DEF AgreeInv, Busy
<1>6. ASSUME NEW s \in Requests, NEW t \in Requests, call'[s] # Idle, call'[t] # Idle, s # t,
             call'[s].id = call'[t].id
      PROVE  call'[s].id \in broken'
  BY <1>1, <1>6 DEF AgreeInv, Busy
<1> QED
  BY <1>3, <1>4, <1>5, <1>6 DEF AgreeInv, Quiet, Busy

\* A request that writes nothing and ends, before it has written or after its failure.
LEMMA QuitAgrees ==
    ASSUME TypeInv, AgreeInv, NEW r \in Requests, Busy(r), End(r),
           UNCHANGED <<rows, users>>, broken \subseteq broken',
           \/ call[r].id \in broken'
           \/ call[r].op = "create" /\ call[r].pc \in {"load", "number", "find", "user"}
           \/ call[r].op = "change" /\ call[r].pc # "save"
           \/ call[r].op = "put"
           \/ call[r].op = "delete" /\ call[r].pc # "row"
    PROVE  AgreeInv'
<1>1. call[r].id \in Persons /\ call[r].op \in {"create", "change", "delete", "put"}
  BY BusyIsRequest DEF TypeInv, Request
<1>2. ASSUME call[r].id \notin broken' PROVE Agrees(rows[call[r].id], users[call[r].id])
  <2>1. Matches(call[r], rows[call[r].id], users[call[r].id])
    BY <1>2 DEF AgreeInv
  <2> QED
    BY <1>2, <2>1 DEF Matches, Agrees
<1> QED
  BY <1>2, EndAgrees

\* A request that writes nothing and goes on.
LEMMA MoveAgrees ==
    ASSUME TypeInv, AgreeInv, NEW r \in Requests, Busy(r), NEW pc \in Pcs, Go(r, pc),
           UNCHANGED <<rows, users, broken>>,
           call[r].id \notin broken =>
               Matches([call[r] EXCEPT !.pc = pc], rows[call[r].id], users[call[r].id])
    PROVE  AgreeInv'
<1> DEFINE d == [call[r] EXCEPT !.pc = pc]
<1>1. call[r] \in Request
  BY BusyIsRequest DEF TypeInv
<1>2. d \in Request /\ d.id = call[r].id /\ d.user = call[r].user
  BY <1>1 DEF Request
<1>3. call' = [call EXCEPT ![r] = d]
  BY DEF Go, TypeInv, CallsOK
<1>4. d.user # d.id => d.user \in broken /\ d.id \in broken
  BY <1>2 DEF AgreeInv
<1>5. d.id \notin broken' => Matches(d, rows'[d.id], users'[d.id])
  BY <1>2
<1> HIDE DEF d
<1> QED
  BY <1>2, <1>3, <1>4, <1>5, GoAgrees

LEMMA BeginAgrees ==
    ASSUME TypeInv, AgreeInv, NEW r \in Requests, Ask(r) PROVE AgreeInv'
<1>1. PICK op \in {"create", "change", "delete", "put"}, id \in Persons, name \in Names,
           nummer \in Nummern \cup {NoNummer}, page \in Nat :
        /\ Begin(r, op, id, name, nummer, page)
        /\ op = "create" => ~Exists(id) /\ ~HasUser(id)
        /\ op \in {"change", "put"} => Exists(id)
  <2>1. CASE AskCreate(r)
    BY <2>1 DEF AskCreate
  <2>2. CASE AskChange(r)
    <3>1. PICK p \in Persons, name \in Names, nummer \in Nummern \cup {NoNummer} :
            /\ Exists(p)
            /\ \E page \in 1 .. rows[p].version : Begin(r, "change", p, name, nummer, page)
      BY <2>2 DEF AskChange
    <3>2. rows[p].version \in Nat
      BY <3>1 DEF Exists, TypeInv, TypeOK, Row
    <3> QED
      BY <3>1, <3>2
  <2>3. CASE AskDelete(r)
    <3>1. PICK p \in Persons : Exists(p) /\ Begin(r, "delete", p, rows[p].name, NoNummer, 0)
      BY <2>3 DEF AskDelete
    <3>2. rows[p].name \in Names
      BY <3>1 DEF Exists, TypeInv, TypeOK, Row
    <3> QED
      BY <3>1, <3>2
  <2>4. CASE AskPut(r)
    <3>1. PICK p \in Persons, name \in Names :
            /\ Exists(p)
            /\ \E page \in 1 .. rows[p].version : Begin(r, "put", p, name, NoNummer, page)
      BY <2>4 DEF AskPut
    <3>2. rows[p].version \in Nat
      BY <3>1 DEF Exists, TypeInv, TypeOK, Row
    <3> QED
      BY <3>1, <3>2
  <2> QED
    BY <2>1, <2>2, <2>3, <2>4 DEF Ask
<1> DEFINE d == [pc |-> "load", op |-> op, id |-> id, name |-> name, nummer |-> nummer,
                 page |-> page, row |-> NoRow, username |-> NoUser, user |-> id]
<1>2. d \in Request /\ d.id = id /\ d.user = id
  BY DEF Request, Pcs
<1>3. call' = [call EXCEPT ![r] = d] /\ UNCHANGED <<rows, users>>
  BY <1>1 DEF Begin
<1>4. broken' = IF Quiet(id) THEN broken ELSE broken \cup {id}
  BY <1>1 DEF Begin
<1>5. ASSUME id \notin broken' PROVE Quiet(id) /\ Matches(d, rows[id], users[id])
  <2>1. Quiet(id) /\ Agrees(rows[id], users[id])
    BY <1>4, <1>5 DEF AgreeInv
  <2> QED
    BY <1>1, <2>1 DEF Matches, Agrees, Exists, HasUser
<1>6. ~Busy(r)
  BY <1>1 DEF Begin, Busy
<1> HIDE DEF d
<1>7. /\ call'[r] = d
      /\ \A s \in Requests \ {r} : call'[s] = call[s]
  BY <1>3 DEF TypeInv, CallsOK
<1>8. ASSUME NEW p \in Persons, p \notin broken',
             \A s \in Requests : call'[s] # Idle => call'[s].id # p
      PROVE  Agrees(rows'[p], users'[p])
  <2>1. Quiet(p)
    BY <1>6, <1>7, <1>8 DEF Quiet, Busy
  <2> QED
    BY <1>3, <1>4, <1>8, <2>1 DEF AgreeInv
<1>9. ASSUME NEW s \in Requests, call'[s] # Idle, call'[s].id \notin broken'
      PROVE  Matches(call'[s], rows'[call'[s].id], users'[call'[s].id])
  <2>1. CASE s = r
    BY <1>2, <1>3, <1>5, <1>7, <1>9, <2>1
  <2>2. CASE s # r
    BY <1>3, <1>4, <1>7, <1>9, <2>2 DEF AgreeInv, Busy
  <2> QED
    BY <2>1, <2>2
<1>10. ASSUME NEW s \in Requests, call'[s] # Idle, call'[s].user # call'[s].id
       PROVE  call'[s].user \in broken' /\ call'[s].id \in broken'
  BY <1>2, <1>4, <1>7, <1>10 DEF AgreeInv, Busy
<1>11. ASSUME NEW s \in Requests, NEW t \in Requests, call'[s] # Idle, call'[t] # Idle, s # t,
              call'[s].id = call'[t].id
       PROVE  call'[s].id \in broken'
  <2>1. CASE s # r /\ t # r
    BY <1>4, <1>7, <1>11, <2>1 DEF AgreeInv, Busy
  <2>2. CASE s = r \/ t = r
    <3>1. ~Quiet(id) /\ call'[s].id = id
      BY <1>2, <1>7, <1>11, <2>2 DEF Quiet, Busy
    <3> QED
      BY <1>4, <3>1
  <2> QED
    BY <2>1, <2>2
<1> QED
  BY <1>8, <1>9, <1>10, <1>11 DEF AgreeInv, Quiet, Busy

\* A step of a creation.
LEMMA CreateAgrees ==
    ASSUME TypeInv, AgreeInv, NEW r \in Requests,
           \/ Generate(r) \/ CheckNumber(r) \/ FindUser(r) \/ CreateUser(r)
           \/ SetPassword(r) \/ Undo(r) \/ Commit(r),
           AccountsAssumption
    PROVE  AgreeInv'
<1>1. Busy(r) /\ call[r].op = "create"
  BY DEF Generate, CheckNumber, FindUser, CreateUser, SetPassword, Undo, Commit, At
<1>2. call[r] \in Request /\ Equipped(call[r])
  BY <1>1, BusyIsRequest DEF TypeInv
<1>3. call[r].id \in Persons /\ call[r].name \in Names
  BY <1>2 DEF Request
<1>4. call[r].user # call[r].id => call[r].user \in broken /\ call[r].id \in broken
  BY <1>1 DEF AgreeInv
<1>5. call[r].id \notin broken => Matches(call[r], rows[call[r].id], users[call[r].id])
  BY <1>1 DEF AgreeInv
<1>6. rows \in [Persons -> Row \cup {NoRow}] /\ users \in [Persons -> Username \cup {NoUser}]
  BY DEF TypeInv, TypeOK
<1>7. CASE Generate(r)
  <2> DEFINE d == [call[r] EXCEPT !.pc = "number", !.username = FreeUsername(BaseOf[call[r].name])]
  <2>1. FreeUsername(BaseOf[call[r].name]) \in Username
    BY <1>3, FreeUsernameTyped DEF Bases
  <2> HIDE DEF FreeUsername
  <2>2. d \in Request /\ d.id = call[r].id /\ d.user = call[r].user
    BY <1>1, <1>2, <2>1 DEF Request, Pcs
  <2>3. call' = [call EXCEPT ![r] = d]
    BY <1>7 DEF Generate, TypeInv, CallsOK
  <2>4. UNCHANGED <<rows, users, broken>> /\ call[r].pc = "load"
    BY <1>7 DEF Generate, At
  <2>5. d.id \notin broken' => Matches(d, rows'[d.id], users'[d.id])
    BY <1>1, <1>2, <1>5, <2>2, <2>4 DEF Matches, Request
  <2> HIDE DEF d
  <2> QED
    BY <1>1, <1>4, <2>2, <2>3, <2>4, <2>5, GoAgrees
<1>8. CASE CheckNumber(r)
  <2>1. UNCHANGED <<rows, users, broken>> /\ call[r].pc = "number" /\ (End(r) \/ Go(r, "find"))
    BY <1>8 DEF CheckNumber, At
  <2>2. CASE End(r)
    BY <1>1, <2>1, <2>2, QuitAgrees
  <2>3. CASE Go(r, "find")
    <3>1. call[r].id \notin broken =>
             Matches([call[r] EXCEPT !.pc = "find"], rows[call[r].id], users[call[r].id])
      BY <1>1, <1>2, <1>5, <2>1 DEF Matches, Request
    <3> QED
      BY <1>1, <2>1, <2>3, <3>1, MoveAgrees DEF Pcs
  <2> QED
    BY <2>1, <2>2, <2>3
<1>9. CASE FindUser(r)
  <2>1. UNCHANGED <<rows, users, broken>> /\ call[r].pc = "find" /\ (End(r) \/ Go(r, "user"))
    BY <1>9 DEF FindUser, At
  <2>2. CASE End(r)
    BY <1>1, <2>1, <2>2, QuitAgrees
  <2>3. CASE Go(r, "user")
    <3>1. call[r].id \notin broken =>
             Matches([call[r] EXCEPT !.pc = "user"], rows[call[r].id], users[call[r].id])
      BY <1>1, <1>2, <1>5, <2>1 DEF Matches, Request
    <3> QED
      BY <1>1, <2>1, <2>3, <3>1, MoveAgrees DEF Pcs
  <2> QED
    BY <2>1, <2>2, <2>3
<1>10. CASE CreateUser(r)
  <2>1. call[r].pc = "user"
    BY <1>10 DEF CreateUser, At
  <2>2. CASE Refuse(r)
    BY <1>1, <2>1, <2>2, QuitAgrees DEF Refuse
  <2>3. CASE ~Refuse(r)
    <3>1. PICK pc \in {"password", "commit"} :
            /\ users' = [users EXCEPT ![call[r].id] = call[r].username]
            /\ Go(r, pc)
            /\ UNCHANGED <<rows, broken>>
      BY <1>10, <2>3 DEF CreateUser
    <3> DEFINE d == [call[r] EXCEPT !.pc = pc]
    <3>2. d \in Request /\ d.id = call[r].id /\ d.user = call[r].user
      BY <1>2 DEF Request, Pcs
    <3>3. call' = [call EXCEPT ![r] = d]
      BY <3>1 DEF Go, TypeInv, CallsOK
    <3>4. users'[call[r].id] = call[r].username
      BY <1>3, <1>6, <3>1
    <3>5. d.id \notin broken' => Matches(d, rows'[d.id], users'[d.id])
      BY <1>1, <1>2, <1>5, <2>1, <3>1, <3>2, <3>4 DEF Matches, Request
    <3>6. \A p \in Persons \ broken' : p # d.id => rows'[p] = rows[p] /\ users'[p] = users[p]
      BY <1>6, <3>1, <3>2
    <3> HIDE DEF d
    <3> QED
      BY <1>1, <1>4, <3>1, <3>2, <3>3, <3>5, <3>6, GoAgrees
  <2> QED
    BY <2>2, <2>3
<1>11. CASE SetPassword(r)
  <2>1. PICK pc \in {"commit", "undo"} :
          Go(r, pc) /\ UNCHANGED <<rows, users, broken>> /\ call[r].pc = "password"
    BY <1>11 DEF SetPassword, At
  <2>2. call[r].id \notin broken =>
           Matches([call[r] EXCEPT !.pc = pc], rows[call[r].id], users[call[r].id])
    BY <1>1, <1>2, <1>5, <2>1 DEF Matches, Request
  <2> QED
    BY <1>1, <2>1, <2>2, MoveAgrees DEF Pcs
<1>12. CASE Undo(r)
  <2>1. End(r) /\ UNCHANGED rows /\ broken \subseteq broken'
    BY <1>12 DEF Undo, Breaks
  <2>2. CASE users' = [users EXCEPT ![call[r].id] = NoUser]
    <3>1. /\ users'[call[r].id] = NoUser
          /\ \A p \in Persons : p # call[r].id => users'[p] = users[p]
      BY <1>3, <1>6, <2>2
    <3>2. call[r].id \notin broken' => Agrees(rows'[call[r].id], users'[call[r].id])
      BY <1>1, <1>5, <2>1, <3>1 DEF Matches, Agrees
    <3> QED
      BY <1>1, <2>1, <3>1, <3>2, EndAgrees
  <2>3. CASE users' # [users EXCEPT ![call[r].id] = NoUser]
    <3>1. UNCHANGED users /\ call[r].id \in broken'
      BY <1>12, <2>3 DEF Undo, Breaks
    <3> QED
      BY <1>1, <2>1, <3>1, QuitAgrees
  <2> QED
    BY <2>2, <2>3
<1>13. CASE Commit(r)
  <2>1. End(r) /\ UNCHANGED users /\ broken \subseteq broken'
    BY <1>13 DEF Commit, Breaks
  <2>2. CASE call[r].id \in broken' /\ UNCHANGED rows
    BY <1>1, <2>1, <2>2, QuitAgrees
  <2>3. CASE ~(call[r].id \in broken' /\ UNCHANGED rows)
    <3> DEFINE row == [name |-> call[r].name, username |-> call[r].username,
                       nummer |-> call[r].nummer, version |-> 1]
    <3>1. rows' = [rows EXCEPT ![call[r].id] = row] /\ UNCHANGED broken /\ call[r].pc = "commit"
      BY <1>13, <2>3 DEF Commit, Breaks, At
    <3>2. row.username = call[r].username /\ row # NoRow
      <4>1. row.version # NoRow.version
        BY DEF NoRow
      <4> QED
        BY <4>1
    <3> HIDE DEF row
    <3>3. /\ rows'[call[r].id] = row
          /\ \A p \in Persons : p # call[r].id => rows'[p] = rows[p]
      BY <1>3, <1>6, <3>1
    <3>4. call[r].id \notin broken' => Agrees(rows'[call[r].id], users'[call[r].id])
      BY <1>1, <1>5, <2>1, <3>1, <3>2, <3>3 DEF Matches, Agrees
    <3> QED
      BY <1>1, <2>1, <3>3, <3>4, EndAgrees
  <2> QED
    BY <2>2, <2>3
<1> QED
  BY <1>7, <1>8, <1>9, <1>10, <1>11, <1>12, <1>13

\* A step of a deletion, or a call that fails.
LEMMA DeleteAgrees ==
    ASSUME TypeInv, AgreeInv, NEW r \in Requests,
           LoadForDelete(r) \/ DeleteUser(r) \/ DeleteRow(r) \/ KeycloakFails(r)
    PROVE  AgreeInv'
<1>1. Busy(r)
  BY DEF LoadForDelete, DeleteUser, DeleteRow, KeycloakFails, At
<1>2. call[r] \in Request
  BY <1>1, BusyIsRequest DEF TypeInv
<1>3. call[r].id \in Persons
  BY <1>2 DEF Request
<1>4. call[r].user # call[r].id => call[r].user \in broken /\ call[r].id \in broken
  BY <1>1 DEF AgreeInv
<1>5. call[r].id \notin broken => Matches(call[r], rows[call[r].id], users[call[r].id])
  BY <1>1 DEF AgreeInv
<1>6. rows \in [Persons -> Row \cup {NoRow}] /\ users \in [Persons -> Username \cup {NoUser}]
  BY DEF TypeInv, TypeOK
<1>7. CASE LoadForDelete(r)
  <2>1. /\ UNCHANGED <<rows, users, broken>> /\ call[r].op = "delete" /\ call[r].pc = "load"
        /\ End(r) \/ Go(r, "user")
    BY <1>7 DEF LoadForDelete, At
  <2>2. CASE End(r)
    BY <1>1, <2>1, <2>2, QuitAgrees
  <2>3. CASE Go(r, "user")
    <3>1. call[r].id \notin broken =>
             Matches([call[r] EXCEPT !.pc = "user"], rows[call[r].id], users[call[r].id])
      BY <1>2, <1>5, <2>1 DEF Matches, Request
    <3> QED
      BY <1>1, <2>1, <2>3, <3>1, MoveAgrees DEF Pcs
  <2> QED
    BY <2>1, <2>2, <2>3
<1>8. CASE DeleteUser(r)
  <2> DEFINE d == [call[r] EXCEPT !.pc = "row"]
  <2>1. /\ call[r].op = "delete" /\ call[r].pc = "user" /\ UNCHANGED rows
        /\ call' = [call EXCEPT ![r] = d] /\ broken \subseteq broken'
    BY <1>8 DEF DeleteUser, At, Go, Breaks, TypeInv, CallsOK
  <2>2. d \in Request /\ d.id = call[r].id /\ d.user = call[r].user /\ d.op = "delete" /\ d.pc = "row"
    BY <1>2, <2>1 DEF Request, Pcs
  <2> HIDE DEF d
  <2>3. \A p \in Persons : p # call[r].id => users'[p] = users[p]
    BY <1>3, <1>6, <1>8 DEF DeleteUser
  <2>4. call[r].id \notin broken' => users'[call[r].id] = NoUser
    BY <1>3, <1>6, <1>8 DEF DeleteUser, Breaks
  <2>5. d.id \notin broken' => Matches(d, rows'[d.id], users'[d.id])
    BY <2>2, <2>4 DEF Matches
  <2> QED
    BY <1>1, <1>4, <2>1, <2>2, <2>3, <2>5, GoAgrees
<1>9. CASE DeleteRow(r)
  <2>1. /\ call[r].op = "delete" /\ call[r].pc = "row" /\ UNCHANGED users
        /\ End(r) /\ broken \subseteq broken'
    BY <1>9 DEF DeleteRow, At, Breaks
  <2>2. CASE call[r].id \in broken' /\ UNCHANGED rows
    BY <1>1, <2>1, <2>2, QuitAgrees
  <2>3. CASE ~(call[r].id \in broken' /\ UNCHANGED rows)
    <3>1. rows' = [rows EXCEPT ![call[r].id] = NoRow]
      BY <1>9, <2>3 DEF DeleteRow, Breaks
    <3>2. /\ rows'[call[r].id] = NoRow
          /\ \A p \in Persons : p # call[r].id => rows'[p] = rows[p]
      BY <1>3, <1>6, <3>1
    <3>3. call[r].id \notin broken' => Agrees(rows'[call[r].id], users'[call[r].id])
      BY <1>5, <2>1, <3>2 DEF Matches, Agrees
    <3> QED
      BY <1>1, <2>1, <3>2, <3>3, EndAgrees
  <2> QED
    BY <2>2, <2>3
<1>10. CASE KeycloakFails(r)
  <2>1. /\ UNCHANGED <<rows, users, broken>> /\ End(r)
        /\ \/ call[r].op = "create" /\ call[r].pc \in {"load", "user"}
           \/ call[r].op = "change" /\ call[r].pc \in {"generate", "find", "rename"}
    BY <1>10 DEF KeycloakFails
  <2> QED
    BY <1>1, <2>1, QuitAgrees
<1> QED
  BY <1>7, <1>8, <1>9, <1>10

\* A step of a change.  An account that is taken for the person's own is the
\* person's own, unless somebody has left them apart.
LEMMA OwnAccount ==
    ASSUME TypeInv, AgreeInv, NEW r \in Requests, At(r, "change", "find"),
           call[r].id \notin broken, NEW p \in Persons, HeldBy(p, call[r].row.username)
    PROVE  p = call[r].id
<1>1. Busy(r) /\ call[r].op = "change" /\ call[r].pc = "find"
  BY DEF At
<1>2. call[r] \in Request /\ Equipped(call[r])
  BY <1>1, BusyIsRequest DEF TypeInv
<1>3. call[r].id \in Persons /\ call[r].row \in Row
  BY <1>1, <1>2 DEF Request, Equipped
<1>4. Matches(call[r], rows[call[r].id], users[call[r].id])
  BY <1>1 DEF AgreeInv
<1>5. users[call[r].id] = call[r].row.username
  BY <1>1, <1>4 DEF Matches
<1>6. call[r].row.username # NoUser
  <2>1. call[r].row.username \in Username
    BY <1>3 DEF Row
  <2>2. PICK b \in Bases, n \in 0 .. MaxCounter : call[r].row.username = <<b, n>>
    BY <2>1 DEF Username
  <2>3. <<b, n>> # <<>>
    OBVIOUS
  <2> QED
    BY <2>2, <2>3 DEF NoUser
<1> QED
  BY <1>3, <1>5, <1>6 DEF HeldBy, TypeInv, TypeOK

LEMMA ChangeAgrees ==
    ASSUME TypeInv, AgreeInv, NEW r \in Requests,
           \/ Load(r) \/ CheckNewNumber(r) \/ GenerateNew(r) \/ FindAccount(r)
           \/ Rename(r) \/ Save(r),
           AccountsAssumption
    PROVE  AgreeInv'
<1>1. Busy(r) /\ call[r].op = "change"
  BY DEF Load, CheckNewNumber, GenerateNew, FindAccount, Rename, Save, At
<1>2. call[r] \in Request /\ Equipped(call[r])
  BY <1>1, BusyIsRequest DEF TypeInv
<1>3. /\ call[r].id \in Persons /\ call[r].name \in Names /\ call[r].user \in Persons
      /\ call[r].page \in Nat
  BY <1>2 DEF Request
<1>4. call[r].user # call[r].id => call[r].user \in broken /\ call[r].id \in broken
  BY <1>1 DEF AgreeInv
<1>5. call[r].id \notin broken => Matches(call[r], rows[call[r].id], users[call[r].id])
  BY <1>1 DEF AgreeInv
<1>6. rows \in [Persons -> Row \cup {NoRow}] /\ users \in [Persons -> Username \cup {NoUser}]
  BY DEF TypeInv, TypeOK
<1>7. call[r].pc # "load" => call[r].row \in Row /\ call[r].username \in Username
  BY <1>1, <1>2 DEF Equipped
<1>8. CASE Load(r)
  <2>1. UNCHANGED <<rows, users, broken>> /\ call[r].pc = "load"
    BY <1>8 DEF Load, At
  <2>2. CASE End(r)
    BY <1>1, <2>1, <2>2, QuitAgrees
  <2>3. CASE ~End(r)
    <3> DEFINE row == rows[call[r].id]
               d == [call[r] EXCEPT !.pc = "number", !.row = row, !.username = row.username]
    <3>1. /\ row # NoRow /\ row.version = call[r].page
          /\ call' = [call EXCEPT ![r].pc = "number", ![r].row = row, ![r].username = row.username]
      BY <1>8, <2>3 DEF Load, Current
    <3>2. row \in Row /\ row.username \in Username /\ row.version \in Nat
      BY <1>3, <1>6, <3>1 DEF Row
    <3>3. call' = [call EXCEPT ![r] = d]
      BY <3>1 DEF TypeInv, CallsOK
    <3>4. call[r].id \notin broken => row.version = call[r].page /\ users[call[r].id] = row.username
      BY <1>1, <1>3, <1>5, <2>1, <3>1, <3>2 DEF Matches
    <3>5. row = rows[call[r].id]
      OBVIOUS
    <3> HIDE DEF row
    <3>6. /\ d \in Request /\ d.id = call[r].id /\ d.user = call[r].user /\ d.op = "change"
          /\ d.pc = "number" /\ d.row = row /\ d.username = row.username /\ d.page = call[r].page
      BY <1>1, <1>2, <3>2 DEF Request, Pcs
    <3> HIDE DEF d
    <3>7. d.id \notin broken' => Matches(d, rows'[d.id], users'[d.id])
      BY <2>1, <3>1, <3>4, <3>5, <3>6 DEF Matches
    <3> QED
      BY <1>1, <1>4, <2>1, <3>3, <3>6, <3>7, GoAgrees
  <2> QED
    BY <2>2, <2>3
<1>9. CASE CheckNewNumber(r)
  <2>1. UNCHANGED <<rows, users, broken>> /\ call[r].pc = "number"
    BY <1>9 DEF CheckNewNumber, At
  <2>2. CASE End(r)
    BY <1>1, <2>1, <2>2, QuitAgrees
  <2>3. CASE ~End(r)
    <3>1. PICK pc \in {"generate", "save"} : Go(r, pc) /\ (pc = "generate" <=> Rebases(r))
      BY <1>9, <2>3 DEF CheckNewNumber
    <3> DEFINE d == [call[r] EXCEPT !.pc = pc]
    <3>2. /\ d.pc = pc /\ d.op = "change" /\ d.row = call[r].row /\ d.name = call[r].name
          /\ d.username = call[r].username /\ d.page = call[r].page
      BY <1>1, <1>2 DEF Request
    <3>3. call[r].id \notin broken => Matches(d, rows[call[r].id], users[call[r].id])
      <4> HIDE DEF d
      <4> QED
        BY <1>1, <1>5, <2>1, <3>1, <3>2 DEF Matches, Rebased, Rebases
    <3> QED
      BY <1>1, <2>1, <3>1, <3>3, MoveAgrees DEF Pcs
  <2> QED
    BY <2>2, <2>3
<1>10. CASE GenerateNew(r)
  <2> DEFINE u == FreeUsername(BaseOf[call[r].name])
             d == [call[r] EXCEPT !.pc = "find", !.username = u]
  <2>1. u \in Username
    BY <1>3, FreeUsernameTyped DEF Bases
  <2>2. /\ UNCHANGED <<rows, users, broken>> /\ call[r].pc = "generate"
        /\ call' = [call EXCEPT ![r] = d]
    BY <1>10 DEF GenerateNew, At, TypeInv, CallsOK
  <2> HIDE DEF u
  <2>3. /\ d \in Request /\ d.id = call[r].id /\ d.user = call[r].user /\ d.op = "change"
        /\ d.pc = "find" /\ d.row = call[r].row /\ d.username = u /\ d.page = call[r].page
        /\ d.name = call[r].name
    BY <1>1, <1>2, <2>1 DEF Request, Pcs
  <2> HIDE DEF d
  <2>4. d.id \notin broken' => Matches(d, rows'[d.id], users'[d.id])
    BY <1>1, <1>5, <2>2, <2>3 DEF Matches, Rebased
  <2> QED
    BY <1>1, <1>4, <2>2, <2>3, <2>4, GoAgrees
<1>11. CASE FindAccount(r)
  <2>1. At(r, "change", "find") /\ call[r].pc = "find"
    BY <1>11 DEF FindAccount, At
  <2>2. CASE Refuse(r)
    BY <1>1, <2>1, <2>2, QuitAgrees DEF Refuse
  <2>3. CASE ~Refuse(r)
    <3>1. PICK p \in Persons :
            /\ HeldBy(p, call[r].row.username)
            /\ call' = [call EXCEPT ![r].pc = "rename", ![r].user = p]
            /\ broken' = IF p = call[r].id THEN broken ELSE broken \cup {p}
            /\ UNCHANGED <<rows, users, counters>>
      BY <1>11, <2>3 DEF FindAccount
    <3> DEFINE d == [call[r] EXCEPT !.pc = "rename", !.user = p]
    <3>2. call' = [call EXCEPT ![r] = d]
      BY <3>1 DEF TypeInv, CallsOK
    <3>3. /\ d \in Request /\ d.id = call[r].id /\ d.user = p /\ d.op = "change"
          /\ d.pc = "rename" /\ d.row = call[r].row /\ d.username = call[r].username
          /\ d.name = call[r].name /\ d.page = call[r].page
      BY <1>1, <1>2 DEF Request, Pcs
    <3> HIDE DEF d
    <3>4. d.user # d.id => d.user \in broken' /\ d.id \in broken'
      BY <2>1, <3>1, <3>3, OwnAccount
    <3>5. d.id \notin broken' => Matches(d, rows'[d.id], users'[d.id])
      BY <1>1, <1>5, <2>1, <3>1, <3>3 DEF Matches, Rebased
    <3> QED
      BY <1>1, <3>1, <3>2, <3>3, <3>4, <3>5, GoAgrees
  <2> QED
    BY <2>2, <2>3
<1>12. CASE Rename(r)
  <2>1. call[r].pc = "rename"
    BY <1>12 DEF Rename, At
  <2>2. CASE Refuse(r)
    BY <1>1, <2>1, <2>2, QuitAgrees DEF Refuse
  <2>3. CASE ~Refuse(r)
    <3>1. /\ users' = [users EXCEPT ![call[r].user] = call[r].username]
          /\ Go(r, "save")
          /\ UNCHANGED <<rows, broken>>
      BY <1>12, <2>3 DEF Rename
    <3> DEFINE d == [call[r] EXCEPT !.pc = "save"]
    <3>2. call' = [call EXCEPT ![r] = d]
      BY <3>1 DEF Go, TypeInv, CallsOK
    <3>3. /\ d \in Request /\ d.id = call[r].id /\ d.user = call[r].user /\ d.op = "change"
          /\ d.pc = "save" /\ d.row = call[r].row /\ d.username = call[r].username
          /\ d.name = call[r].name /\ d.page = call[r].page
      BY <1>1, <1>2 DEF Request, Pcs
    <3> HIDE DEF d
    <3>4. \A p \in Persons \ broken' : p # d.id => rows'[p] = rows[p] /\ users'[p] = users[p]
      BY <1>4, <1>6, <3>1, <3>3
    <3>5. d.id \notin broken' => users'[d.id] = call[r].username
      BY <1>3, <1>4, <1>6, <3>1, <3>3
    <3>6. d.id \notin broken' => Matches(d, rows'[d.id], users'[d.id])
      BY <1>1, <1>5, <2>1, <3>1, <3>3, <3>5 DEF Matches, Rebased
    <3> QED
      BY ZenonT(40), <1>1, <1>4, <3>1, <3>2, <3>3, <3>4, <3>6, GoAgrees
  <2> QED
    BY <2>2, <2>3
<1>13. CASE Save(r)
  <2>1. End(r) /\ UNCHANGED users /\ broken \subseteq broken' /\ call[r].pc = "save"
    BY <1>13 DEF Save, Breaks, At
  <2>2. CASE call[r].id \in broken' /\ UNCHANGED rows
    BY <1>1, <2>1, <2>2, QuitAgrees
  <2>3. CASE ~(call[r].id \in broken' /\ UNCHANGED rows)
    <3>1. rows' = [rows EXCEPT ![call[r].id] = Saved(r)] /\ UNCHANGED broken
      BY <1>13, <2>3 DEF Save, Breaks
    <3>2. /\ rows'[call[r].id] = Saved(r)
          /\ \A p \in Persons : p # call[r].id => rows'[p] = rows[p]
      BY <1>3, <1>6, <3>1
    <3>3. ASSUME call[r].id \notin broken PROVE Agrees(Saved(r), users[call[r].id])
      <4>1. /\ rows[call[r].id] # NoRow
            /\ rows[call[r].id] = call[r].row
            /\ users[call[r].id] = call[r].username
        BY <1>1, <1>5, <2>1, <3>3 DEF Matches, Rebased, Rebases
      <4>2. Saved(r).username = call[r].username
        BY <4>1 DEF Saved
      <4>3. Saved(r) # NoRow
        <5>1. Saved(r).version # NoRow.version
          BY <1>7, <2>1, <4>1 DEF Saved, NoRow, Row
        <5> QED
          BY <5>1
      <4> QED
        BY <4>1, <4>2, <4>3 DEF Agrees
    <3>4. call[r].id \notin broken' => Agrees(rows'[call[r].id], users'[call[r].id])
      BY <2>1, <3>1, <3>2, <3>3
    <3> QED
      BY <1>1, <2>1, <3>2, <3>4, EndAgrees
  <2> QED
    BY <2>2, <2>3
<1> QED
  BY <1>8, <1>9, <1>10, <1>11, <1>12, <1>13

\* A step of a PUT: what it takes apart is remembered.
LEMMA PutAgrees ==
    ASSUME TypeInv, AgreeInv, NEW r \in Requests, LoadPut(r) \/ SavePut(r)
    PROVE  AgreeInv'
<1>1. Busy(r) /\ call[r].op = "put"
  BY DEF LoadPut, SavePut, At
<1>2. call[r] \in Request /\ Equipped(call[r])
  BY <1>1, BusyIsRequest DEF TypeInv
<1>3. call[r].id \in Persons
  BY <1>2 DEF Request
<1>4. call[r].user # call[r].id => call[r].user \in broken /\ call[r].id \in broken
  BY <1>1 DEF AgreeInv
<1>5. call[r].id \notin broken => Matches(call[r], rows[call[r].id], users[call[r].id])
  BY <1>1 DEF AgreeInv
<1>6. rows \in [Persons -> Row \cup {NoRow}]
  BY DEF TypeInv, TypeOK
<1>7. CASE LoadPut(r)
  <2>1. UNCHANGED <<rows, users, broken>> /\ call[r].pc = "load"
    BY <1>7 DEF LoadPut, At
  <2>2. CASE End(r)
    BY <1>1, <2>1, <2>2, QuitAgrees
  <2>3. CASE ~End(r)
    <3> DEFINE row == rows[call[r].id]
    <3>1. row # NoRow /\ row.version = call[r].page
      BY <1>7, <2>3 DEF LoadPut, Current
    <3>2. PICK username \in Username :
            call' = [call EXCEPT ![r].pc = "save", ![r].row = row, ![r].username = username]
      BY <1>7, <2>3 DEF LoadPut
    <3> DEFINE d == [call[r] EXCEPT !.pc = "save", !.row = row, !.username = username]
    <3>3. row \in Row
      BY <1>3, <1>6, <3>1
    <3>4. call' = [call EXCEPT ![r] = d]
      BY <3>2 DEF TypeInv, CallsOK
    <3>5. row = rows[call[r].id]
      OBVIOUS
    <3> HIDE DEF row
    <3>6. /\ d \in Request /\ d.id = call[r].id /\ d.user = call[r].user /\ d.op = "put"
          /\ d.pc = "save" /\ d.row = row /\ d.page = call[r].page
      BY <1>1, <1>2, <3>3 DEF Request, Pcs
    <3> HIDE DEF d
    <3>7. d.id \notin broken' => Matches(d, rows'[d.id], users'[d.id])
      BY <1>1, <1>5, <2>1, <3>1, <3>5, <3>6 DEF Matches
    <3> QED
      BY <1>1, <1>4, <2>1, <3>4, <3>6, <3>7, GoAgrees
  <2> QED
    BY <2>2, <2>3
<1>8. CASE SavePut(r)
  <2>1. End(r) /\ UNCHANGED users /\ broken \subseteq broken' /\ call[r].pc = "save"
    BY <1>8 DEF SavePut, Breaks, At
  <2>2. CASE UNCHANGED rows
    BY <1>1, <2>1, <2>2, QuitAgrees
  <2>3. CASE rows' # rows
    <3>1. /\ rows' = [rows EXCEPT ![call[r].id] = Saved(r)]
          /\ call[r].username = call[r].row.username \/ call[r].id \in broken'
      BY <1>8, <2>3 DEF SavePut, Breaks
    <3>2. /\ rows'[call[r].id] = Saved(r)
          /\ \A p \in Persons : p # call[r].id => rows'[p] = rows[p]
      BY <1>3, <1>6, <3>1
    <3>3. ASSUME call[r].id \notin broken' PROVE Agrees(Saved(r), users[call[r].id])
      <4>1. /\ rows[call[r].id] = call[r].row /\ call[r].row \in Row
            /\ users[call[r].id] = call[r].row.username
            /\ call[r].username = call[r].row.username
        BY <1>1, <1>2, <1>5, <2>1, <3>1, <3>3 DEF Matches, Equipped
      <4>2. rows[call[r].id] # NoRow /\ call[r].row.version + 1 # 0
        BY <4>1 DEF Row, NoRow
      <4>3. Saved(r).username = call[r].row.username
        BY <4>1, <4>2 DEF Saved
      <4>4. Saved(r) # NoRow
        <5>1. Saved(r).version # NoRow.version
          BY <4>2 DEF Saved, NoRow
        <5> QED
          BY <5>1
      <4> QED
        BY <4>1, <4>3, <4>4 DEF Agrees
    <3>4. call[r].id \notin broken' => Agrees(rows'[call[r].id], users'[call[r].id])
      BY <2>1, <3>2, <3>3
    <3> QED
      BY <1>1, <2>1, <3>2, <3>4, EndAgrees
  <2> QED
    BY <2>2, <2>3
<1> QED
  BY <1>7, <1>8

\* Types, rows and accounts together are kept by every step.
Inv == TypeInv /\ AgreeInv

LEMMA InvInductive == ASSUME AccountsAssumption, Inv, [Next]_vars PROVE Inv'
<1>1. TypeInv'
  BY StepTyped DEF Inv
<1>2. CASE UNCHANGED vars
  BY <1>1, <1>2 DEF vars, Inv, AgreeInv, Quiet, Busy
<1>3. ASSUME NEW r \in Requests, Ask(r) PROVE AgreeInv'
  BY <1>3, BeginAgrees DEF Inv
<1>4. ASSUME NEW r \in Requests, Proceed(r) \/ KeycloakFails(r) PROVE AgreeInv'
  BY <1>4, CreateAgrees, ChangeAgrees, PutAgrees, DeleteAgrees DEF Proceed, Inv
<1> QED
  BY <1>1, <1>2, <1>3, <1>4 DEF Next, Inv

LEMMA InitInv == ASSUME AccountsAssumption, Init PROVE Inv
<1>1. TypeInv
  BY InitTyped
<1>2. \A p \in Persons : Agrees(rows[p], users[p])
  BY DEF Init, Agrees, Exists
<1>3. \A r \in Requests : ~Busy(r)
  BY DEF Init, Busy
<1> QED
  BY <1>1, <1>2, <1>3 DEF Inv, AgreeInv

\* A person that no request works on has an account exactly if it has a row, under
\* the username of the row, unless a call for it failed at the wrong moment, two
\* of its requests met, somebody's rename took its account for theirs, or a PUT
\* gave its row another username, of which Keycloak is not told.
THEOREM AccountsWillAgree == Spec => []AccountsAgree
<1>1. Init => Inv
  BY AccountsAssumption, InitInv
<1>2. Inv /\ [Next]_vars => Inv'
  BY AccountsAssumption, InvInductive
<1>3. Inv => AccountsAgree
  BY DEF Inv, AgreeInv, AccountsAgree, Agrees, Exists
<1> QED
  BY <1>1, <1>2, <1>3, PTL DEF Spec

\* A request is changed by its own steps only, and only by finding an account does
\* it take hold of another one.
LEMMA OwnSteps ==
    ASSUME TypeInv, NEW r \in Requests, NEW s \in Requests,
           Ask(s) \/ Proceed(s) \/ KeycloakFails(s),
           Busy(r), call'[r] # Idle, call'[r].user # call[r].user
    PROVE  s = r /\ FindAccount(r)
<1>1. call \in [Requests -> RequestState] /\ call[r] \in Request
  BY BusyIsRequest DEF TypeInv, CallsOK
<1>2. ASSUME Ask(s) PROVE FALSE
  <2>1. call[s] = Idle /\ \A t \in Requests \ {s} : call'[t] = call[t]
    BY <1>1, <1>2 DEF Ask, AskCreate, AskChange, AskPut, AskDelete, Begin
  <2> QED
    BY <2>1 DEF Busy
<1>3. ASSUME s # r, Proceed(s) \/ KeycloakFails(s) PROVE call'[r] = call[r]
  <2>1. ASSUME \/ Generate(s) \/ CheckNumber(s) \/ FindUser(s) \/ CreateUser(s)
               \/ SetPassword(s) \/ Undo(s) \/ Commit(s)
        PROVE  call'[r] = call[r]
    BY <1>1, <1>3, <2>1 DEF Generate, CheckNumber, FindUser, CreateUser, SetPassword, Undo,
       Commit, Go, End, Refuse
  <2>2. ASSUME \/ Load(s) \/ CheckNewNumber(s) \/ GenerateNew(s) \/ FindAccount(s)
               \/ Rename(s) \/ Save(s)
        PROVE  call'[r] = call[r]
    BY <1>1, <1>3, <2>2 DEF Load, CheckNewNumber, GenerateNew, FindAccount, Rename, Save, Go,
       End, Refuse
  <2>3. ASSUME LoadForDelete(s) \/ DeleteUser(s) \/ DeleteRow(s) \/ KeycloakFails(s)
        PROVE  call'[r] = call[r]
    BY <1>1, <1>3, <2>3 DEF LoadForDelete, DeleteUser, DeleteRow, KeycloakFails, Go, End
  <2>4. ASSUME LoadPut(s) \/ SavePut(s) PROVE call'[r] = call[r]
    BY <1>1, <1>3, <2>4 DEF LoadPut, SavePut, End
  <2> QED
    BY <1>3, <2>1, <2>2, <2>3, <2>4 DEF Proceed
<1>4. ASSUME \/ Generate(r) \/ CheckNumber(r) \/ FindUser(r) \/ CreateUser(r)
             \/ SetPassword(r) \/ Undo(r) \/ Commit(r)
      PROVE  call'[r] = Idle \/ call'[r].user = call[r].user
  BY <1>1, <1>4 DEF Generate, CheckNumber, FindUser, CreateUser, SetPassword, Undo,
     Commit, Go, End, Refuse, Request
<1>5. ASSUME \/ Load(r) \/ CheckNewNumber(r) \/ GenerateNew(r) \/ Rename(r) \/ Save(r)
      PROVE  call'[r] = Idle \/ call'[r].user = call[r].user
  BY <1>1, <1>5 DEF Load, CheckNewNumber, GenerateNew, Rename, Save, Go, End, Refuse, Request
<1>6. ASSUME LoadForDelete(r) \/ DeleteUser(r) \/ DeleteRow(r) \/ KeycloakFails(r)
      PROVE  call'[r] = Idle \/ call'[r].user = call[r].user
  BY <1>1, <1>6 DEF LoadForDelete, DeleteUser, DeleteRow, KeycloakFails, Go, End, Request
<1>7. ASSUME LoadPut(r) \/ SavePut(r) PROVE call'[r] = Idle \/ call'[r].user = call[r].user
  BY <1>1, <1>7 DEF LoadPut, SavePut, End, Request
<1> QED
  BY <1>2, <1>3, <1>4, <1>5, <1>6, <1>7 DEF Proceed

\* A rename takes hold of somebody else's account only if it works on a person
\* of whom an earlier request, a PUT among them, has left the row and the account
\* apart.
THEOREM OnlyOwnAccountsRenamed == Spec => RenamesOwn
<1>1. Init => Inv
  BY AccountsAssumption, InitInv
<1>2. Inv /\ [Next]_vars => Inv'
  BY AccountsAssumption, InvInductive
<1>3. ASSUME Inv, [Next]_vars
      PROVE  [\A r \in Requests :
                 Busy(r) /\ call'[r] # Idle /\ call'[r].user # call[r].user
                 => call[r].id \in broken]_vars
  <2>1. ASSUME NEW r \in Requests, NEW s \in Requests, Ask(s) \/ Proceed(s) \/ KeycloakFails(s),
               Busy(r), call'[r] # Idle, call'[r].user # call[r].user, call[r].id \notin broken
        PROVE  FALSE
    <3>1. FindAccount(r)
      BY <1>3, <2>1, OwnSteps DEF Inv
    <3>2. PICK p \in Persons :
            /\ HeldBy(p, call[r].row.username)
            /\ call' = [call EXCEPT ![r].pc = "rename", ![r].user = p]
      BY <1>3, <2>1, <3>1 DEF FindAccount, Refuse, End, Inv, TypeInv, CallsOK
    <3>3. p = call[r].id
      BY <1>3, <2>1, <3>1, <3>2, OwnAccount DEF FindAccount, Inv
    <3>4. call'[r].user = p
      BY <1>3, <2>1, <3>2, BusyIsRequest DEF Inv, TypeInv, CallsOK, Request
    <3>5. call[r].user = call[r].id
      BY <1>3, <2>1 DEF Inv, AgreeInv
    <3> QED
      BY <2>1, <3>3, <3>4, <3>5
  <2> QED
    BY <1>3, <2>1 DEF Next
<1> QED
  BY <1>1, <1>2, <1>3, PTL DEF Spec, RenamesOwn

\* A change or a PUT is written over exactly the row that the client's page showed,
\* unless requests for the person met.
THEOREM ChangesAreOfWhatWasShown == Spec => ChangesWhatWasShown
<1>1. Init => Inv
  BY AccountsAssumption, InitInv
<1>2. Inv /\ [Next]_vars => Inv'
  BY AccountsAssumption, InvInductive
<1>3. ASSUME Inv, [Next]_vars
      PROVE  [\A r \in Requests :
                 (At(r, "change", "save") \/ At(r, "put", "save")) /\ call[r].id \notin broken
                 /\ rows' # rows /\ call'[r] = Idle
                 => rows[call[r].id] = call[r].row /\ call[r].row.version = call[r].page]_vars
  BY <1>3 DEF Inv, AgreeInv, At, Matches
<1> QED
  BY <1>1, <1>2, <1>3, PTL DEF Spec, ChangesWhatWasShown

-----------------------------------------------------------------------------
(* Types of the locks on a person, for any number of requests and cron     *)
(* jobs.                                                                   *)

\* A person has one row for each occasion at most.
OnePerOccasion == \A k, l \in locks : k.occasion = l.occasion => k = l

LocksTypeInv == LocksTypeOK /\ OnePerOccasion

\* There are more ids than rows and calls that refer to one.
LEMMA FreshIdIsId == ASSUME LocksAssumption, LocksTypeInv PROVE FreshId \in Ids
<1> DEFINE Occ == {o \in Occasions : Has(locks, o)}
           A == {n \in Ids : \E l \in locks : l.id = n}
           B == {n \in Ids : \E c \in All : target[c] = n}
           T == {c \in All : target[c] \in Ids}
<1>1. IsFiniteSet(All) /\ Cardinality(All) \in Nat
  BY FS_CardinalityType DEF LocksAssumption, All
<1>2. IsFiniteSet(Ids) /\ Cardinality(Ids) = Cardinality(All) + 3
  BY SMTT(30), <1>1, FS_Interval DEF Ids
<1>3. IsFiniteSet(Occasions) /\ Cardinality(Occasions) <= 2
  <2>1. IsFiniteSet({Manuell}) /\ Cardinality({Manuell}) = 1
    BY FS_Singleton
  <2>2. Occasions = {Manuell} \cup {KoPers}
    BY DEF Occasions
  <2> DEFINE M == {Manuell}
  <2>3. /\ IsFiniteSet(M \cup {KoPers})
        /\ Cardinality(M \cup {KoPers}) = IF KoPers \in M THEN Cardinality(M) ELSE Cardinality(M) + 1
    <3> HIDE DEF M
    <3> QED BY <2>1, FS_AddElement DEF M
  <2> QED
    BY <2>1, <2>2, <2>3
<1>4. IsFiniteSet(A) /\ IsFiniteSet(B) /\ IsFiniteSet(Occ) /\ IsFiniteSet(T)
      /\ Cardinality(Occ) <= 2 /\ Cardinality(T) <= Cardinality(All)
  <2>1. A \in SUBSET Ids /\ B \in SUBSET Ids /\ Occ \in SUBSET Occasions /\ T \in SUBSET All
    OBVIOUS
  <2>2. /\ Cardinality(Occ) \in Nat /\ Cardinality(Occasions) \in Nat
        /\ Cardinality(Occ) <= Cardinality(Occasions)
    <3> HIDE DEF Occ
    <3> QED BY <1>3, <2>1, FS_Subset, FS_CardinalityType
  <2> HIDE DEF A, B, Occ, T
  <2> QED
    BY <1>1, <1>2, <1>3, <2>1, <2>2, FS_Subset
<1>5. Cardinality(A) <= Cardinality(Occ)
  <2> DEFINE f == [o \in Occ |-> (CHOOSE l \in locks : l.occasion = o).id]
  <2>1. ASSUME NEW o \in Occ
        PROVE  \E l \in locks : l.occasion = o /\ f[o] = l.id
    BY DEF Has
  <2>2. f \in [Occ -> A]
    <3>1. \A l \in locks : l.id \in A
      BY DEF LocksTypeInv, LocksTypeOK, Lock
    <3> QED
      BY <2>1, <3>1
  <2>3. ASSUME NEW n \in A PROVE \E o \in Occ : f[o] = n
    <3>1. PICK l \in locks : l.id = n
      OBVIOUS
    <3>2. l.occasion \in Occ
      BY DEF LocksTypeInv, LocksTypeOK, Lock, Has
    <3>3. PICK k \in locks : k.occasion = l.occasion /\ f[l.occasion] = k.id
      BY <2>1, <3>2
    <3>4. k = l
      BY <3>3 DEF LocksTypeInv, OnePerOccasion
    <3> QED
      BY <3>1, <3>2, <3>3, <3>4
  <2> HIDE DEF f, A, Occ
  <2>4. f \in Surjection(Occ, A)
    BY <2>2, <2>3 DEF Surjection
  <2> QED
    BY <1>4, <2>4, FS_Surjection
<1>6. Cardinality(B) <= Cardinality(T)
  <2> DEFINE g == [c \in T |-> target[c]]
  <2>1. g \in [T -> B]
    OBVIOUS
  <2>2. \A n \in B : \E c \in T : g[c] = n
    OBVIOUS
  <2> HIDE DEF g, B, T
  <2>3. g \in Surjection(T, B)
    BY <2>1, <2>2 DEF Surjection
  <2> QED
    BY <1>4, <2>3, FS_Surjection
<1>7. \E n \in Ids : n \notin A \cup B
  <2> SUFFICES ASSUME Ids \subseteq A \cup B PROVE FALSE
    OBVIOUS
  <2>1. Ids = A \cup B
    OBVIOUS
  <2> HIDE DEF A, B, Occ, T
  <2>2. Cardinality(A \cup B) <= Cardinality(A) + Cardinality(B)
    <3>1. /\ Cardinality(A \cup B) = Cardinality(A) + Cardinality(B) - Cardinality(A \cap B)
          /\ IsFiniteSet(A \cap B)
      BY <1>4, FS_Union, FS_Intersection
    <3> QED
      BY <1>4, <3>1, FS_CardinalityType
  <2>3. Cardinality(A) \in Nat /\ Cardinality(B) \in Nat /\ Cardinality(Occ) \in Nat
        /\ Cardinality(T) \in Nat
    BY <1>4, FS_CardinalityType
  <2> QED
    BY <1>1, <1>2, <1>4, <1>5, <1>6, <2>1, <2>2, <2>3
<1> QED
  BY <1>7 DEF FreshId

CallsTyped == stage \in [All -> Steps] /\ job \in [All -> Job] /\ target \in [All -> Ids \cup {0}]

LocksTyped == locks \subseteq Lock /\ OnePerOccasion

FlagsTyped ==
    enabled \in BOOLEAN /\ numbered \in BOOLEAN /\ matches \in [All -> BOOLEAN] /\ refused \in BOOLEAN

LEMMA LocksTypeParts == LocksTypeInv <=> CallsTyped /\ LocksTyped /\ FlagsTyped
BY DEF LocksTypeInv, LocksTypeOK, CallsTyped, LocksTyped, FlagsTyped

LEMMA LocksInitTyped == ASSUME LocksAssumption, LocksInit PROVE LocksTypeInv
BY DEF LocksInit, LocksTypeInv, LocksTypeOK, OnePerOccasion, Steps, Inside, Job, LockJob, Occasions, Until

\* Who calls, and what goes on around updateKeycloakUserStatus().
LEMMA CallersTyped ==
    ASSUME LocksTypeInv, NEW c \in All,
           \/ AskLock(c) \/ AskUnlock(c) \/ CronKoPers(c) \/ CronExpired(c)
           \/ AskMetadata(c) \/ FindKoPersLock(c) \/ SaveMetadata(c) \/ CronAgain(c)
    PROVE  LocksTypeInv'
<1>1. CallsTyped /\ LocksTyped /\ FlagsTyped
  BY LocksTypeParts
<1>2. \A until \in Until, next \in {"done", "save"} :
        LockJob(Manuell, until) \in Job /\ LockJob(KoPers, until) \in Job
        /\ UnlockJob(Manuell, next) \in Job /\ UnlockJob(KoPers, next) \in Job
  BY DEF LockJob, UnlockJob, Job, Occasions, Until
<1>3. {"never", "later"} \subseteq Until /\ \A l \in locks : l.occasion \in {Manuell, KoPers}
  BY <1>1 DEF Until, LocksTyped, Lock, Occasions
<1>4. {"idle", "asked", "metadata", "save", "done", "rejected"} \subseteq Steps
  BY DEF Steps
<1>5. ASSUME NEW j \in Job, AskFor(c, j) PROVE LocksTypeInv'
  BY <1>1, <1>4, <1>5 DEF AskFor, CallsTyped, LocksTyped, FlagsTyped, LocksTypeInv, LocksTypeOK, OnePerOccasion
<1>6. CASE AskLock(c) \/ AskUnlock(c) \/ CronKoPers(c) \/ CronExpired(c)
  <2>1. \E j \in Job : AskFor(c, j)
    BY <1>2, <1>3, <1>6 DEF AskLock, AskUnlock, CronKoPers, CronExpired
  <2> QED
    BY <1>5, <2>1
<1>7. CASE AskMetadata(c) \/ SaveMetadata(c)
  BY <1>1, <1>4, <1>7 DEF AskMetadata, SaveMetadata, CallsTyped, LocksTyped, FlagsTyped,
     LocksTypeInv, LocksTypeOK, OnePerOccasion
<1>8. CASE FindKoPersLock(c) \/ CronAgain(c)
  <2>1. UnlockJob(KoPers, "save") \in Job /\ LockJob(Manuell, "never") \in Job
    BY <1>2, <1>3
  <2> QED
    BY <1>1, <1>4, <1>8, <2>1 DEF FindKoPersLock, CronAgain, CallsTyped, LocksTyped, FlagsTyped,
       LocksTypeInv, LocksTypeOK, OnePerOccasion
<1> QED
  BY <1>6, <1>7, <1>8

\* updateKeycloakUserStatus().
LEMMA UpdateTyped ==
    ASSUME LocksAssumption, LocksTypeInv, NEW c \in All, UpdateKeycloakUserStatus(c) PROVE LocksTypeInv'
<1>1. CallsTyped /\ LocksTyped /\ FlagsTyped
  BY LocksTypeParts
<1>2. /\ Inside \cup {"idle", "asked", "metadata", "save", "done", "rejected", "failed"} \subseteq Steps
      /\ {"create", "find", "flush", "disable", "reread", "enable"} = Inside
      /\ job[c] \in Job
  BY <1>1 DEF Steps, Inside, CallsTyped
<1>3. job[c].occasion \in Occasions /\ job[c].until \in Until /\ job[c].next \in {"done", "save"}
  BY <1>2 DEF Job
<1>4. CASE LookForLock(c) \/ Disable(c) \/ RereadLocks(c) \/ Enable(c)
  BY <1>1, <1>2, <1>3, <1>4 DEF LookForLock, Disable, RereadLocks, Enable, GoTo,
     CallsTyped, LocksTyped, FlagsTyped, LocksTypeInv, LocksTypeOK, OnePerOccasion
<1>5. CASE CreateLock(c)
  <2>1. CallsTyped' /\ FlagsTyped'
    BY <1>1, <1>2, <1>5 DEF CreateLock, GoTo, CallsTyped, FlagsTyped
  <2> DEFINE l == [id |-> FreshId, occasion |-> job[c].occasion, until |-> job[c].until]
  <2>2. l \in Lock /\ l.occasion = job[c].occasion
    BY <1>3, FreshIdIsId DEF Lock
  <2>3. locks' = locks \/ (~Has(locks, l.occasion) /\ locks' = locks \cup {l})
    BY <1>5 DEF CreateLock
  <2> HIDE DEF l
  <2>4. LocksTyped'
    BY <1>1, <2>2, <2>3 DEF LocksTyped, OnePerOccasion, Has
  <2> QED
    BY <2>1, <2>4 DEF CallsTyped, FlagsTyped, LocksTyped, LocksTypeInv, LocksTypeOK, OnePerOccasion
<1>6. CASE FindRow(c)
  <2>1. \A l \in locks : l.id \in Ids
    BY <1>1 DEF LocksTyped, Lock
  <2> QED
    BY <1>1, <1>2, <1>6, <2>1 DEF FindRow, GoTo, CallsTyped, LocksTyped, FlagsTyped, LocksTypeInv,
       LocksTypeOK, OnePerOccasion
<1>7. CASE FlushRow(c)
  <2>1. CallsTyped' /\ FlagsTyped'
    BY <1>1, <1>2, <1>7 DEF FlushRow, GoTo, CallsTyped, FlagsTyped
  <2> DEFINE rest == {l \in locks : l.id # target[c]}
             n == [id |-> target[c], occasion |-> job[c].occasion, until |-> job[c].until]
  <2>2. locks' = locks \/ (rest # locks /\ ~Has(rest, n.occasion) /\ locks' = rest \cup {n})
    BY <1>7 DEF FlushRow
  <2>3. rest # locks => n \in Lock
    BY <1>1, <1>3 DEF LocksTyped, Lock
  <2>4. rest \subseteq locks
    OBVIOUS
  <2> HIDE DEF n, rest
  <2>5. LocksTyped'
    BY <1>1, <2>2, <2>3, <2>4 DEF LocksTyped, OnePerOccasion, Has
  <2> QED
    BY <2>1, <2>5 DEF CallsTyped, FlagsTyped, LocksTyped, LocksTypeInv, LocksTypeOK, OnePerOccasion
<1>8. CASE DeleteLock(c)
  BY <1>1, <1>2, <1>8 DEF DeleteLock, GoTo, CallsTyped, LocksTyped, FlagsTyped, LocksTypeInv, LocksTypeOK,
     OnePerOccasion
<1> QED
  BY <1>4, <1>5, <1>6, <1>7, <1>8 DEF UpdateKeycloakUserStatus

LEMMA TimeTyped == ASSUME LocksTypeInv, TimePasses PROVE LocksTypeInv'
<1>1. CallsTyped /\ LocksTyped /\ FlagsTyped
  BY LocksTypeParts
<1>2. PICK l \in locks : locks' = (locks \ {l}) \cup {[l EXCEPT !.until = "past"]}
  BY DEF TimePasses
<1> DEFINE n == [l EXCEPT !.until = "past"]
<1>3. n \in Lock /\ n.occasion = l.occasion
  BY <1>1 DEF LocksTyped, Lock, Until
<1>4. locks' = (locks \ {l}) \cup {n}
  BY <1>2
<1> HIDE DEF n
<1>5. LocksTyped'
  BY <1>1, <1>3, <1>4 DEF LocksTyped, OnePerOccasion
<1>6. UNCHANGED <<enabled, numbered, stage, job, target, matches, refused>>
  BY DEF TimePasses
<1> QED
  BY <1>1, <1>5, <1>6 DEF CallsTyped, FlagsTyped, LocksTyped, LocksTypeInv, LocksTypeOK, OnePerOccasion

LEMMA LocksStepTyped == ASSUME LocksAssumption, LocksTypeInv, [LocksNext]_lockVars PROVE LocksTypeInv'
<1>1. CASE UNCHANGED lockVars
  BY <1>1 DEF lockVars, LocksTypeInv, LocksTypeOK, OnePerOccasion
<1>2. ASSUME NEW c \in All, CallFails(c) PROVE LocksTypeInv'
  BY <1>2 DEF CallFails, GoTo, Steps, LocksTypeInv, LocksTypeOK, OnePerOccasion
<1> QED
  BY <1>1, <1>2, CallersTyped, UpdateTyped, TimeTyped DEF LocksNext

\* The variables keep their types.
THEOREM LocksTypeCorrect == LocksSpec => []LocksTypeOK
<1>1. LocksInit => LocksTypeInv
  BY LocksAssumption, LocksInitTyped
<1>2. LocksTypeInv /\ [LocksNext]_lockVars => LocksTypeInv'
  BY LocksAssumption, LocksStepTyped
<1>3. LocksTypeInv => LocksTypeOK
  BY DEF LocksTypeInv
<1> QED
  BY <1>1, <1>2, <1>3, PTL DEF LocksSpec

-----------------------------------------------------------------------------
(* The locks and the flag, when calls that lock overlap no others.         *)

\* A call that locks is alone inside, and a call inside does what it was asked to.
LockersAlone ==
    /\ \A c, e \in All : stage[c] \in Inside /\ stage[e] \in Inside /\ c # e =>
        ~job[c].lock /\ ~job[e].lock
    /\ \A c \in All :
        /\ stage[c] \in {"create", "find", "flush", "disable"} => job[c].lock
        /\ stage[c] \in {"reread", "enable"} => ~job[c].lock

\* The flag is behind the rows only while a call is about to write it.
FlagFollows ==
    /\ \A c \in All : stage[c] \in {"flush", "disable"} => locks # {}
    /\ \A c \in All : stage[c] = "enable" => locks = {}
    /\ locks # {} /\ (\A c \in All : stage[c] # "disable") => ~enabled
    /\ locks = {} => enabled \/ \E c \in All : stage[c] \in {"reread", "enable"}

LockInv == LockersAlone /\ (~refused => FlagFollows)

\* Steps outside of updateKeycloakUserStatus() change neither rows nor flag.
LEMMA OutsideLocks ==
    ASSUME LocksTypeInv, LockInv, NEW c \in All,
           \/ AskLock(c) \/ AskUnlock(c) \/ CronKoPers(c) \/ CronExpired(c)
           \/ AskMetadata(c) \/ FindKoPersLock(c) \/ SaveMetadata(c) \/ CronAgain(c)
    PROVE  LockInv'
<1>1. /\ UNCHANGED <<locks, enabled, refused>>
      /\ stage[c] \notin Inside /\ stage'[c] \notin Inside
      /\ \A e \in All \ {c} : stage'[e] = stage[e] /\ job'[e] = job[e]
  <2>1. stage \in [All -> Steps] /\ job \in [All -> Job]
    BY DEF LocksTypeInv, LocksTypeOK
  <2>2. ASSUME NEW j, AskFor(c, j)
        PROVE  /\ UNCHANGED <<locks, enabled, refused>>
               /\ stage[c] = "idle" /\ stage'[c] = "asked"
               /\ \A e \in All \ {c} : stage'[e] = stage[e] /\ job'[e] = job[e]
    BY <2>1, <2>2 DEF AskFor
  <2>3. CASE AskLock(c) \/ AskUnlock(c) \/ CronKoPers(c) \/ CronExpired(c)
    <3>1. \E j : AskFor(c, j)
      BY <2>3 DEF AskLock, AskUnlock, CronKoPers, CronExpired
    <3> QED
      BY <2>2, <3>1 DEF Inside
  <2>4. CASE AskMetadata(c) \/ FindKoPersLock(c) \/ SaveMetadata(c) \/ CronAgain(c)
    BY <2>1, <2>4 DEF AskMetadata, FindKoPersLock, SaveMetadata, CronAgain, Inside
  <2> QED
    BY <2>3, <2>4
<1>2. LockersAlone'
  BY <1>1 DEF LockInv, LockersAlone, Inside
<1>3. ~refused => FlagFollows'
  BY <1>1 DEF LockInv, FlagFollows, Inside
<1> QED
  BY <1>1, <1>2, <1>3 DEF LockInv

\* A call that enters or goes on inside keeps lockers alone.
LEMMA AloneKept ==
    ASSUME ~Overlap, LocksTypeInv, LockInv, NEW c \in All, UpdateKeycloakUserStatus(c)
    PROVE  LockersAlone'
<1>1. /\ stage \in [All -> Steps] /\ UNCHANGED job
      /\ job[c].next \notin Inside
  BY DEF LocksTypeInv, LocksTypeOK, Job, Inside, UpdateKeycloakUserStatus, LookForLock, CreateLock, FindRow,
     FlushRow, Disable, DeleteLock, RereadLocks, Enable
<1>2. \A e \in All \ {c} : stage'[e] = stage[e]
  BY <1>1 DEF UpdateKeycloakUserStatus, LookForLock, CreateLock, FindRow, FlushRow, Disable,
     DeleteLock, RereadLocks, Enable, GoTo
<1>3. CASE LookForLock(c) \/ DeleteLock(c)
  <2>1. \A e \in All : stage[e] \in Inside => ~job[c].lock /\ ~job[e].lock
    BY <1>3 DEF LookForLock, DeleteLock, MayEnter
  <2>2. /\ stage'[c] \in {"create", "find", "reread"}
        /\ stage'[c] \in {"create", "find"} <=> job[c].lock
    BY <1>1, <1>3 DEF LookForLock, DeleteLock, GoTo
  <2> QED
    BY <1>1, <1>2, <2>1, <2>2 DEF LockInv, LockersAlone, Inside
<1>4. CASE \/ CreateLock(c) \/ FindRow(c) \/ FlushRow(c) \/ Disable(c)
           \/ RereadLocks(c) \/ Enable(c)
  <2>1. /\ stage[c] \in Inside
        /\ \/ stage'[c] \notin Inside
           \/ stage[c] \in {"create", "find", "flush"} /\ stage'[c] \in {"flush", "disable"}
           \/ stage[c] = "reread" /\ stage'[c] = "enable"
    BY <1>1, <1>4 DEF CreateLock, FindRow, FlushRow, Disable, RereadLocks, Enable,
       GoTo, Inside
  <2> QED
    BY <1>1, <1>2, <2>1 DEF LockInv, LockersAlone, Inside
<1> QED
  BY <1>3, <1>4 DEF UpdateKeycloakUserStatus

\* A call that locks meets nobody else inside.
LEMMA LockerMeetsNobody ==
    ASSUME LockersAlone, NEW c \in All, stage[c] \in {"create", "find", "flush", "disable"}
    PROVE  \A e \in All \ {c} : stage[e] \notin Inside
BY DEF LockersAlone, Inside

LEMMA FlagKept ==
    ASSUME ~Overlap, LocksTypeInv, LockersAlone, FlagFollows, NEW c \in All,
           UpdateKeycloakUserStatus(c), ~refused'
    PROVE  FlagFollows'
<1>1. /\ stage \in [All -> Steps]
      /\ job[c].next \notin Inside
  BY DEF LocksTypeInv, LocksTypeOK, Job, Inside
<1>2. CASE LookForLock(c)
  <2>1. /\ UNCHANGED <<locks, enabled>> /\ stage[c] = "asked" /\ stage'[c] \in {"create", "find"}
        /\ \A e \in All \ {c} : stage'[e] = stage[e]
    BY <1>1, <1>2 DEF LookForLock, GoTo
  <2> QED
    BY <2>1 DEF FlagFollows
<1>3. CASE CreateLock(c) \/ FindRow(c) \/ FlushRow(c)
  <2>1. \A e \in All \ {c} : stage'[e] = stage[e] /\ stage[e] \notin Inside
    BY <1>1, <1>3, LockerMeetsNobody DEF CreateLock, FindRow, FlushRow, GoTo
  <2>2. \/ stage'[c] = "failed" /\ UNCHANGED locks
        \/ stage'[c] \in {"flush", "disable"} /\ locks' # {} /\ (stage'[c] = "flush" => UNCHANGED locks)
    BY <1>1, <1>3 DEF CreateLock, FindRow, FlushRow, GoTo, FlagFollows
  <2>3. UNCHANGED enabled /\ stage[c] \in {"create", "find", "flush"}
    BY <1>3 DEF CreateLock, FindRow, FlushRow
  <2> QED
    BY <2>1, <2>2, <2>3 DEF FlagFollows, Inside
<1>4. CASE Disable(c)
  <2>1. /\ ~enabled' /\ UNCHANGED locks /\ stage[c] = "disable" /\ stage'[c] = "done"
        /\ \A e \in All \ {c} : stage'[e] = stage[e] /\ stage[e] \notin Inside
    BY <1>1, <1>4, LockerMeetsNobody DEF Disable, GoTo
  <2> QED
    BY <2>1 DEF FlagFollows, Inside
<1>5. CASE DeleteLock(c)
  <2>1. /\ UNCHANGED enabled /\ locks' \subseteq locks /\ stage[c] = "asked" /\ stage'[c] = "reread"
        /\ \A e \in All \ {c} : stage'[e] = stage[e]
    BY <1>1, <1>5 DEF DeleteLock, GoTo
  <2>2. \A e \in All : stage[e] \notin {"flush", "disable"}
    BY <1>5 DEF DeleteLock, MayEnter, LockersAlone, Inside
  <2> QED
    BY <2>1, <2>2 DEF FlagFollows
<1>6. CASE RereadLocks(c)
  <2>1. /\ UNCHANGED <<enabled, locks>> /\ stage[c] = "reread"
        /\ stage'[c] = IF locks = {} THEN "enable" ELSE job[c].next
        /\ \A e \in All \ {c} : stage'[e] = stage[e]
    BY <1>1, <1>6 DEF RereadLocks, GoTo
  <2> QED
    BY <1>1, <2>1 DEF FlagFollows, Inside
<1>7. CASE Enable(c)
  <2>1. /\ enabled' = TRUE /\ UNCHANGED locks /\ stage[c] = "enable" /\ stage'[c] = job[c].next
        /\ \A e \in All \ {c} : stage'[e] = stage[e]
    BY <1>1, <1>7 DEF Enable, GoTo
  <2> QED
    BY <1>1, <2>1 DEF FlagFollows, Inside
<1> QED
  BY <1>2, <1>3, <1>4, <1>5, <1>6, <1>7 DEF UpdateKeycloakUserStatus

\* A call that fails before it writes leaves the flag as far behind the rows as
\* it was: not at all, where it was to lock.
LEMMA FailureKeeps == ASSUME LocksTypeInv, LockInv, NEW c \in All, CallFails(c) PROVE LockInv'
<1>1. /\ UNCHANGED <<locks, enabled, job>> /\ stage'[c] = "failed"
      /\ \A e \in All \ {c} : stage'[e] = stage[e]
      /\ ~refused' => ~refused /\ stage[c] \notin {"disable", "reread", "enable"}
  BY DEF CallFails, GoTo, LocksTypeInv, LocksTypeOK
<1>2. LockersAlone'
  BY <1>1 DEF LockInv, LockersAlone, Inside
<1>3. ~refused' => FlagFollows'
  BY <1>1 DEF LockInv, FlagFollows
<1> QED
  BY <1>2, <1>3 DEF LockInv

LEMMA LockInductive ==
    ASSUME ~Overlap, LocksTypeInv, LockInv, [LocksNext]_lockVars PROVE LockInv'
<1>1. ASSUME NEW c \in All, UpdateKeycloakUserStatus(c) PROVE LockInv'
  <2>1. ~refused' => ~refused
    BY <1>1 DEF UpdateKeycloakUserStatus, LookForLock, CreateLock, FindRow,
       FlushRow, Disable, DeleteLock, RereadLocks, Enable
  <2> QED
    BY <1>1, <2>1, AloneKept, FlagKept DEF LockInv
<1>2. CASE TimePasses
  <2>1. /\ (locks' = {}) <=> (locks = {})
        /\ UNCHANGED <<enabled, stage, job, refused>>
    BY <1>2 DEF TimePasses
  <2> QED
    BY <2>1 DEF LockInv, LockersAlone, FlagFollows
<1>3. CASE UNCHANGED lockVars
  BY <1>3 DEF lockVars, LockInv, LockersAlone, FlagFollows
<1> QED
  BY <1>1, <1>2, <1>3, OutsideLocks, FailureKeeps DEF LocksNext

\* Whenever no call is inside updateKeycloakUserStatus() and none failed between
\* its writes to the table and to Keycloak, the account is disabled exactly while a lock is left, provided that calls
\* that lock overlap no others.
THEOREM LockedExactlyIfDisabled == ASSUME ~Overlap PROVE LocksSpec => []LockedIffDisabled
<1>1. LocksInit => LocksTypeInv /\ LockInv
  BY LocksAssumption, LocksInitTyped DEF LocksInit, LockInv, LockersAlone, FlagFollows, Inside
<1>2. LocksTypeInv /\ LockInv /\ [LocksNext]_lockVars => (LocksTypeInv /\ LockInv)'
  BY LocksAssumption, LocksStepTyped, LockInductive
<1>3. LocksTypeInv /\ LockInv => LockedIffDisabled
  BY DEF LockInv, FlagFollows, LockedIffDisabled, Inside, LocksTypeInv, LocksTypeOK
<1> QED
  BY <1>1, <1>2, <1>3, PTL DEF LocksSpec
=============================================================================
