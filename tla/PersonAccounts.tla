--------------------------- MODULE PersonAccounts ---------------------------
(***************************************************************************)
(* Persons and their accounts in Keycloak under concurrent requests that   *)
(* create persons, change their names and Personalnummern, replace their   *)
(* data and delete them.  A request writes to Keycloak and to the table in *)
(* turn, but for the replacing one, which writes to the table only; the    *)
(* database can be rolled back, Keycloak cannot.  Usernames are unique in  *)
(* Keycloak only, Personalnummern in the table only.                       *)
(*                                                                         *)
(* The account of a person is the one that was created for it; the row has *)
(* its id.  updatedAt and revision of a row, both compared with what the   *)
(* client's page shows, are one version here.                              *)
(***************************************************************************)
EXTENDS Naturals, FiniteSets, FiniteSetsExt

CONSTANTS
    Persons,
    Names,          \* names of persons
    BaseOf,         \* the username that is made of a name
    FormOf,         \* what of a name decides whether a new username is made
    Nummern,        \* Personalnummern
    Requests,       \* requests that may be under way at the same time
    MaxCalls,       \* bound: requests made in all
    MaxFailures     \* bound: calls to Keycloak and the database that fail

Bases == {BaseOf[n] : n \in Names}
MaxCounter == Cardinality(Persons)

ASSUME AccountsAssumption ==
    /\ IsFiniteSet(Persons)
    /\ DOMAIN BaseOf = Names /\ DOMAIN FormOf = Names
    /\ Nummern \cap {0} = {}
    /\ MaxCalls \in Nat /\ MaxFailures \in Nat

VARIABLES
    rows,       \* the table
    users,      \* the usernames of the accounts in Keycloak
    call,       \* the requests
    calls, failures,    \* counters of the bounds
    broken      \* history: persons whose requests met, failed or were mixed up,
                \* or whose row was given a username without their account

vars == <<rows, users, call, calls, failures, broken>>
counters == <<calls, failures>>

Username == Bases \X (0 .. MaxCounter)
NoRow == [version |-> 0]
NoUser == <<>>
Idle == [pc |-> "idle"]
NoNummer == 0
Row == [name : Names, username : Username, nummer : Nummern \cup {NoNummer},
        version : Nat \ {0}]

Exists(p) == rows[p] # NoRow
HasUser(p) == users[p] # NoUser
HeldBy(p, username) == users[p] = username
Taken(username) == \E p \in Persons : HeldBy(p, username)
NummerTaken(nummer) == \E p \in Persons : Exists(p) /\ rows[p].nummer = nummer
Busy(r) == call[r] # Idle
Quiet(p) == \A r \in Requests : Busy(r) => call[r].id # p

\* generateUsername(): the first one that Keycloak does not have.
FreeUsername(base) == <<base, Min({n \in 0 .. MaxCounter : ~Taken(<<base, n>>)})>>

-----------------------------------------------------------------------------
(* Requests begin.                                                         *)

Begin(r, op, id, name, nummer, page) ==
    /\ call[r] = Idle
    /\ calls < MaxCalls
    /\ calls' = calls + 1
    /\ call' = [call EXCEPT ![r] =
           [pc |-> "load", op |-> op, id |-> id, name |-> name, nummer |-> nummer,
            page |-> page, row |-> NoRow, username |-> NoUser, user |-> id]]
    /\ broken' = IF Quiet(id) THEN broken ELSE broken \cup {id}
    /\ UNCHANGED <<rows, users, failures>>

AskCreate(r) ==
    \E p \in Persons, name \in Names, nummer \in Nummern \cup {NoNummer} :
        /\ ~Exists(p) /\ ~HasUser(p) /\ Quiet(p)
        /\ Begin(r, "create", p, name, nummer, 0)

\* The client's page shows some version of the row.
AskChange(r) ==
    \E p \in Persons, name \in Names, nummer \in Nummern \cup {NoNummer} :
        /\ Exists(p)
        /\ \E page \in 1 .. rows[p].version : Begin(r, "change", p, name, nummer, page)

\* PUT: name and username are replaced, the latter by whatever the body says.
AskPut(r) ==
    \E p \in Persons, name \in Names :
        /\ Exists(p)
        /\ \E page \in 1 .. rows[p].version : Begin(r, "put", p, name, NoNummer, page)

AskDelete(r) ==
    \E p \in Persons : Exists(p) /\ Begin(r, "delete", p, rows[p].name, NoNummer, 0)

-----------------------------------------------------------------------------
(* How requests go on.                                                     *)

At(r, op, pc) == Busy(r) /\ call[r].op = op /\ call[r].pc = pc
Go(r, pc) == call' = [call EXCEPT ![r].pc = pc]
End(r) == call' = [call EXCEPT ![r] = Idle]
Refuse(r) == End(r) /\ UNCHANGED <<rows, users, counters, broken>>

\* A call fails, or the table refuses a second person with the same number.
Fault ==
    /\ failures < MaxFailures
    /\ failures' = failures + 1
    /\ UNCHANGED calls
Breaks(r) == broken' = broken \cup {call[r].id}

-----------------------------------------------------------------------------
(* create().                                                               *)

\* createNew() has chosen the username.
Generate(r) ==
    /\ At(r, "create", "load")
    /\ call' = [call EXCEPT ![r].pc = "number", ![r].username = FreeUsername(BaseOf[call[r].name])]
    /\ UNCHANGED <<rows, users, counters, broken>>

CheckNumber(r) ==
    /\ At(r, "create", "number")
    /\ IF call[r].nummer # NoNummer /\ NummerTaken(call[r].nummer)
       THEN End(r) ELSE Go(r, "find")
    /\ UNCHANGED <<rows, users, counters, broken>>

\* An account that cannot be looked for counts as one that is not there.
FindUser(r) ==
    /\ At(r, "create", "find")
    /\ \/ /\ IF Taken(call[r].username) THEN End(r) ELSE Go(r, "user")
          /\ UNCHANGED counters
       \/ Go(r, "user") /\ Fault
    /\ UNCHANGED <<rows, users, broken>>

\* A person with a hashed password needs no call that sets it.
CreateUser(r) ==
    /\ At(r, "create", "user")
    /\ \/ Taken(call[r].username) /\ Refuse(r)
       \/ /\ ~Taken(call[r].username)
          /\ users' = [users EXCEPT ![call[r].id] = call[r].username]
          /\ Go(r, "password") \/ Go(r, "commit")
          /\ UNCHANGED <<rows, counters, broken>>

SetPassword(r) ==
    /\ At(r, "create", "password")
    /\ UNCHANGED <<rows, users, broken>>
    /\ \/ Go(r, "commit") /\ UNCHANGED counters
       \/ Go(r, "undo") /\ Fault

\* Mutant: a password that cannot be set ends the request.
MutantUndo(r) == At(r, "create", "undo") /\ Refuse(r)

\* The account goes again when its password cannot be set.
Undo(r) ==
    /\ At(r, "create", "undo")
    /\ End(r)
    /\ UNCHANGED rows
    /\ \/ /\ users' = [users EXCEPT ![call[r].id] = NoUser]
          /\ UNCHANGED <<counters, broken>>
       \/ Fault /\ Breaks(r) /\ UNCHANGED users

\* The unique index on personalnummer.
Conflict(r, nummer) ==
    nummer # NoNummer /\ \E p \in Persons \ {call[r].id} : Exists(p) /\ rows[p].nummer = nummer

\* What is rolled back if the commit fails is the row only.
Commit(r) ==
    /\ At(r, "create", "commit")
    /\ End(r)
    /\ UNCHANGED users
    /\ \/ /\ ~Conflict(r, call[r].nummer)
          /\ rows' = [rows EXCEPT ![call[r].id] =
                 [name |-> call[r].name, username |-> call[r].username,
                  nummer |-> call[r].nummer, version |-> 1]]
          /\ UNCHANGED <<counters, broken>>
       \/ /\ Breaks(r) /\ UNCHANGED rows
          /\ IF Conflict(r, call[r].nummer) THEN UNCHANGED counters ELSE Fault

-----------------------------------------------------------------------------
(* updatePersonMetadata() and update().                                    *)

Renames(r) == call[r].name # call[r].row.name
Rebases(r) == FormOf[call[r].name] # FormOf[call[r].row.name]

\* Mutant: the page of the client may be old.
MutantCurrent(r, row) == TRUE

\* A revision that differs is refused, updatedAt > lastModified as well.
Current(r, row) == row.version = call[r].page

Load(r) ==
    /\ At(r, "change", "load")
    /\ LET row == rows[call[r].id]
       IN  IF /\ row # NoRow
              /\ row.name # call[r].name \/ call[r].nummer # NoNummer
              /\ Current(r, row)
           THEN call' = [call EXCEPT ![r].pc = "number", ![r].row = row,
                             ![r].username = row.username]
           ELSE End(r)
    /\ UNCHANGED <<rows, users, counters, broken>>

\* Any person counts, the one of the request included.
CheckNewNumber(r) ==
    /\ At(r, "change", "number")
    /\ IF call[r].nummer # NoNummer /\ NummerTaken(call[r].nummer) THEN End(r)
       ELSE Go(r, IF Rebases(r) THEN "generate" ELSE "save")
    /\ UNCHANGED <<rows, users, counters, broken>>

GenerateNew(r) ==
    /\ At(r, "change", "generate")
    /\ call' = [call EXCEPT ![r].pc = "find", ![r].username = FreeUsername(BaseOf[call[r].name])]
    /\ UNCHANGED <<rows, users, counters, broken>>

\* updateUsername() looks for the account by the former username, not by its id;
\* whoever has it is renamed.
FindAccount(r) ==
    /\ At(r, "change", "find")
    /\ \/ /\ ~Taken(call[r].row.username)
          /\ Refuse(r)
       \/ \E p \in Persons :
            /\ HeldBy(p, call[r].row.username)
            /\ call' = [call EXCEPT ![r].pc = "rename", ![r].user = p]
            /\ broken' = IF p = call[r].id THEN broken ELSE broken \cup {p}
            /\ UNCHANGED <<rows, users, counters>>

Rename(r) ==
    /\ At(r, "change", "rename")
    /\ IF \/ ~HasUser(call[r].user)
          \/ \E p \in Persons \ {call[r].user} : HeldBy(p, call[r].username)
       THEN Refuse(r)
       ELSE /\ users' = [users EXCEPT ![call[r].user] = call[r].username]
            /\ Go(r, "save")
            /\ UNCHANGED <<rows, counters, broken>>

\* Mutant: the new username is not written.
MutantSaved(r) ==
    LET row == rows[call[r].id]
    IN  IF row = NoRow THEN NoRow
        ELSE [row EXCEPT !.name = call[r].name, !.version = call[r].row.version + 1]

\* Only the columns that differ from the row that was read are written; a row
\* that is gone is no error.
Saved(r) ==
    LET row == rows[call[r].id]
    IN  IF row = NoRow THEN NoRow
        ELSE [name |-> IF Renames(r) THEN call[r].name ELSE row.name,
              username |-> IF call[r].username # call[r].row.username
                           THEN call[r].username ELSE row.username,
              nummer |-> IF call[r].nummer # NoNummer THEN call[r].nummer ELSE row.nummer,
              version |-> call[r].row.version + 1]

Save(r) ==
    /\ At(r, "change", "save")
    /\ End(r)
    /\ UNCHANGED users
    /\ \/ /\ ~Conflict(r, call[r].nummer)
          /\ rows' = [rows EXCEPT ![call[r].id] = Saved(r)]
          /\ UNCHANGED <<counters, broken>>
       \/ /\ Breaks(r) /\ UNCHANGED rows
          /\ IF Conflict(r, call[r].nummer) THEN UNCHANGED counters ELSE Fault

-----------------------------------------------------------------------------
(* updatePerson() and update(): Keycloak is not asked.                     *)

\* The username is that of the body, or that of the row where the body has none.
LoadPut(r) ==
    /\ At(r, "put", "load")
    /\ LET row == rows[call[r].id]
       IN  IF row # NoRow /\ Current(r, row)
           THEN \E username \in Username :
                    call' = [call EXCEPT ![r].pc = "save", ![r].row = row, ![r].username = username]
           ELSE End(r)
    /\ UNCHANGED <<rows, users, counters, broken>>

SavePut(r) ==
    /\ At(r, "put", "save")
    /\ End(r)
    /\ UNCHANGED users
    /\ \/ /\ rows' = [rows EXCEPT ![call[r].id] = Saved(r)]
          /\ IF call[r].username = call[r].row.username THEN UNCHANGED broken ELSE Breaks(r)
          /\ UNCHANGED counters
       \/ Fault /\ UNCHANGED <<rows, broken>>

-----------------------------------------------------------------------------
(* deletePerson().                                                         *)

LoadForDelete(r) ==
    /\ At(r, "delete", "load")
    /\ IF Exists(call[r].id) THEN Go(r, "user") ELSE End(r)
    /\ UNCHANGED <<rows, users, counters, broken>>

\* The answer of Keycloak is not looked at.
DeleteUser(r) ==
    /\ At(r, "delete", "user")
    /\ Go(r, "row")
    /\ UNCHANGED rows
    /\ \/ /\ users' = [users EXCEPT ![call[r].id] = NoUser]
          /\ UNCHANGED <<counters, broken>>
       \/ Fault /\ Breaks(r) /\ UNCHANGED users

DeleteRow(r) ==
    /\ At(r, "delete", "row")
    /\ End(r)
    /\ UNCHANGED users
    /\ \/ rows' = [rows EXCEPT ![call[r].id] = NoRow] /\ UNCHANGED <<counters, broken>>
       \/ Fault /\ Breaks(r) /\ UNCHANGED rows

\* A call to Keycloak that has changed nothing yet fails.
KeycloakFails(r) ==
    /\ Busy(r)
    /\ \/ call[r].op = "create" /\ call[r].pc \in {"load", "user"}
       \/ call[r].op = "change" /\ call[r].pc \in {"generate", "find", "rename"}
    /\ Fault
    /\ End(r)
    /\ UNCHANGED <<rows, users, broken>>

-----------------------------------------------------------------------------
Ask(r) == AskCreate(r) \/ AskChange(r) \/ AskPut(r) \/ AskDelete(r)

Proceed(r) ==
    \/ Generate(r) \/ CheckNumber(r) \/ FindUser(r) \/ CreateUser(r)
    \/ SetPassword(r) \/ Undo(r) \/ Commit(r)
    \/ Load(r) \/ CheckNewNumber(r) \/ GenerateNew(r) \/ FindAccount(r)
    \/ Rename(r) \/ Save(r) \/ LoadPut(r) \/ SavePut(r)
    \/ LoadForDelete(r) \/ DeleteUser(r) \/ DeleteRow(r)

\* Some persons there are, each with an account.
Init ==
    /\ rows \in [Persons -> {NoRow} \cup [name : Names, username : Bases \X {0, 1},
                                nummer : Nummern \cup {NoNummer}, version : {1}]]
    /\ \A p \in Persons : Exists(p) => BaseOf[rows[p].name] = rows[p].username[1]
    /\ \A p, q \in Persons : Exists(p) /\ Exists(q) /\ p # q =>
        /\ rows[p].username # rows[q].username
        /\ rows[p].nummer # rows[q].nummer \/ rows[p].nummer = NoNummer
    /\ users = [p \in Persons |-> IF Exists(p) THEN rows[p].username ELSE NoUser]
    /\ call = [r \in Requests |-> Idle]
    /\ calls = 0 /\ failures = 0
    /\ broken = {}

Next == \E r \in Requests : Ask(r) \/ Proceed(r) \/ KeycloakFails(r)

Spec == Init /\ [][Next]_vars

-----------------------------------------------------------------------------
(* Properties.                                                             *)

\* The variables keep their types, and no two persons have the same Personalnummer
\* or accounts of the same name.
TypeOK ==
    /\ rows \in [Persons -> Row \cup {NoRow}]
    /\ users \in [Persons -> Username \cup {NoUser}]
    /\ \A p, q \in Persons : p # q =>
        /\ users[p] = users[q] => users[p] = NoUser
        /\ Exists(p) /\ Exists(q) /\ rows[p].nummer = rows[q].nummer
           => rows[p].nummer = NoNummer
    /\ calls \in 0 .. MaxCalls /\ failures \in 0 .. MaxFailures
    /\ broken \subseteq Persons

\* A person that no request works on has an account exactly if it has a row, under
\* the username of the row, unless a call for it failed at the wrong moment, two
\* of its requests met, somebody's rename took its account for theirs, or a PUT
\* gave its row another username, of which Keycloak is not told.
AccountsAgree ==
    \A p \in Persons : Quiet(p) /\ p \notin broken =>
        users[p] = IF Exists(p) THEN rows[p].username ELSE NoUser

\* A rename takes hold of somebody else's account only if it works on a person
\* of whom an earlier request, a PUT among them, has left the row and the account
\* apart.
RenamesOwn ==
    [][\A r \in Requests :
         Busy(r) /\ call'[r] # Idle /\ call'[r].user # call[r].user => call[r].id \in broken]_vars

\* A change or a PUT is written over exactly the row that the client's page showed,
\* unless requests for the person met.
ChangesWhatWasShown ==
    [][\A r \in Requests :
         (At(r, "change", "save") \/ At(r, "put", "save")) /\ call[r].id \notin broken
         /\ rows' # rows /\ call'[r] = Idle
         => rows[call[r].id] = call[r].row /\ call[r].row.version = call[r].page]_vars
=============================================================================
