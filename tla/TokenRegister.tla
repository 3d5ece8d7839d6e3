--------------------------- MODULE TokenRegister ---------------------------
(***************************************************************************)
(* The second factors of persons.  PrivacyIDEA keeps users, by username,   *)
(* and tokens; the server keeps neither, and asks before every change what *)
(* is there.  A request or an event handler is a chain of such questions   *)
(* and changes, and others run in between.  A renaming moves the tokens of *)
(* the person from one user to another, one by one.                        *)
(***************************************************************************)
EXTENDS Naturals, FiniteSets

CONSTANTS
    Persons,
    Usernames,
    Software,       \* serials of tokens that PrivacyIDEA makes
    Hardware,       \* serials of tokens that it knows from the start
    Requests,       \* requests and handlers that may be under way at once
    Nobody, Lost,   \* the user of a token that has none; or whose user was deleted
    MaxCalls,       \* bound: requests and events in all
    MaxTroubles     \* bound: calls of PrivacyIDEA that fail, and requests that overlap others

ASSUME TokenAssumption ==
    /\ Software \cap Hardware = {}
    /\ Nobody # Lost /\ {Nobody, Lost} \cap (Persons \cup Usernames \cup Software \cup Hardware) = {}
    /\ Persons \cap Usernames = {}
    /\ (Persons \cup Usernames) \cap (Software \cup Hardware) = {}
    /\ MaxCalls \in Nat /\ MaxTroubles \in Nat

VARIABLES
    name,       \* the username of each person, the last one if deleted
    alive,      \* the persons there are
    users,      \* the users of PrivacyIDEA
    tokens,     \* of each serial: user and rollout state
    call, calls, troubles, \* requests and handlers under way; how many so far
    holder,     \* history: the person a token was made for or assigned to
    raced,      \* history: where requests or handlers under way at once met, and what
                \* they and those that came after them depended on
    failed      \* history: whom a call failed, or whose new name was taken

server == <<name, alive>>
privacyidea == <<users, tokens, holder>>
history == <<raced, failed>>
vars == <<server, privacyidea, call, calls, troubles, history>>

Serials == Software \cup Hardware
Absent == [state |-> "absent", user |-> Nobody]     \* not made yet
Removed == [state |-> "removed", user |-> Nobody]
Exists(s) == tokens[s].state \in {"verify", "ready"}
OfUser(u) == IF u \in users THEN {s \in Serials : Exists(s) /\ tokens[s].user = u} ELSE {}

Idle == [pc |-> "idle"]
Busy(r) == call[r] # Idle
At(r, pc) == call[r].pc = pc

\* Mutant: the rollout state is not asked for.
MutantToVerify(u) == OfUser(u)

\* getTokenToVerify() and getTwoAuthState(), which take the first they get.
ToVerify(u) == {s \in OfUser(u) : tokens[s].state = "verify"}
Verified(u) == OfUser(u) \ ToVerify(u)

-----------------------------------------------------------------------------
(* Requests and events.  user: the username they were begun with; to: the    *)
(* new one; found: the token they are about, or that was found; list: those  *)
(* of a renaming; todo: of these, the calls still to be answered; sites: the *)
(* persons, usernames and tokens that the request depends on.               *)

\* Tokens, whom they were made for or assigned to, and the users that have them.
About(serials) ==
    (serials \cup {holder[s] : s \in serials} \cup {tokens[s].user : s \in serials})
        \ {Nobody, Lost}

Near(r, sites) == {q \in Requests \ {r} : Busy(q) /\ sites \cap call[q].sites # {}}

\* A request that depends on these sites races with those that have one in common,
\* and is drawn into earlier races for one of them.
Races(r, sites) ==
    raced' = IF Near(r, sites) = {} /\ sites \cap raced = {} THEN raced
             ELSE raced \cup sites \cup UNION {call[q].sites : q \in Near(r, sites)}

Begin(r, op, pc, p, to, serial) ==
    /\ ~Busy(r)
    /\ calls < MaxCalls
    /\ calls' = calls + 1
    /\ LET mine == {s \in Serials : holder[s] = p \/ tokens[s].user = name[p]}
           sites == {p, name[p], to} \cup About(mine \cup ({serial} \ {Nobody}))
       IN  /\ call' = [call EXCEPT ![r] =
                  [pc |-> pc, op |-> op, person |-> p, user |-> name[p], to |-> to,
                   found |-> serial, list |-> {}, todo |-> {}, threw |-> FALSE, sites |-> sites]]
           /\ Races(r, sites)
           /\ troubles' = IF Near(r, sites) = {} THEN troubles ELSE troubles + 1
    /\ troubles' <= MaxTroubles
    /\ UNCHANGED <<privacyidea, failed>>

\* The endpoints of a person that is there; a serial is left for every new token.
AskInit(r) ==
    /\ \E p \in alive : Begin(r, "init", "exists", p, name[p], Nobody)
    /\ Cardinality({q \in Requests : Busy(q) /\ call[q].op = "init"})
           < Cardinality({s \in Software : tokens[s] = Absent})
    /\ UNCHANGED server

AskVerify(r) ==
    /\ \E p \in alive : Begin(r, "verify", "old", p, name[p], Nobody)
    /\ UNCHANGED server

AskReset(r) ==
    /\ \E p \in alive : Begin(r, "reset", "second", p, name[p], Nobody)
    /\ UNCHANGED server

\* A serial that there is not is one that was removed.
AskAssign(r) ==
    /\ \E p \in alive, s \in {t \in Serials : tokens[t] # Absent} :
           Begin(r, "assign", "exists", p, name[p], s)
    /\ UNCHANGED server

FreeName(u) == \A p \in alive : name[p] # u

\* PersonRenamedEvent: the username is another one, or only the names are.
Rename(r) ==
    \E p \in alive, u \in Usernames :
        /\ u = name[p] \/ FreeName(u)
        /\ Begin(r, "rename", "exists", p, u, Nobody)
        /\ name' = [name EXCEPT ![p] = u]
        /\ UNCHANGED alive

\* PersonDeletedEvent.
DeletePerson(r) ==
    \E p \in alive :
        /\ Begin(r, "delete", "list", p, name[p], Nobody)
        /\ alive' = alive \ {p}
        /\ UNCHANGED name

\* A person is created, perhaps with the username of one that was deleted.
CreatePerson ==
    \E p \in Persons \ alive, u \in Usernames :
        /\ name[p] = Nobody /\ FreeName(u)
        /\ name' = [name EXCEPT ![p] = u]
        /\ alive' = alive \cup {p}
        /\ failed' = IF u \in users THEN failed \cup {p} ELSE failed
        /\ UNCHANGED <<privacyidea, call, calls, troubles, raced>>

Ask(r) ==
    \/ AskInit(r) \/ AskVerify(r) \/ AskReset(r) \/ AskAssign(r)
    \/ Rename(r) \/ DeletePerson(r)

-----------------------------------------------------------------------------
(* How a request goes on after a call.                                     *)

Go(r, c) == call' = [call EXCEPT ![r] = c] /\ UNCHANGED <<server, calls, history>>
Read(r, c) == Go(r, c) /\ UNCHANGED <<privacyidea, troubles>>
Refuse(r) == Read(r, Idle)

\* Reading tokens that the request goes on with.
Finds(r, c, serials) ==
    /\ LET sites == c.sites \cup About(serials)
       IN  call' = [call EXCEPT ![r] = [c EXCEPT !.sites = sites]] /\ Races(r, sites)
    /\ UNCHANGED <<server, privacyidea, calls, troubles, failed>>

\* A call fails and the request throws; calls made at the same time go on.
Throws(r, done) ==
    /\ LET c == call[r]
       IN  /\ call' = [call EXCEPT ![r] =
                  IF c.todo \subseteq done THEN Idle
                  ELSE [c EXCEPT !.todo = c.todo \ done, !.threw = TRUE]]
           /\ failed' = failed \cup {c.person, c.user, c.to}
    /\ UNCHANGED <<server, calls, raced>>

\* PrivacyIDEA refuses, since things are not as the request believes.
Rejected(r, done) == Throws(r, done) /\ UNCHANGED <<privacyidea, troubles>>

\* A change was made; its answer arrives, or is lost.
Answered(r, c, done) ==
    \/ Go(r, c) /\ UNCHANGED troubles
    \/ troubles < MaxTroubles /\ troubles' = troubles + 1 /\ Throws(r, done)

\* A call fails before it changed anything.
CallFails(r) ==
    /\ Busy(r) /\ troubles < MaxTroubles
    /\ troubles' = troubles + 1
    /\ IF call[r].todo = {} THEN Throws(r, {}) ELSE \E s \in call[r].todo : Throws(r, {s})
    /\ UNCHANGED privacyidea

\* Mutant: the handler does not wait for the other calls.
MutantOneDone(c, s, next) == next

\* One of the calls made at once is answered; the last one lets the handler go on.
OneDone(c, s, next) ==
    IF c.todo # {s} THEN [c EXCEPT !.todo = c.todo \ {s}] ELSE IF c.threw THEN Idle ELSE next

\* Changes of tokens, as PrivacyIDEA makes them.
Set(s, state, user) == tokens' = [tokens EXCEPT ![s] = [state |-> state, user |-> user]]
Holds(s, p) == holder' = [holder EXCEPT ![s] = p]

-----------------------------------------------------------------------------
(* initializeSoftwareToken(), assignHardwareToken(), verifyTokenEnrollment(). *)

\* checkUserExists().
CheckUser(r) ==
    /\ At(r, "exists")
    /\ LET c == call[r]
       IN  IF c.op = "rename" THEN
              IF c.to \notin users THEN Read(r, [c EXCEPT !.pc = "list"])
              ELSE IF c.to = c.user THEN Refuse(r) ELSE Rejected(r, {})
           ELSE Read(r, [c EXCEPT !.pc = IF c.user \in users THEN "old" ELSE "add"])

\* addUser(); whether a user that is there already is refused is left open.
AddUser(r) ==
    /\ At(r, "add")
    /\ \/ /\ users' = users \cup {call[r].to}
          /\ LET c == call[r]
             IN  Answered(r, CASE c.op = "init" -> [c EXCEPT !.pc = "create"]
                               [] c.op = "assign" -> [c EXCEPT !.pc = "status"]
                               [] c.op = "rename" -> IF c.list = {} THEN [c EXCEPT !.pc = "deluser"]
                                                  ELSE [c EXCEPT !.pc = "reassign", !.todo = c.list],
                             {})
          /\ UNCHANGED <<tokens, holder>>
       \/ call[r].to \in users /\ Rejected(r, {})

AfterOld(c) == [c EXCEPT !.pc = IF c.op = "init" THEN "create" ELSE "status"]

\* getTokenToVerify().
FindOld(r) ==
    /\ At(r, "old")
    /\ LET c == call[r]  old == ToVerify(c.user)
       IN  IF c.op = "verify"
           THEN IF old = {} THEN Refuse(r)
                ELSE \E s \in old : Finds(r, [c EXCEPT !.pc = "confirm", !.found = s], {s})
           ELSE IF old = {} THEN Read(r, AfterOld(c))
                ELSE \E s \in old : Finds(r, [c EXCEPT !.pc = "drop", !.list = {s}], {s})

\* Mutant: the token to verify stays.
MutantDrop(r) == At(r, "drop") /\ Read(r, AfterOld(call[r]))

\* deleteToken().
Drop(r) ==
    /\ At(r, "drop")
    /\ \E s \in call[r].list :
        \/ /\ Exists(s)
           /\ tokens' = [tokens EXCEPT ![s] = Removed] /\ Holds(s, Nobody)
           /\ Answered(r, AfterOld(call[r]), {})
        \/ ~Exists(s) /\ Rejected(r, {})
    /\ UNCHANGED users

\* initToken().
InitToken(r) ==
    /\ At(r, "create")
    /\ \/ /\ call[r].user \in users
          /\ \E s \in Software : /\ tokens[s] = Absent
                                 /\ Set(s, "verify", call[r].user)
                                 /\ Holds(s, call[r].person)
          /\ Answered(r, Idle, {})
       \/ call[r].user \notin users /\ Rejected(r, {})
    /\ UNCHANGED users

\* POST /token/init with the password that the token shows, if it is the right one.
Confirm(r) ==
    /\ At(r, "confirm")
    /\ LET s == call[r].found
       IN  \/ /\ tokens[s].state = "verify"
              /\ Set(s, "ready", tokens[s].user)
              /\ Answered(r, Idle, {})
              /\ UNCHANGED holder
           \/ Refuse(r)
    /\ UNCHANGED users

\* verifyTokenStatus(): the token is there and has no user.
CheckStatus(r) ==
    /\ At(r, "status")
    /\ LET s == call[r].found
       IN  IF Exists(s) /\ tokens[s].user = Nobody
           THEN Read(r, [call[r] EXCEPT !.pc = "otp"])
           ELSE Refuse(r)

\* getSerialWithOTP(), among the tokens without a user.
CheckOtp(r) ==
    /\ At(r, "otp")
    /\ \/ /\ Exists(call[r].found) /\ tokens[call[r].found].user = Nobody
          /\ Read(r, [call[r] EXCEPT !.pc = "assign"])
       \/ Refuse(r)

\* assignToken() to a user.  Whether a token that has a user by now is refused or
\* taken from it is left open.
Assign(r) ==
    /\ At(r, "assign")
    /\ LET c == call[r]  s == c.found
       IN  \/ /\ Exists(s) /\ c.user \in users
              /\ Set(s, tokens[s].state, c.user) /\ Holds(s, c.person)
              /\ Answered(r, Idle, {})
           \/ /\ ~Exists(s) \/ c.user \notin users \/ tokens[s].user # Nobody
              /\ Rejected(r, {})
    /\ UNCHANGED users

-----------------------------------------------------------------------------
(* resetToken(), updateUsername(), handlePersonDeletedEvent().              *)

\* Mutant: a deleted person without tokens is passed over.
MutantListTokens(r) ==
    /\ At(r, "list")
    /\ LET c == call[r]  mine == OfUser(c.user)
       IN  IF mine = {} /\ c.op = "delete" THEN Refuse(r)
           ELSE Finds(r, IF mine = {} THEN [c EXCEPT !.pc = "add"]
                         ELSE IF c.op = "rename" THEN [c EXCEPT !.pc = "release", !.list = mine, !.todo = mine]
                         ELSE [c EXCEPT !.pc = "second"], mine)

\* getUserTokens(): the list of a renaming; whether a deleted person had any.
ListTokens(r) ==
    /\ At(r, "list")
    /\ LET c == call[r]  mine == OfUser(c.user)
       IN  Finds(r, IF mine = {} THEN [c EXCEPT !.pc = IF c.op = "rename" THEN "add" ELSE "deluser"]
                    ELSE IF c.op = "rename" THEN [c EXCEPT !.pc = "release", !.list = mine, !.todo = mine]
                    ELSE [c EXCEPT !.pc = "second"], mine)

\* getTwoAuthState() for resetToken(), which throws if there is none.
FindSecond(r) ==
    /\ At(r, "second")
    /\ LET c == call[r]  ready == Verified(c.user)
       IN  IF ready = {} THEN Refuse(r)
           ELSE \E s \in ready : Finds(r, [c EXCEPT !.pc = "unassign", !.found = s], {s})

\* unassignToken() of resetToken().
Unassign(r) ==
    /\ At(r, "unassign")
    /\ LET c == call[r]  s == c.found
       IN  \/ /\ Exists(s)
              /\ Set(s, tokens[s].state, Nobody) /\ Holds(s, Nobody)
              /\ Answered(r, IF c.op = "delete" THEN [c EXCEPT !.pc = "deluser"] ELSE Idle, {})
           \/ ~Exists(s) /\ Rejected(r, {})
    /\ UNCHANGED users

\* unassignToken() of every token at once, the first half of a renaming.
Release(r) ==
    /\ At(r, "release")
    /\ \E s \in call[r].todo :
        \/ /\ Exists(s)
           /\ Set(s, tokens[s].state, Nobody)
           /\ Answered(r, OneDone(call[r], s, [call[r] EXCEPT !.pc = "add", !.todo = {}]), {s})
           /\ UNCHANGED holder
        \/ ~Exists(s) /\ Rejected(r, {s})
    /\ UNCHANGED users

\* assignToken() of every token at once, the second half.
Reassign(r) ==
    /\ At(r, "reassign")
    /\ LET c == call[r]
       IN  \E s \in c.todo :
            \/ /\ Exists(s) /\ c.to \in users
               /\ Set(s, tokens[s].state, c.to) /\ Holds(s, c.person)
               /\ Answered(r, OneDone(c, s, [c EXCEPT !.pc = "deluser", !.todo = {}]), {s})
            \/ /\ ~Exists(s) \/ c.to \notin users \/ tokens[s].user # Nobody
               /\ Rejected(r, {s})
    /\ UNCHANGED users

\* deleteUser(), whose result nobody looks at.
DeleteUser(r) ==
    /\ At(r, "deluser")
    /\ users' = users \ {call[r].user}
    /\ tokens' = [s \in Serials |-> IF s \in OfUser(call[r].user)
                                    THEN [tokens[s] EXCEPT !.user = Lost] ELSE tokens[s]]
    /\ Answered(r, Idle, {})
    /\ UNCHANGED holder

Step(r) ==
    \/ CallFails(r)
    \/ CheckUser(r) \/ AddUser(r) \/ FindOld(r) \/ Drop(r) \/ InitToken(r) \/ Confirm(r)
    \/ CheckStatus(r) \/ CheckOtp(r) \/ Assign(r)
    \/ ListTokens(r) \/ FindSecond(r) \/ Unassign(r) \/ Release(r) \/ Reassign(r) \/ DeleteUser(r)

\* Persons of whom some have second factors already.
Init ==
    /\ alive \in SUBSET Persons
    /\ name \in [Persons -> Usernames \cup {Nobody}]
    /\ \A p \in Persons : name[p] = Nobody <=> p \notin alive
    /\ \A p, q \in alive : p # q => name[p] # name[q]
    /\ users \in SUBSET {name[p] : p \in alive}
    /\ tokens \in [Serials -> {Absent} \cup [state : {"verify", "ready"}, user : users]
                              \cup [state : {"ready"}, user : {Nobody}]]
    /\ \A s \in Serials : /\ s \in Hardware => tokens[s].state = "ready"
                          /\ s \in Software /\ tokens[s].user = Nobody => tokens[s] = Absent
    /\ \A u \in users : \A s, t \in ToVerify(u) : s = t
    /\ holder = [s \in Serials |-> IF tokens[s].user = Nobody THEN Nobody
                                   ELSE CHOOSE p \in alive : name[p] = tokens[s].user]
    /\ call = [r \in Requests |-> Idle]
    /\ calls = 0 /\ troubles = 0
    /\ raced = {} /\ failed = {}

Next == CreatePerson \/ \E r \in Requests : Ask(r) \/ Step(r)

Spec == Init /\ [][Next]_vars

-----------------------------------------------------------------------------
(* Properties.                                                             *)

\* A token has a user that there is, or none; usernames are unique.
TypeOK ==
    /\ name \in [Persons -> Usernames \cup {Nobody}]
    /\ alive \subseteq {p \in Persons : name[p] # Nobody}
    /\ \A p, q \in alive : p # q => name[p] # name[q]
    /\ users \subseteq Usernames
    /\ \A s \in Serials :
        tokens[s] \in {Absent, Removed} \cup [state : {"verify", "ready"}, user : users \cup {Nobody, Lost}]
    /\ holder \in [Serials -> Persons \cup {Nobody}]

AtRest(p) == \A r \in Requests : Busy(r) => {p, name[p]} \cap call[r].sites = {}

\* The tokens that a person logs in with are those made for them or assigned to
\* them and not taken back, under every username the person has had, unless
\* requests for the person overlapped, a call failed, or a username was taken over
\* from a user that should not have been there any more.
TokensFollow ==
    \A p \in alive :
        AtRest(p) /\ {p, name[p]} \cap raced = {} /\ p \notin failed
        => {s \in Serials : Exists(s) /\ tokens[s].user = name[p]} = {s \in Serials : holder[s] = p}

\* No user has two tokens to verify, of which the person would be asked for one
\* and the server would check another, unless requests overlapped; that calls
\* fail in between is no excuse.
OneToVerify ==
    \A u \in users \ raced : \A s, t \in ToVerify(u) : s = t

\* Under a username that nobody has any more, since the person was renamed or
\* deleted, nothing is left in PrivacyIDEA, unless requests overlapped or a call
\* failed, but for one that had only a token to verify: there the handler of the
\* deletion throws, and user and token stay.
DeletedLeaveNothing ==
    \A u \in Usernames \ (raced \cup failed) :
        FreeName(u) /\ (\A r \in Requests : Busy(r) => u \notin call[r].sites)
        => u \notin users \/ (OfUser(u) # {} /\ Verified(u) = {})

\* Nobody loses a token that is verified but by a reset, a renaming or the deletion
\* of this very person, unless requests overlapped; and none is destroyed.
TakenByOwn ==
    [][\A s \in Serials, p \in Persons :
         /\ p \in alive /\ holder[s] = p
         /\ tokens[s].state = "ready" /\ tokens[s].user = name[p]
         /\ tokens'[s] # tokens[s] /\ {p, name[p], s} \cap raced = {}
         => /\ Exists(s)'
            /\ \E r \in Requests :
                /\ call'[r] # call[r]
                /\ call[r].person = p /\ call[r].op \in {"reset", "rename", "delete"}]_vars
=============================================================================
