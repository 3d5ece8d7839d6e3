--------------------- MODULE TokenRegister_proofs ---------------------
(***************************************************************************)
(* Proofs about the second factors of persons, for any number of persons,  *)
(* usernames, tokens and requests under way.                               *)
(***************************************************************************)
EXTENDS TokenRegister, TLAPS

-----------------------------------------------------------------------------
(* What a request is.                                                      *)

StepsOf(op) ==
    CASE op = "init"   -> {"exists", "add", "old", "drop", "create"}
      [] op = "assign" -> {"exists", "add", "old", "drop", "status", "otp", "assign"}
      [] op = "verify" -> {"old", "confirm"}
      [] op = "reset"  -> {"second", "unassign"}
      [] op = "rename" -> {"exists", "list", "release", "add", "reassign", "deluser"}
      [] op = "delete" -> {"list", "second", "unassign", "deluser"}
      [] OTHER -> {}

CallOK(c) ==
    /\ c \in [pc : {c.pc}, op : {c.op}, person : {c.person}, user : {c.user}, to : {c.to},
              found : {c.found}, list : {c.list}, todo : {c.todo}, threw : {c.threw}, sites : {c.sites}]
    /\ c.op \in {"init", "assign", "verify", "reset", "rename", "delete"} /\ c.pc \in StepsOf(c.op)
    /\ c.person \in Persons /\ {c.user, c.to} \subseteq Usernames
    /\ c.found \in Serials \cup {Nobody}
    /\ c.op = "assign" \/ c.pc \in {"confirm", "unassign"} => c.found \in Serials
    /\ c.list \subseteq Serials /\ c.todo \subseteq c.list /\ c.threw \in BOOLEAN
    /\ c.pc \notin {"release", "reassign"} => c.todo = {}
    /\ c.op # "rename" => c.to = c.user
    /\ {c.person, c.user, c.to} \cup c.list \subseteq c.sites
    /\ c.found # Nobody => c.found \in c.sites

\* Types, and that nothing is about persons not yet created and tokens not yet made.
TypeInv ==
    /\ TypeOK /\ tokens = [s \in Serials |-> tokens[s]]
    /\ call = [r \in Requests |-> call[r]]
    /\ \A r \in Requests : Busy(r) => CallOK(call[r]) /\ name[call[r].person] # Nobody
    /\ \A s \in Serials : holder[s] # Nobody => name[holder[s]] # Nobody
    /\ \A s \in Serials : tokens[s] = Absent =>
         holder[s] = Nobody /\ s \notin raced /\ \A r \in Requests : Busy(r) => s \notin call[r].sites

-----------------------------------------------------------------------------
(* Races.                                                                  *)

Clean(c) == c.sites \cap raced = {}

\* A set that has with a token the person it was made for and the user it has.
Closed(S) ==
    \A s \in S \cap Serials :
        holder[s] \in S \cup {Nobody} /\ tokens[s].user \in S \cup {Nobody, Lost}

\* Requests that have a site in common have raced, and a race takes everything
\* that a request depends on.
SitesInv ==
    /\ \A q, r \in Requests : Busy(q) /\ Busy(r) /\ q # r /\ call[q].sites \cap call[r].sites # {}
         => call[q].sites \subseteq raced
    /\ \A r \in Requests : Busy(r) => Clean(call[r]) \/ call[r].sites \subseteq raced
    /\ \A r \in Requests : Busy(r) /\ Clean(call[r]) => Closed(call[r].sites)
    /\ Closed(raced)

-----------------------------------------------------------------------------
(* What a request that has not raced knows.                                *)

KnowsName(c) ==
    IF c.op = "delete" THEN c.person \notin alive /\ name[c.person] = c.user
    ELSE c.person \in alive /\ name[c.person] = c.to

\* Whoever has taken the username that the request gives up was created since.
KnowsNew(c) ==
    c.op = "delete" \/ c.to # c.user =>
        \A p \in alive : p # c.person /\ name[p] = c.user =>
            /\ \A s \in Serials : holder[s] # p
            /\ \A r \in Requests : Busy(r) => call[r].person # p

\* The tokens of a user, and those to verify, where us are the users and tk the tokens.
UserHas(u, us, tk) ==
    IF u \in us THEN {s \in Serials : tk[s].state \in {"verify", "ready"} /\ tk[s].user = u} ELSE {}
ToCheck(u, us, tk) == {s \in UserHas(u, us, tk) : tk[s].state = "verify"}

KnowsTokens(c, us, tk) ==
    /\ c.pc \in {"exists", "list", "old"} => c.list = {}
    /\ c.pc = "drop" => \A s \in c.list : tk[s].state = "verify" /\ tk[s].user = c.user
    /\ c.pc = "confirm" => tk[c.found].user = c.user
    /\ c.pc = "unassign" => c.found \in UserHas(c.user, us, tk)
    /\ c.pc \in {"otp", "assign"} => tk[c.found].user = Nobody
    /\ c.pc = "second" /\ c.op = "delete" => UserHas(c.user, us, tk) # {}
    /\ c.pc = "release" =>
         /\ c.todo \subseteq UserHas(c.user, us, tk) /\ c.to # c.user
         /\ ~c.threw => \A s \in c.list \ c.todo : tk[s].user = Nobody
    /\ c.pc = "add" => \A s \in c.list : tk[s].user = Nobody
    /\ c.pc = "reassign" => \A s \in c.todo : tk[s].user = Nobody

\* That no user gets a second token to verify.
KnowsVerify(c, us, tk) ==
    /\ c.pc = "drop" => ToCheck(c.user, us, tk) \subseteq c.list
    /\ c.pc \in {"create", "status", "otp", "assign"} => ToCheck(c.user, us, tk) = {}
    /\ c.pc \in {"list", "release", "add"} /\ c.op # "delete" => c.to \notin us
    /\ c.pc = "reassign" => ToCheck(c.to, us, tk) \subseteq c.list
    /\ c.op = "rename" => \A s, t \in c.list : tk[s].state = "verify" /\ tk[t].state = "verify" => s = t

Knows(c) ==
    KnowsName(c) /\ KnowsNew(c) /\ KnowsTokens(c, users, tokens) /\ KnowsVerify(c, users, tokens)

KnowsInv ==
    /\ \A r \in Requests : Busy(r) /\ Clean(call[r]) => Knows(call[r])
    /\ OneToVerify

-----------------------------------------------------------------------------
(* Whose tokens are where.                                                 *)

Held(p) == {s \in Serials : holder[s] = p}
Renaming(p) == {r \in Requests : Busy(r) /\ call[r].op = "rename" /\ call[r].person = p}

\* The tokens of a person on their way from one user to another.
Moving(c) ==
    /\ c.pc \in {"exists", "list"} => OfUser(c.user) = Held(c.person)
    /\ c.pc \in {"release", "add", "reassign", "deluser"} => Held(c.person) = c.list
    /\ c.pc = "release" => OfUser(c.user) = c.todo
    /\ c.pc = "reassign" => OfUser(c.to) = c.list \ c.todo
    /\ c.pc = "deluser" => OfUser(c.to) = c.list
    /\ c.pc \in {"add", "reassign", "deluser"} /\ c.to = c.user => c.list = {}

Sound(p) == p \in alive /\ {p, name[p]} \cap raced = {} /\ p \notin failed
FollowInv ==
    /\ \A r \in Requests : Busy(r) /\ call[r].threw =>
         {call[r].person, call[r].user, call[r].to} \subseteq failed
    /\ \A p \in Persons : Sound(p) =>
         /\ Renaming(p) = {} => OfUser(name[p]) = Held(p)
         /\ \A r \in Renaming(p) : Moving(call[r])

LeftInv ==
    \A u \in Usernames \ (raced \cup failed) :
        FreeName(u) /\ (\A r \in Requests : Busy(r) => u \notin {call[r].user, call[r].to})
        => u \notin users \/ (OfUser(u) # {} /\ Verified(u) = {})
-----------------------------------------------------------------------------
(* Requests, field by field.                                               *)

IsRequest(c) ==
    c \in [pc : {c.pc}, op : {c.op}, person : {c.person}, user : {c.user}, to : {c.to},
           found : {c.found}, list : {c.list}, todo : {c.todo}, threw : {c.threw}, sites : {c.sites}]

\* The request c, further on.
Onward(c, pc, found, list, todo, threw, sites) ==
    [pc : {pc}, op : {c.op}, person : {c.person}, user : {c.user}, to : {c.to},
     found : {found}, list : {list}, todo : {todo}, threw : {threw}, sites : {sites}]

LEMMA OnwardFields ==
    ASSUME NEW c, NEW pc, pc # "idle", NEW found, NEW list, NEW todo, NEW threw, NEW sites,
           NEW d \in Onward(c, pc, found, list, todo, threw, sites)
    PROVE  /\ d # Idle /\ IsRequest(d)
           /\ d.pc = pc /\ d.op = c.op /\ d.person = c.person /\ d.user = c.user /\ d.to = c.to
           /\ d.found = found /\ d.list = list /\ d.todo = todo /\ d.threw = threw /\ d.sites = sites
BY DEF Onward, IsRequest, Idle

LEMMA Updates ==
    ASSUME NEW c, IsRequest(c), NEW pc, NEW found, NEW list, NEW todo
    PROVE  /\ [c EXCEPT !.pc = pc] \in Onward(c, pc, c.found, c.list, c.todo, c.threw, c.sites)
           /\ [c EXCEPT !.todo = todo] \in Onward(c, c.pc, c.found, c.list, todo, c.threw, c.sites)
           /\ [c EXCEPT !.pc = pc, !.todo = todo] \in Onward(c, pc, c.found, c.list, todo, c.threw, c.sites)
           /\ [c EXCEPT !.todo = todo, !.threw = TRUE] \in Onward(c, c.pc, c.found, c.list, todo, TRUE, c.sites)
           /\ [c EXCEPT !.pc = pc, !.found = found] \in Onward(c, pc, found, c.list, c.todo, c.threw, c.sites)
           /\ [c EXCEPT !.pc = pc, !.list = list] \in Onward(c, pc, c.found, list, c.todo, c.threw, c.sites)
           /\ [c EXCEPT !.pc = pc, !.list = list, !.todo = todo]
                \in Onward(c, pc, c.found, list, todo, c.threw, c.sites)
BY DEF IsRequest, Onward

\* A request that has found tokens depends on more.
LEMMA Widened ==
    ASSUME NEW c, NEW pc, NEW found, NEW list, NEW todo, NEW threw, NEW sites, NEW sites2,
           NEW d \in Onward(c, pc, found, list, todo, threw, sites)
    PROVE  [d EXCEPT !.sites = sites2] \in Onward(c, pc, found, list, todo, threw, sites2)
BY DEF Onward

LEMMA CallOKIsRequest == ASSUME NEW c PROVE CallOK(c) => IsRequest(c)
BY DEF CallOK, IsRequest

\* A request that is read from "call" at a step is one that is under way.
LEMMA UnderWay ==
    ASSUME TypeInv, NEW r \in Requests, call[r].pc # "idle"
    PROVE  Busy(r) /\ CallOK(call[r]) /\ IsRequest(call[r]) /\ name[call[r].person] # Nobody
<1>1. Busy(r)
  BY DEF Busy, Idle
<1> QED
  BY <1>1, CallOKIsRequest DEF TypeInv

-----------------------------------------------------------------------------
(* What the steps of a request do, each in terms of what follows for it.   *)

Others(r) ==
    /\ call' = [q \in Requests |-> call'[q]]
    /\ \A q \in Requests : q # r => call'[q] = call[q]
    /\ UNCHANGED <<server, calls>>

Ends(r) == call'[r] = Idle /\ UNCHANGED history

Goes(r, pc, list, todo) ==
    /\ call'[r] \in Onward(call[r], pc, call[r].found, list, todo, call[r].threw, call[r].sites)
    /\ UNCHANGED history

Learns(r, pc, found, list, todo, serials) ==
    /\ call'[r] \in Onward(call[r], pc, found, list, todo, call[r].threw, call[r].sites \cup About(serials))
    /\ Races(r, call[r].sites \cup About(serials))
    /\ UNCHANGED <<privacyidea, failed>>

Fails(r, done) ==
    /\ \/ call'[r] = Idle
       \/ /\ call[r].todo \ done # {}
          /\ call'[r] \in Onward(call[r], call[r].pc, call[r].found, call[r].list,
                                 call[r].todo \ done, TRUE, call[r].sites)
    /\ failed' = failed \cup {call[r].person, call[r].user, call[r].to}
    /\ raced' = raced

\* One of several calls was answered, and it was not the last one.
Waits(r, s) ==
    /\ call[r].todo \ {s} # {}
    /\ Goes(r, call[r].pc, call[r].list, call[r].todo \ {s})

LEMMA SetsCall ==
    ASSUME TypeInv, NEW r \in Requests, NEW d, call' = [call EXCEPT ![r] = d], UNCHANGED <<server, calls>>
    PROVE  Others(r) /\ call'[r] = d
BY DEF Others, TypeInv

LEMMA DoesThrow ==
    ASSUME TypeInv, NEW r \in Requests, Busy(r), NEW done, Throws(r, done)
    PROVE  Others(r) /\ Fails(r, done)
<1> DEFINE c == call[r]
           d == IF c.todo \subseteq done THEN Idle ELSE [c EXCEPT !.todo = c.todo \ done, !.threw = TRUE]
<1>1. IsRequest(c)
  BY CallOKIsRequest DEF TypeInv
<1>2. call' = [call EXCEPT ![r] = d]
  BY DEF Throws
<1>3. UNCHANGED <<server, calls, raced>> /\ failed' = failed \cup {c.person, c.user, c.to}
  BY DEF Throws
<1>4. d = Idle \/ (c.todo \ done # {}
                   /\ d \in Onward(c, c.pc, c.found, c.list, c.todo \ done, TRUE, c.sites))
  <2>1. CASE c.todo \subseteq done
    BY <2>1
  <2>2. CASE ~(c.todo \subseteq done)
    <3>1. d = [c EXCEPT !.todo = c.todo \ done, !.threw = TRUE] /\ c.todo \ done # {}
      BY <2>2
    <3> QED
      BY <1>1, <3>1, Updates
  <2> QED
    BY <2>1, <2>2
<1> HIDE DEF d
<1> QED
  BY <1>2, <1>4, <1>3, SetsCall DEF Fails

LEMMA DoesGo ==
    ASSUME TypeInv, NEW r \in Requests, NEW d, Go(r, d)
    PROVE  Others(r) /\ call'[r] = d /\ UNCHANGED history
BY SetsCall DEF Go

LEMMA DoesAnswer ==
    ASSUME TypeInv, NEW r \in Requests, Busy(r), NEW d, NEW done, Answered(r, d, done)
    PROVE  Others(r) /\ (Fails(r, done) \/ (call'[r] = d /\ UNCHANGED history))
<1>1. CASE Go(r, d)
  BY <1>1, DoesGo
<1>2. CASE Throws(r, done)
  BY <1>2, DoesThrow
<1> QED
  BY <1>1, <1>2 DEF Answered

LEMMA DoesRefuse ==
    ASSUME TypeInv, NEW r \in Requests, Refuse(r)
    PROVE  Others(r) /\ Ends(r) /\ UNCHANGED privacyidea
BY DoesGo DEF Refuse, Read, Ends

LEMMA DoesReject ==
    ASSUME TypeInv, NEW r \in Requests, Busy(r), NEW done, Rejected(r, done)
    PROVE  Others(r) /\ Fails(r, done) /\ UNCHANGED privacyidea
BY DoesThrow DEF Rejected

LEMMA DoesRead ==
    ASSUME TypeInv, NEW r \in Requests, NEW d, Read(r, d)
    PROVE  Others(r) /\ call'[r] = d /\ UNCHANGED history /\ UNCHANGED privacyidea
BY DoesGo DEF Read

LEMMA DoesFind ==
    ASSUME TypeInv, NEW r \in Requests, NEW c, NEW pc, NEW found, NEW list, NEW todo, NEW threw, NEW sites,
           NEW d \in Onward(c, pc, found, list, todo, threw, sites), sites = d.sites,
           NEW serials, Finds(r, d, serials)
    PROVE  /\ Others(r)
           /\ call'[r] \in Onward(c, pc, found, list, todo, threw, sites \cup About(serials))
           /\ Races(r, sites \cup About(serials))
           /\ UNCHANGED <<privacyidea, failed>>
<1> DEFINE sites2 == sites \cup About(serials)
           e == [d EXCEPT !.sites = sites2]
<1>1. call' = [call EXCEPT ![r] = e] /\ Races(r, sites2) /\ UNCHANGED <<server, privacyidea, calls, failed>>
  BY DEF Finds
<1>2. e \in Onward(c, pc, found, list, todo, threw, sites2)
  BY Widened
<1> HIDE DEF e, sites2
<1>3. Others(r) /\ call'[r] = e
  BY <1>1, SetsCall
<1> QED
  BY <1>1, <1>2, <1>3 DEF sites2

Stays(r, pc) == Goes(r, pc, call[r].list, call[r].todo)

LEMMA DoesStay ==
    ASSUME TypeInv, NEW r \in Requests, Busy(r), NEW pc
    PROVE  LET d == [call[r] EXCEPT !.pc = pc]
           IN  call'[r] = d /\ UNCHANGED history => Stays(r, pc)
<1>1. IsRequest(call[r])
  BY CallOKIsRequest DEF TypeInv
<1>2. [call[r] EXCEPT !.pc = pc] \in
        Onward(call[r], pc, call[r].found, call[r].list, call[r].todo, call[r].threw, call[r].sites)
  BY <1>1, Updates
<1> QED
  BY <1>2 DEF Goes, Stays

CheckUserDoes(r) ==
    /\ UNCHANGED privacyidea
    /\ LET c == call[r]
       IN  \/ c.op = "rename" /\ c.to \notin users /\ Stays(r, "list")
           \/ c.op = "rename" /\ c.to \in users /\ c.to = c.user /\ Ends(r)
           \/ c.op = "rename" /\ c.to \in users /\ c.to # c.user /\ Fails(r, {})
           \/ c.op # "rename" /\ c.user \in users /\ Stays(r, "old")
           \/ c.op # "rename" /\ c.user \notin users /\ Stays(r, "add")

LEMMA DoesCheckUser ==
    ASSUME TypeInv, NEW r \in Requests, CheckUser(r)
    PROVE  Busy(r) /\ call[r].pc = "exists" /\ Others(r) /\ CheckUserDoes(r)
<1> DEFINE c == call[r]
<1>1. c.pc = "exists" /\ Busy(r)
  BY UnderWay DEF CheckUser, At
<1>2. CASE c.op = "rename" /\ c.to \notin users
  <2>1. Read(r, [c EXCEPT !.pc = "list"])
    BY <1>2 DEF CheckUser
  <2> QED
    BY <1>1, <1>2, <2>1, DoesRead, DoesStay DEF CheckUserDoes
<1>3. CASE c.op = "rename" /\ c.to \in users /\ c.to = c.user
  <2>1. Refuse(r)
    BY <1>3 DEF CheckUser
  <2> QED
    BY <1>1, <1>3, <2>1, DoesRefuse DEF CheckUserDoes
<1>4. CASE c.op = "rename" /\ c.to \in users /\ c.to # c.user
  <2>1. Rejected(r, {})
    BY <1>4 DEF CheckUser
  <2> QED
    BY <1>1, <1>4, <2>1, DoesReject DEF CheckUserDoes
<1>5. CASE c.op # "rename" /\ c.user \in users
  <2>1. Read(r, [c EXCEPT !.pc = "old"])
    BY <1>5 DEF CheckUser
  <2> QED
    BY <1>1, <1>5, <2>1, DoesRead, DoesStay DEF CheckUserDoes
<1>6. CASE c.op # "rename" /\ c.user \notin users
  <2>1. Read(r, [c EXCEPT !.pc = "add"])
    BY <1>6 DEF CheckUser
  <2> QED
    BY <1>1, <1>6, <2>1, DoesRead, DoesStay DEF CheckUserDoes
<1> QED
  BY <1>2, <1>3, <1>4, <1>5, <1>6

AddUserDoes(r) ==
    /\ UNCHANGED <<tokens, holder>>
    /\ LET c == call[r]
       IN  \/ users' = users /\ Fails(r, {})
           \/ /\ users' = users \cup {c.to}
              /\ \/ Fails(r, {})
                 \/ c.op = "init" /\ Stays(r, "create")
                 \/ c.op = "assign" /\ Stays(r, "status")
                 \/ c.op = "rename" /\ c.list = {} /\ Stays(r, "deluser")
                 \/ c.op = "rename" /\ c.list # {} /\ Goes(r, "reassign", c.list, c.list)

LEMMA DoesAddUser ==
    ASSUME TypeInv, NEW r \in Requests, AddUser(r)
    PROVE  Busy(r) /\ call[r].pc = "add" /\ Others(r) /\ AddUserDoes(r)
<1> DEFINE c == call[r]
           d == CASE c.op = "init" -> [c EXCEPT !.pc = "create"]
                  [] c.op = "assign" -> [c EXCEPT !.pc = "status"]
                  [] c.op = "rename" -> IF c.list = {} THEN [c EXCEPT !.pc = "deluser"]
                                        ELSE [c EXCEPT !.pc = "reassign", !.todo = c.list]
<1>1. c.pc = "add" /\ Busy(r) /\ CallOK(c) /\ IsRequest(c)
  BY UnderWay DEF AddUser, At
<1>2. c.op \in {"init", "assign", "rename"}
  BY <1>1 DEF CallOK, StepsOf
<1>3. CASE c.to \in users /\ Rejected(r, {}) /\ UNCHANGED privacyidea
  BY <1>1, <1>3, DoesReject DEF AddUserDoes, privacyidea
<1>4. CASE users' = users \cup {c.to} /\ Answered(r, d, {}) /\ UNCHANGED <<tokens, holder>>
  <2>1. d = [c EXCEPT !.pc = "create"] \/ c.op # "init"
    OBVIOUS
  <2>2. d = [c EXCEPT !.pc = "status"] \/ c.op # "assign"
    OBVIOUS
  <2>3. d = [c EXCEPT !.pc = "deluser"] \/ c.op # "rename" \/ c.list # {}
    OBVIOUS
  <2>4. d = [c EXCEPT !.pc = "reassign", !.todo = c.list] \/ c.op # "rename" \/ c.list = {}
    OBVIOUS
  <2>5. [c EXCEPT !.pc = "reassign", !.todo = c.list]
          \in Onward(c, "reassign", c.found, c.list, c.list, c.threw, c.sites)
    BY <1>1, Updates
  <2> HIDE DEF d
  <2>6. Others(r) /\ (Fails(r, {}) \/ (call'[r] = d /\ UNCHANGED history))
    BY <1>1, <1>4, DoesAnswer
  <2>7. CASE Fails(r, {})
    BY <1>1, <1>4, <2>6, <2>7 DEF AddUserDoes
  <2>8. CASE call'[r] = d /\ UNCHANGED history
    <3>1. CASE c.op = "init"
      BY <1>1, <1>4, <2>1, <2>6, <2>8, <3>1, DoesStay DEF AddUserDoes
    <3>2. CASE c.op = "assign"
      BY <1>1, <1>4, <2>2, <2>6, <2>8, <3>2, DoesStay DEF AddUserDoes
    <3>3. CASE c.op = "rename" /\ c.list = {}
      BY <1>1, <1>4, <2>3, <2>6, <2>8, <3>3, DoesStay DEF AddUserDoes
    <3>4. CASE c.op = "rename" /\ c.list # {}
      BY <1>1, <1>4, <2>4, <2>5, <2>6, <2>8, <3>4 DEF AddUserDoes, Goes
    <3> QED
      BY <1>2, <3>1, <3>2, <3>3, <3>4
  <2> QED
    BY <2>6, <2>7, <2>8
<1>5. \/ c.to \in users /\ Rejected(r, {}) /\ UNCHANGED privacyidea
      \/ users' = users \cup {c.to} /\ Answered(r, d, {}) /\ UNCHANGED <<tokens, holder>>
  BY DEF AddUser, Rejected
<1> QED
  BY <1>3, <1>4, <1>5

AfterOldStep(op) == IF op = "init" THEN "create" ELSE "status"

FindOldDoes(r) ==
    LET c == call[r]
    IN  \/ c.op = "verify" /\ Ends(r) /\ UNCHANGED privacyidea
        \/ c.op = "verify" /\ \E s \in ToVerify(c.user) : Learns(r, "confirm", s, c.list, c.todo, {s})
        \/ /\ c.op # "verify" /\ ToVerify(c.user) = {} /\ UNCHANGED privacyidea
           /\ Stays(r, AfterOldStep(c.op))
        \/ c.op # "verify" /\ \E s \in ToVerify(c.user) : Learns(r, "drop", c.found, {s}, c.todo, {s})

LEMMA DoesFindOld ==
    ASSUME TypeInv, NEW r \in Requests, FindOld(r)
    PROVE  Busy(r) /\ call[r].pc = "old" /\ Others(r) /\ FindOldDoes(r)
<1> DEFINE c == call[r]
<1>1. c.pc = "old" /\ Busy(r) /\ IsRequest(c)
  BY UnderWay DEF FindOld, At
<1>2. CASE c.op = "verify" /\ ToVerify(c.user) = {}
  <2>1. Refuse(r)
    BY <1>2 DEF FindOld
  <2> QED
    BY <1>1, <1>2, <2>1, DoesRefuse DEF FindOldDoes
<1>3. CASE c.op = "verify" /\ ToVerify(c.user) # {}
  <2>1. PICK s \in ToVerify(c.user) : Finds(r, [c EXCEPT !.pc = "confirm", !.found = s], {s})
    BY <1>3 DEF FindOld
  <2> DEFINE d == [c EXCEPT !.pc = "confirm", !.found = s]
  <2>2. d \in Onward(c, "confirm", s, c.list, c.todo, c.threw, c.sites)
    BY <1>1, Updates
  <2>3. d.sites = c.sites
    BY <2>2, OnwardFields
  <2> HIDE DEF d
  <2>4. Finds(r, d, {s})
    BY <2>1 DEF d
  <2>5. Others(r) /\ Learns(r, "confirm", s, c.list, c.todo, {s})
    BY <2>2, <2>3, <2>4, DoesFind DEF Learns
  <2> QED
    BY <1>1, <1>3, <2>5 DEF FindOldDoes
<1>4. CASE c.op # "verify" /\ ToVerify(c.user) = {}
  <2>1. Read(r, [c EXCEPT !.pc = AfterOldStep(c.op)])
    BY <1>4 DEF FindOld, AfterOld, AfterOldStep
  <2> QED
    BY <1>1, <1>4, <2>1, DoesRead, DoesStay DEF FindOldDoes
<1>5. CASE c.op # "verify" /\ ToVerify(c.user) # {}
  <2>1. PICK s \in ToVerify(c.user) : Finds(r, [c EXCEPT !.pc = "drop", !.list = {s}], {s})
    BY <1>5 DEF FindOld
  <2> DEFINE d == [c EXCEPT !.pc = "drop", !.list = {s}]
  <2>2. d \in Onward(c, "drop", c.found, {s}, c.todo, c.threw, c.sites)
    BY <1>1, Updates
  <2>3. d.sites = c.sites
    BY <2>2, OnwardFields
  <2> HIDE DEF d
  <2>4. Finds(r, d, {s})
    BY <2>1 DEF d
  <2>5. Others(r) /\ Learns(r, "drop", c.found, {s}, c.todo, {s})
    BY <2>2, <2>3, <2>4, DoesFind DEF Learns
  <2> QED
    BY <1>1, <1>5, <2>5 DEF FindOldDoes
<1> QED
  BY <1>2, <1>3, <1>4, <1>5

\* One token changes, and perhaps whose it is.
Changes(s, state, user, p) ==
    /\ users' = users /\ s \in Serials /\ Exists(s)
    /\ tokens' = [t \in Serials |-> tokens'[t]]
    /\ tokens'[s] = [state |-> state, user |-> user] /\ holder'[s] = p
    /\ holder' \in [Serials -> {p} \cup {holder[t] : t \in Serials}]
    /\ \A t \in Serials : t # s => tokens'[t] = tokens[t] /\ holder'[t] = holder[t]

LEMMA DoesChange ==
    ASSUME TypeInv, NEW s \in Serials, Exists(s), NEW state, NEW user, NEW p, users' = users
    PROVE  /\ Set(s, state, user) /\ Holds(s, p) => Changes(s, state, user, p)
           /\ Set(s, state, user) /\ holder' = holder => Changes(s, state, user, holder[s])
BY DEF Set, Holds, Changes, TypeInv, TypeOK

DropDoes(r) ==
    LET c == call[r]
    IN  \/ UNCHANGED privacyidea /\ Fails(r, {})
        \/ \E s \in c.list : /\ Changes(s, "removed", Nobody, Nobody)
                             /\ Fails(r, {}) \/ Stays(r, AfterOldStep(c.op))

LEMMA DoesDrop ==
    ASSUME TypeInv, NEW r \in Requests, Drop(r)
    PROVE  Busy(r) /\ call[r].pc = "drop" /\ Others(r) /\ DropDoes(r)
<1> DEFINE c == call[r]
<1>1. c.pc = "drop" /\ Busy(r) /\ CallOK(c) /\ users' = users
  BY UnderWay DEF Drop, At
<1>2. PICK s \in c.list :
        \/ /\ Exists(s)
           /\ tokens' = [tokens EXCEPT ![s] = Removed] /\ Holds(s, Nobody)
           /\ Answered(r, AfterOld(c), {})
        \/ ~Exists(s) /\ Rejected(r, {})
  BY DEF Drop
<1>3. CASE Rejected(r, {})
  BY <1>1, <1>3, DoesReject DEF DropDoes
<1>4. CASE /\ Exists(s)
           /\ tokens' = [tokens EXCEPT ![s] = Removed] /\ Holds(s, Nobody)
           /\ Answered(r, AfterOld(c), {})
  <2>1. s \in Serials
    BY <1>1 DEF CallOK
  <2>2. Changes(s, "removed", Nobody, Nobody)
    BY <1>1, <1>4, <2>1, DoesChange DEF Set, Removed
  <2>3. AfterOld(c) = [c EXCEPT !.pc = AfterOldStep(c.op)]
    BY DEF AfterOld, AfterOldStep
  <2>4. Others(r) /\ (Fails(r, {}) \/ (call'[r] = AfterOld(c) /\ UNCHANGED history))
    BY <1>1, <1>4, DoesAnswer
  <2>5. Fails(r, {}) \/ Stays(r, AfterOldStep(c.op))
    BY <1>1, <2>3, <2>4, DoesStay
  <2> QED
    BY <1>1, <2>2, <2>4, <2>5 DEF DropDoes
<1> QED
  BY <1>2, <1>3, <1>4

InitTokenDoes(r) ==
    \/ UNCHANGED privacyidea /\ Fails(r, {})
    \/ /\ \E s \in Software :
            /\ tokens[s] = Absent /\ holder' = [holder EXCEPT ![s] = call[r].person]
            /\ tokens' = [tokens EXCEPT ![s] = [state |-> "verify", user |-> call[r].user]]
       /\ users' = users /\ call[r].user \in users
       /\ Fails(r, {}) \/ Ends(r)

LEMMA DoesInitToken ==
    ASSUME TypeInv, NEW r \in Requests, InitToken(r)
    PROVE  Busy(r) /\ call[r].pc = "create" /\ Others(r) /\ InitTokenDoes(r)
<1>1. call[r].pc = "create" /\ Busy(r) /\ users' = users
  BY UnderWay DEF InitToken, At
<1>2. CASE Rejected(r, {})
  BY <1>1, <1>2, DoesReject DEF InitTokenDoes
<1>3. CASE /\ call[r].user \in users
           /\ \E s \in Software : tokens[s] = Absent /\ Set(s, "verify", call[r].user)
                                  /\ Holds(s, call[r].person)
           /\ Answered(r, Idle, {})
  BY <1>1, <1>3, DoesAnswer DEF InitTokenDoes, Set, Holds, Ends
<1> QED
  BY <1>2, <1>3 DEF InitToken

ConfirmDoes(r) ==
    LET s == call[r].found
    IN  \/ UNCHANGED privacyidea /\ Ends(r)
        \/ /\ tokens[s].state = "verify" /\ Changes(s, "ready", tokens[s].user, holder[s])
           /\ Fails(r, {}) \/ Ends(r)

LEMMA DoesConfirm ==
    ASSUME TypeInv, NEW r \in Requests, Confirm(r)
    PROVE  Busy(r) /\ call[r].pc = "confirm" /\ Others(r) /\ ConfirmDoes(r)
<1> DEFINE s == call[r].found
<1>1. call[r].pc = "confirm" /\ Busy(r) /\ users' = users /\ s \in Serials
  BY UnderWay DEF Confirm, At, CallOK
<1>2. CASE Refuse(r)
  BY <1>1, <1>2, DoesRefuse DEF ConfirmDoes
<1>3. CASE /\ tokens[s].state = "verify" /\ Set(s, "ready", tokens[s].user)
           /\ Answered(r, Idle, {}) /\ holder' = holder
  <2>1. Exists(s)
    BY <1>3 DEF Exists
  <2>2. Changes(s, "ready", tokens[s].user, holder[s])
    BY <1>1, <1>3, <2>1, DoesChange
  <2> QED
    BY <1>1, <1>3, <2>2, DoesAnswer DEF ConfirmDoes, Ends
<1> QED
  BY <1>2, <1>3 DEF Confirm

CheckDoes(r, pc) ==
    /\ UNCHANGED privacyidea
    /\ \/ Exists(call[r].found) /\ tokens[call[r].found].user = Nobody /\ Stays(r, pc)
       \/ Ends(r)

LEMMA DoesCheckStatus ==
    ASSUME TypeInv, NEW r \in Requests, CheckStatus(r)
    PROVE  Busy(r) /\ call[r].pc = "status" /\ Others(r) /\ CheckDoes(r, "otp")
<1>1. call[r].pc = "status" /\ Busy(r)
  BY UnderWay DEF CheckStatus, At
<1>2. Refuse(r) \/ (/\ Exists(call[r].found) /\ tokens[call[r].found].user = Nobody
                    /\ Read(r, [call[r] EXCEPT !.pc = "otp"]))
  BY DEF CheckStatus
<1> QED
  BY <1>1, <1>2, DoesRefuse, DoesRead, DoesStay DEF CheckDoes

LEMMA DoesCheckOtp ==
    ASSUME TypeInv, NEW r \in Requests, CheckOtp(r)
    PROVE  Busy(r) /\ call[r].pc = "otp" /\ Others(r) /\ CheckDoes(r, "assign")
<1>1. call[r].pc = "otp" /\ Busy(r)
  BY UnderWay DEF CheckOtp, At
<1>2. Refuse(r) \/ (/\ Exists(call[r].found) /\ tokens[call[r].found].user = Nobody
                    /\ Read(r, [call[r] EXCEPT !.pc = "assign"]))
  BY DEF CheckOtp
<1> QED
  BY <1>1, <1>2, DoesRefuse, DoesRead, DoesStay DEF CheckDoes

AssignDoes(r) ==
    LET c == call[r]
    IN  \/ UNCHANGED privacyidea /\ Fails(r, {})
        \/ /\ Changes(c.found, tokens[c.found].state, c.user, c.person) /\ c.user \in users
           /\ Fails(r, {}) \/ Ends(r)

LEMMA DoesAssign ==
    ASSUME TypeInv, NEW r \in Requests, Assign(r)
    PROVE  Busy(r) /\ call[r].pc = "assign" /\ Others(r) /\ AssignDoes(r)
<1> DEFINE c == call[r]  s == c.found
<1>1. c.pc = "assign" /\ Busy(r) /\ users' = users /\ CallOK(c)
  BY UnderWay DEF Assign, At
<1>2. s \in Serials
  BY <1>1 DEF CallOK, StepsOf
<1>3. CASE Rejected(r, {})
  BY <1>1, <1>3, DoesReject DEF AssignDoes
<1>4. CASE /\ Exists(s) /\ c.user \in users
           /\ Set(s, tokens[s].state, c.user) /\ Holds(s, c.person)
           /\ Answered(r, Idle, {})
  <2>1. Changes(s, tokens[s].state, c.user, c.person)
    BY <1>1, <1>2, <1>4, DoesChange
  <2> QED
    BY <1>1, <1>4, <2>1, DoesAnswer DEF AssignDoes, Ends
<1> QED
  BY <1>3, <1>4 DEF Assign

ListTokensDoes(r) ==
    LET c == call[r]  mine == OfUser(c.user)
    IN  \/ mine = {} /\ c.op = "rename" /\ Learns(r, "add", c.found, c.list, c.todo, mine)
        \/ mine = {} /\ c.op # "rename" /\ Learns(r, "deluser", c.found, c.list, c.todo, mine)
        \/ mine # {} /\ c.op = "rename" /\ Learns(r, "release", c.found, mine, mine, mine)
        \/ mine # {} /\ c.op # "rename" /\ Learns(r, "second", c.found, c.list, c.todo, mine)

LEMMA DoesListTokens ==
    ASSUME TypeInv, NEW r \in Requests, ListTokens(r)
    PROVE  Busy(r) /\ call[r].pc = "list" /\ Others(r) /\ ListTokensDoes(r)
<1> DEFINE c == call[r]  mine == OfUser(c.user)
<1>1. c.pc = "list" /\ Busy(r) /\ IsRequest(c)
  BY UnderWay DEF ListTokens, At
<1>2. ASSUME NEW pc, Finds(r, [c EXCEPT !.pc = pc], mine)
      PROVE  Others(r) /\ Learns(r, pc, c.found, c.list, c.todo, mine)
  <2> DEFINE d == [c EXCEPT !.pc = pc]
  <2>1. d \in Onward(c, pc, c.found, c.list, c.todo, c.threw, c.sites)
    BY <1>1, Updates
  <2>2. d.sites = c.sites
    BY <2>1 DEF Onward
  <2> HIDE DEF d, c, mine
  <2>3. Finds(r, d, mine)
    BY <1>2 DEF d
  <2> QED
    BY <2>1, <2>2, <2>3, DoesFind DEF Learns, c
<1>3. CASE mine = {}
  <2>1. Finds(r, [c EXCEPT !.pc = IF c.op = "rename" THEN "add" ELSE "deluser"], mine)
    BY <1>3 DEF ListTokens
  <2>2. CASE c.op = "rename"
    BY <1>1, <1>2, <1>3, <2>1, <2>2 DEF ListTokensDoes
  <2>3. CASE c.op # "rename"
    BY <1>1, <1>2, <1>3, <2>1, <2>3 DEF ListTokensDoes
  <2> QED
    BY <2>2, <2>3
<1>4. CASE mine # {} /\ c.op = "rename"
  <2> DEFINE d == [c EXCEPT !.pc = "release", !.list = mine, !.todo = mine]
  <2>1. d \in Onward(c, "release", c.found, mine, mine, c.threw, c.sites)
    BY <1>1, Updates
  <2>2. d.sites = c.sites
    BY <2>1, OnwardFields
  <2>3. Finds(r, d, mine)
    BY <1>4 DEF ListTokens
  <2> HIDE DEF d
  <2>4. Others(r) /\ Learns(r, "release", c.found, mine, mine, mine)
    BY <2>1, <2>2, <2>3, DoesFind DEF Learns
  <2> QED
    BY <1>1, <1>4, <2>4 DEF ListTokensDoes
<1>5. CASE mine # {} /\ c.op # "rename"
  <2>1. Finds(r, [c EXCEPT !.pc = "second"], mine)
    BY <1>5 DEF ListTokens
  <2> QED
    BY <1>1, <1>2, <1>5, <2>1 DEF ListTokensDoes
<1> QED
  BY <1>3, <1>4, <1>5

FindSecondDoes(r) ==
    LET c == call[r]
    IN  \/ Verified(c.user) = {} /\ Ends(r) /\ UNCHANGED privacyidea
        \/ \E s \in Verified(c.user) : Learns(r, "unassign", s, c.list, c.todo, {s})

LEMMA DoesFindSecond ==
    ASSUME TypeInv, NEW r \in Requests, FindSecond(r)
    PROVE  Busy(r) /\ call[r].pc = "second" /\ Others(r) /\ FindSecondDoes(r)
<1> DEFINE c == call[r]
<1>1. c.pc = "second" /\ Busy(r) /\ IsRequest(c)
  BY UnderWay DEF FindSecond, At
<1>2. CASE Verified(c.user) = {}
  <2>1. Refuse(r)
    BY <1>2 DEF FindSecond
  <2> QED
    BY <1>1, <1>2, <2>1, DoesRefuse DEF FindSecondDoes
<1>3. CASE Verified(c.user) # {}
  <2>1. PICK s \in Verified(c.user) : Finds(r, [c EXCEPT !.pc = "unassign", !.found = s], {s})
    BY <1>3 DEF FindSecond
  <2> DEFINE d == [c EXCEPT !.pc = "unassign", !.found = s]
  <2>2. d \in Onward(c, "unassign", s, c.list, c.todo, c.threw, c.sites)
    BY <1>1, Updates
  <2>3. d.sites = c.sites
    BY <2>2, OnwardFields
  <2> HIDE DEF d
  <2>4. Finds(r, d, {s})
    BY <2>1 DEF d
  <2>5. Others(r) /\ Learns(r, "unassign", s, c.list, c.todo, {s})
    BY <2>2, <2>3, <2>4, DoesFind DEF Learns
  <2> QED
    BY <1>1, <2>5 DEF FindSecondDoes
<1> QED
  BY <1>2, <1>3

UnassignDoes(r) ==
    LET c == call[r]
    IN  \/ UNCHANGED privacyidea /\ Fails(r, {})
        \/ /\ Changes(c.found, tokens[c.found].state, Nobody, Nobody)
           /\ \/ Fails(r, {})
              \/ c.op = "delete" /\ Stays(r, "deluser")
              \/ c.op # "delete" /\ Ends(r)

LEMMA DoesUnassign ==
    ASSUME TypeInv, NEW r \in Requests, Unassign(r)
    PROVE  Busy(r) /\ call[r].pc = "unassign" /\ Others(r) /\ UnassignDoes(r)
<1> DEFINE c == call[r]  s == c.found
           d == IF c.op = "delete" THEN [c EXCEPT !.pc = "deluser"] ELSE Idle
<1>1. c.pc = "unassign" /\ Busy(r) /\ users' = users /\ CallOK(c)
  BY UnderWay DEF Unassign, At
<1>2. s \in Serials
  BY <1>1 DEF CallOK
<1>3. CASE Rejected(r, {})
  BY <1>1, <1>3, DoesReject DEF UnassignDoes
<1>4. CASE /\ Exists(s)
           /\ Set(s, tokens[s].state, Nobody) /\ Holds(s, Nobody)
           /\ Answered(r, d, {})
  <2>1. Changes(s, tokens[s].state, Nobody, Nobody)
    BY <1>1, <1>2, <1>4, DoesChange
  <2>2. Others(r) /\ (Fails(r, {}) \/ (call'[r] = d /\ UNCHANGED history))
    <3> HIDE DEF d
    <3> QED
      BY <1>1, <1>4, DoesAnswer
  <2>3. CASE c.op = "delete" /\ call'[r] = d /\ UNCHANGED history
    <3>1. d = [c EXCEPT !.pc = "deluser"]
      BY <2>3
    <3>2. Stays(r, "deluser")
      <4> HIDE DEF d
      <4> QED
        BY <1>1, <2>3, <3>1, DoesStay
    <3> QED
      BY <1>1, <2>1, <2>2, <2>3, <3>2 DEF UnassignDoes
  <2>4. CASE c.op # "delete" /\ call'[r] = d /\ UNCHANGED history
    BY <1>1, <2>1, <2>2, <2>4 DEF UnassignDoes, Ends
  <2>5. CASE Fails(r, {})
    BY <1>1, <2>1, <2>2, <2>5 DEF UnassignDoes
  <2> QED
    BY <2>2, <2>3, <2>4, <2>5
<1> QED
  BY <1>3, <1>4 DEF Unassign

\* One of the calls made at once is answered, or its answer is lost.
OneAnswered(r, s, pc) ==
    \/ Fails(r, {s})
    \/ Waits(r, s)
    \/ call[r].threw /\ call[r].todo = {s} /\ Ends(r)
    \/ ~call[r].threw /\ call[r].todo = {s} /\ Goes(r, pc, call[r].list, {})

LEMMA DoesOneAnswered ==
    ASSUME TypeInv, NEW r \in Requests, Busy(r), NEW s \in call[r].todo, NEW pc,
           Answered(r, OneDone(call[r], s, [call[r] EXCEPT !.pc = pc, !.todo = {}]), {s})
    PROVE  Others(r) /\ OneAnswered(r, s, pc)
<1> DEFINE c == call[r]  next == [c EXCEPT !.pc = pc, !.todo = {}]  d == OneDone(c, s, next)
<1>1. IsRequest(c) /\ CallOK(c)
  BY CallOKIsRequest DEF TypeInv
<1>2. next \in Onward(c, pc, c.found, c.list, {}, c.threw, c.sites)
  BY <1>1, Updates
<1>3. [c EXCEPT !.todo = c.todo \ {s}] \in
        Onward(c, c.pc, c.found, c.list, c.todo \ {s}, c.threw, c.sites)
  BY <1>1, Updates
<1>4. CASE c.todo # {s}
  <2>1. d = [c EXCEPT !.todo = c.todo \ {s}] /\ c.todo \ {s} # {}
    BY <1>4 DEF OneDone
  <2> HIDE DEF d, next
  <2>2. Others(r) /\ (Fails(r, {s}) \/ (call'[r] = d /\ UNCHANGED history))
    BY DoesAnswer DEF d, next
  <2>3. call'[r] = d /\ UNCHANGED history => Waits(r, s)
    BY <1>3, <2>1 DEF Waits, Goes
  <2> QED
    BY <2>2, <2>3 DEF OneAnswered
<1>5. CASE c.todo = {s} /\ c.threw
  <2>1. d = Idle
    BY <1>5 DEF OneDone
  <2> HIDE DEF d, next
  <2>2. Others(r) /\ (Fails(r, {s}) \/ (call'[r] = d /\ UNCHANGED history))
    BY DoesAnswer DEF d, next
  <2> QED
    BY <1>5, <2>1, <2>2 DEF OneAnswered, Ends
<1>6. CASE c.todo = {s} /\ ~c.threw
  <2>1. d = next
    BY <1>6 DEF OneDone
  <2> HIDE DEF d, next
  <2>2. Others(r) /\ (Fails(r, {s}) \/ (call'[r] = d /\ UNCHANGED history))
    BY DoesAnswer DEF d, next
  <2> QED
    BY <1>2, <1>6, <2>1, <2>2 DEF OneAnswered, Goes
<1> QED
  BY <1>4, <1>5, <1>6

ReleaseDoes(r) ==
    \E s \in call[r].todo :
        \/ UNCHANGED privacyidea /\ Fails(r, {s})
        \/ Changes(s, tokens[s].state, Nobody, holder[s]) /\ OneAnswered(r, s, "add")

LEMMA DoesRelease ==
    ASSUME TypeInv, NEW r \in Requests, Release(r)
    PROVE  Busy(r) /\ call[r].pc = "release" /\ Others(r) /\ ReleaseDoes(r)
<1> DEFINE c == call[r]
<1>1. c.pc = "release" /\ Busy(r) /\ users' = users /\ CallOK(c)
  BY UnderWay DEF Release, At
<1>2. PICK s \in c.todo :
        \/ /\ Exists(s) /\ Set(s, tokens[s].state, Nobody) /\ holder' = holder
           /\ Answered(r, OneDone(c, s, [c EXCEPT !.pc = "add", !.todo = {}]), {s})
        \/ ~Exists(s) /\ Rejected(r, {s})
  BY DEF Release
<1>3. s \in Serials
  BY <1>1 DEF CallOK
<1>4. CASE Rejected(r, {s})
  BY <1>1, <1>4, DoesReject DEF ReleaseDoes
<1>5. CASE /\ Exists(s) /\ Set(s, tokens[s].state, Nobody) /\ holder' = holder
           /\ Answered(r, OneDone(c, s, [c EXCEPT !.pc = "add", !.todo = {}]), {s})
  <2>1. Changes(s, tokens[s].state, Nobody, holder[s])
    BY <1>1, <1>3, <1>5, DoesChange
  <2>2. Others(r) /\ OneAnswered(r, s, "add")
    BY <1>1, <1>5, DoesOneAnswered
  <2> QED
    BY <1>1, <2>1, <2>2 DEF ReleaseDoes
<1> QED
  BY <1>2, <1>4, <1>5

ReassignDoes(r) ==
    \E s \in call[r].todo :
        \/ UNCHANGED privacyidea /\ Fails(r, {s})
        \/ /\ Changes(s, tokens[s].state, call[r].to, call[r].person) /\ call[r].to \in users
           /\ OneAnswered(r, s, "deluser")

LEMMA DoesReassign ==
    ASSUME TypeInv, NEW r \in Requests, Reassign(r)
    PROVE  Busy(r) /\ call[r].pc = "reassign" /\ Others(r) /\ ReassignDoes(r)
<1> DEFINE c == call[r]
<1>1. c.pc = "reassign" /\ Busy(r) /\ users' = users /\ CallOK(c)
  BY UnderWay DEF Reassign, At
<1>2. PICK s \in c.todo :
        \/ /\ Exists(s) /\ c.to \in users
           /\ Set(s, tokens[s].state, c.to) /\ Holds(s, c.person)
           /\ Answered(r, OneDone(c, s, [c EXCEPT !.pc = "deluser", !.todo = {}]), {s})
        \/ Rejected(r, {s})
  BY DEF Reassign
<1>3. s \in Serials
  BY <1>1 DEF CallOK
<1>4. CASE Rejected(r, {s})
  BY <1>1, <1>4, DoesReject DEF ReassignDoes
<1>5. CASE /\ Exists(s) /\ c.to \in users
           /\ Set(s, tokens[s].state, c.to) /\ Holds(s, c.person)
           /\ Answered(r, OneDone(c, s, [c EXCEPT !.pc = "deluser", !.todo = {}]), {s})
  <2>1. Changes(s, tokens[s].state, c.to, c.person)
    BY <1>1, <1>3, <1>5, DoesChange
  <2>2. Others(r) /\ OneAnswered(r, s, "deluser")
    BY <1>1, <1>5, DoesOneAnswered
  <2> QED
    BY <1>1, <1>5, <2>1, <2>2 DEF ReassignDoes
<1> QED
  BY <1>2, <1>4, <1>5

DeleteUserDoes(r) ==
    LET u == call[r].user
    IN  /\ users' = users \ {u} /\ holder' = holder
        /\ tokens' = [s \in Serials |-> tokens'[s]]
        /\ \A s \in OfUser(u) : tokens'[s] = [state |-> tokens[s].state, user |-> Lost]
        /\ \A s \in Serials \ OfUser(u) : tokens'[s] = tokens[s]
        /\ Fails(r, {}) \/ Ends(r)

LEMMA DoesDeleteUser ==
    ASSUME TypeInv, NEW r \in Requests, DeleteUser(r)
    PROVE  Busy(r) /\ call[r].pc = "deluser" /\ Others(r) /\ DeleteUserDoes(r)
<1> DEFINE u == call[r].user
<1>1. call[r].pc = "deluser" /\ Busy(r)
  BY UnderWay DEF DeleteUser, At
<1>2. Others(r) /\ (Fails(r, {}) \/ Ends(r))
  BY <1>1, DoesAnswer DEF DeleteUser, Ends
<1>3. tokens' = [s \in Serials |-> IF s \in OfUser(u)
                                   THEN [tokens[s] EXCEPT !.user = Lost] ELSE tokens[s]]
  BY DEF DeleteUser
<1>4. ASSUME NEW s \in OfUser(u)
      PROVE  tokens'[s] = [state |-> tokens[s].state, user |-> Lost]
  <2>1. s \in Serials
    BY DEF OfUser
  <2>2. tokens'[s] = [tokens[s] EXCEPT !.user = Lost]
    BY <1>3, <2>1
  <2>3. tokens[s] \in [state : {tokens[s].state}, user : {tokens[s].user}]
    BY <2>1 DEF TypeInv, TypeOK, Absent, Removed
  <2> QED
    BY <2>2, <2>3
<1>5. \A s \in Serials \ OfUser(u) : tokens'[s] = tokens[s]
  BY <1>3
<1>6. users' = users \ {u} /\ holder' = holder
  BY DEF DeleteUser
<1>7. tokens' = [s \in Serials |-> tokens'[s]]
  BY <1>3
<1> QED
  BY <1>1, <1>2, <1>4, <1>5, <1>6, <1>7 DEF DeleteUserDoes

CallFailsDoes(r) ==
    /\ UNCHANGED privacyidea
    /\ \/ call[r].todo = {} /\ Fails(r, {})
       \/ \E s \in call[r].todo : Fails(r, {s})

LEMMA DoesCallFails ==
    ASSUME TypeInv, NEW r \in Requests, CallFails(r)
    PROVE  Busy(r) /\ Others(r) /\ CallFailsDoes(r)
<1>1. Busy(r) /\ UNCHANGED privacyidea
  BY DEF CallFails
<1>2. CASE call[r].todo = {}
  <2>1. Throws(r, {})
    BY <1>2 DEF CallFails
  <2> QED
    BY <1>1, <1>2, <2>1, DoesThrow DEF CallFailsDoes
<1>3. CASE call[r].todo # {}
  <2>1. PICK s \in call[r].todo : Throws(r, {s})
    BY <1>3 DEF CallFails
  <2> QED
    BY <1>1, <2>1, DoesThrow DEF CallFailsDoes
<1> QED
  BY <1>2, <1>3

-----------------------------------------------------------------------------
(* A request begins.                                                       *)

FirstStep(op) ==
    IF op = "verify" THEN "old" ELSE IF op = "reset" THEN "second"
    ELSE IF op = "delete" THEN "list" ELSE "exists"

StartSites(p, to, serial) ==
    {p, name[p], to}
        \cup About({s \in Serials : holder[s] = p \/ tokens[s].user = name[p]} \cup ({serial} \ {Nobody}))

AskDoes(r) ==
    LET d == call'[r]  p == d.person
    IN  /\ ~Busy(r) /\ IsRequest(d) /\ call' = [q \in Requests |-> call'[q]]
        /\ \A q \in Requests : q # r => call'[q] = call[q]
        /\ d.op \in {"init", "assign", "verify", "reset", "rename", "delete"} /\ d.pc = FirstStep(d.op)
        /\ p \in alive /\ d.user = name[p] /\ d.to \in Usernames
        /\ d.to = d.user \/ (d.op = "rename" /\ FreeName(d.to))
        /\ IF d.op = "assign" THEN d.found \in Serials /\ tokens[d.found] # Absent ELSE d.found = Nobody
        /\ d.list = {} /\ d.todo = {} /\ d.threw = FALSE
        /\ d.sites = StartSites(p, d.to, d.found)
        /\ Races(r, d.sites)
        /\ name' = [name EXCEPT ![p] = d.to]
        /\ alive' = IF d.op = "delete" THEN alive \ {p} ELSE alive
        /\ UNCHANGED <<privacyidea, failed>>

LEMMA DoesBegin ==
    ASSUME TypeInv, NEW r \in Requests, NEW op, NEW pc, NEW p, NEW to, NEW serial,
           Begin(r, op, pc, p, to, serial)
    PROVE  LET d == call'[r]
           IN  /\ ~Busy(r) /\ IsRequest(d) /\ call' = [q \in Requests |-> call'[q]]
               /\ \A q \in Requests : q # r => call'[q] = call[q]
               /\ d.op = op /\ d.pc = pc /\ d.person = p /\ d.user = name[p] /\ d.to = to
               /\ d.found = serial /\ d.list = {} /\ d.todo = {} /\ d.threw = FALSE
               /\ d.sites = StartSites(p, to, serial)
               /\ Races(r, StartSites(p, to, serial))
               /\ UNCHANGED <<privacyidea, failed>>
<1> DEFINE sites == StartSites(p, to, serial)
           d == [pc |-> pc, op |-> op, person |-> p, user |-> name[p], to |-> to,
                 found |-> serial, list |-> {}, todo |-> {}, threw |-> FALSE, sites |-> sites]
<1>1. /\ ~Busy(r) /\ call' = [call EXCEPT ![r] = d] /\ Races(r, sites)
      /\ UNCHANGED <<privacyidea, failed>>
  BY DEF Begin, StartSites
<1>2. /\ IsRequest(d) /\ d.op = op /\ d.pc = pc /\ d.person = p /\ d.user = name[p] /\ d.to = to
      /\ d.found = serial /\ d.list = {} /\ d.todo = {} /\ d.threw = FALSE /\ d.sites = sites
  BY DEF IsRequest
<1> HIDE DEF d, sites
<1>3. /\ call'[r] = d /\ call' = [q \in Requests |-> call'[q]]
      /\ \A q \in Requests : q # r => call'[q] = call[q]
  BY <1>1 DEF TypeInv
<1> QED
  BY <1>1, <1>2, <1>3 DEF sites

LEMMA BegunAsks ==
    ASSUME TypeInv, NEW r \in Requests,
           NEW op \in {"init", "assign", "verify", "reset", "rename", "delete"},
           NEW p \in alive, NEW to \in Usernames, to = name[p] \/ (op = "rename" /\ FreeName(to)),
           NEW serial, op = "assign" => serial \in Serials /\ tokens[serial] # Absent,
           op # "assign" => serial = Nobody,
           NEW pc, pc = FirstStep(op), Begin(r, op, pc, p, to, serial),
           name' = [name EXCEPT ![p] = to],
           op = "delete" => alive' = alive \ {p}, op # "delete" => alive' = alive
    PROVE  AskDoes(r)
<1> DEFINE d == call'[r]
<1>1. /\ ~Busy(r) /\ IsRequest(d) /\ call' = [q \in Requests |-> call'[q]]
      /\ \A q \in Requests : q # r => call'[q] = call[q]
      /\ d.op = op /\ d.pc = FirstStep(op) /\ d.person = p /\ d.user = name[p] /\ d.to = to
      /\ d.found = serial /\ d.list = {} /\ d.todo = {} /\ d.threw = FALSE
      /\ d.sites = StartSites(p, to, serial)
      /\ Races(r, StartSites(p, to, serial))
      /\ UNCHANGED <<privacyidea, failed>>
  BY DoesBegin
<1>2. d.sites = StartSites(d.person, d.to, d.found) /\ Races(r, d.sites)
  BY <1>1
<1>3. IF d.op = "assign" THEN d.found \in Serials /\ tokens[d.found] # Absent ELSE d.found = Nobody
  BY <1>1
<1>4. /\ name' = [name EXCEPT ![d.person] = d.to]
      /\ alive' = IF d.op = "delete" THEN alive \ {d.person} ELSE alive
  BY <1>1
<1>5. d.person \in alive /\ d.user = name[d.person] /\ d.to \in Usernames
      /\ (d.to = d.user \/ (d.op = "rename" /\ FreeName(d.to)))
      /\ d.op \in {"init", "assign", "verify", "reset", "rename", "delete"} /\ d.pc = FirstStep(d.op)
      /\ d.list = {} /\ d.todo = {} /\ d.threw = FALSE
  BY <1>1
<1> HIDE DEF d
<1> QED
  BY <1>1, <1>2, <1>3, <1>4, <1>5 DEF AskDoes, d

LEMMA DoesAsk ==
    ASSUME TypeInv, NEW r \in Requests, Ask(r)
    PROVE  AskDoes(r)
<1>1. name \in [Persons -> Usernames \cup {Nobody}] /\ \A p \in alive : p \in Persons /\ name[p] \in Usernames
  BY TokenAssumption DEF TypeInv, TypeOK
<1>2. ASSUME NEW op \in {"init", "verify", "reset"}, NEW p \in alive,
             Begin(r, op, FirstStep(op), p, name[p], Nobody), UNCHANGED server
      PROVE  AskDoes(r)
  <2>1. name' = [name EXCEPT ![p] = name[p]] /\ alive' = alive
    BY <1>1, <1>2 DEF server
  <2>2. /\ op \in {"init", "assign", "verify", "reset", "rename", "delete"} /\ name[p] \in Usernames
        /\ op # "assign" /\ op # "delete"
    BY <1>1
  <2>3. /\ op = "assign" => Nobody \in Serials /\ tokens[Nobody] # Absent
        /\ op # "assign" => Nobody = Nobody
        /\ op = "delete" => alive' = alive \ {p}
        /\ op # "delete" => alive' = alive
    BY <2>1, <2>2
  <2> QED
    BY <1>2, <2>1, <2>2, <2>3, BegunAsks
<1>3. CASE AskInit(r)
  BY <1>2, <1>3 DEF AskInit, FirstStep
<1>4. CASE AskVerify(r)
  BY <1>2, <1>4 DEF AskVerify, FirstStep
<1>5. CASE AskReset(r)
  BY <1>2, <1>5 DEF AskReset, FirstStep
<1>6. CASE AskAssign(r)
  <2>1. PICK p \in alive, s \in {t \in Serials : tokens[t] # Absent} :
              Begin(r, "assign", "exists", p, name[p], s)
    BY <1>6 DEF AskAssign
  <2>2. name' = [name EXCEPT ![p] = name[p]] /\ alive' = alive
    BY <1>1, <1>6 DEF server, AskAssign
  <2>3. "exists" = FirstStep("assign")
    BY DEF FirstStep
  <2> QED
    BY <1>1, <2>1, <2>2, <2>3, BegunAsks
<1>7. CASE Rename(r)
  <2>1. PICK p \in alive, u \in Usernames :
        /\ u = name[p] \/ FreeName(u)
        /\ Begin(r, "rename", "exists", p, u, Nobody)
        /\ name' = [name EXCEPT ![p] = u]
        /\ UNCHANGED alive
    BY <1>7 DEF Rename
  <2>2. "exists" = FirstStep("rename")
    BY DEF FirstStep
  <2> QED
    BY <1>1, <2>1, <2>2, BegunAsks
<1>8. CASE DeletePerson(r)
  <2>1. PICK p \in alive :
        /\ Begin(r, "delete", "list", p, name[p], Nobody)
        /\ alive' = alive \ {p}
        /\ UNCHANGED name
    BY <1>8 DEF DeletePerson
  <2>2. name' = [name EXCEPT ![p] = name[p]]
    BY <1>1, <2>1
  <2>3. "list" = FirstStep("delete")
    BY DEF FirstStep
  <2> QED
    BY <1>1, <2>1, <2>2, <2>3, BegunAsks
<1> QED
  BY <1>3, <1>4, <1>5, <1>6, <1>7, <1>8 DEF Ask

-----------------------------------------------------------------------------
(* What any step of a request does to tokens, users and the request.       *)

Same(s) == tokens'[s] = tokens[s] /\ holder'[s] = holder[s]

Made(r, s) ==
    /\ call[r].pc = "create" /\ s \in Software /\ tokens[s] = Absent
    /\ tokens'[s] = [state |-> "verify", user |-> call[r].user] /\ holder'[s] = call[r].person
    /\ call[r].user \in users
    /\ \A t \in Serials : t # s => Same(t)

LostBy(r, s) ==
    /\ call[r].pc = "deluser" /\ s \in OfUser(call[r].user)
    /\ tokens'[s] = [state |-> tokens[s].state, user |-> Lost] /\ holder'[s] = holder[s]

Touched(r, s) ==
    LET c == call[r]
    IN  /\ s \in c.sites /\ s \in Serials /\ Exists(s)
        /\ \A t \in Serials : t # s => Same(t)
        /\ \/ /\ c.pc = "drop" /\ s \in c.list
              /\ tokens'[s] = Removed /\ holder'[s] = Nobody
           \/ /\ c.pc = "confirm" /\ s = c.found /\ tokens[s].state = "verify"
              /\ tokens'[s] = [state |-> "ready", user |-> tokens[s].user] /\ holder'[s] = holder[s]
           \/ /\ c.pc = "assign" /\ s = c.found /\ c.user \in users
              /\ tokens'[s] = [state |-> tokens[s].state, user |-> c.user] /\ holder'[s] = c.person
           \/ /\ c.pc = "unassign" /\ s = c.found
              /\ tokens'[s] = [state |-> tokens[s].state, user |-> Nobody] /\ holder'[s] = Nobody
           \/ /\ c.pc = "release" /\ s \in c.todo
              /\ tokens'[s] = [state |-> tokens[s].state, user |-> Nobody] /\ holder'[s] = holder[s]
           \/ /\ c.pc = "reassign" /\ s \in c.todo /\ c.to \in users
              /\ tokens'[s] = [state |-> tokens[s].state, user |-> c.to] /\ holder'[s] = c.person

TokensDo(r) ==
    /\ tokens' = [s \in Serials |-> tokens'[s]]
    /\ holder' \in [Serials -> Persons \cup {Nobody}]
    /\ \A s \in Serials : Same(s) \/ Made(r, s) \/ LostBy(r, s) \/ Touched(r, s)

UsersDo(r) ==
    \/ users' = users /\ call[r].pc # "deluser"
    \/ users' = users /\ UNCHANGED <<tokens, holder>>
    \/ call[r].pc = "add" /\ users' = users \cup {call[r].to}
    \/ call[r].pc = "deluser" /\ users' = users \ {call[r].user}
       /\ \A s \in OfUser(call[r].user) : LostBy(r, s)

LEMMA ChangesDo ==
    ASSUME TypeInv, NEW r \in Requests, NEW s, NEW state, NEW user, NEW p \in Persons \cup {Nobody},
           Changes(s, state, user, p), Touched(r, s), call[r].pc # "deluser"
    PROVE  TokensDo(r) /\ UsersDo(r)
<1>1. tokens' = [t \in Serials |-> tokens'[t]]
  BY DEF Changes
<1>2. holder' \in [Serials -> Persons \cup {Nobody}]
  BY DEF Changes, TypeInv, TypeOK
<1>3. \A t \in Serials : t # s => Same(t)
  BY DEF Changes, Same
<1>4. users' = users
  BY DEF Changes
<1> QED
  BY <1>1, <1>2, <1>3, <1>4 DEF TokensDo, UsersDo

LEMMA NothingDone ==
    ASSUME TypeInv, NEW r \in Requests, UNCHANGED <<tokens, holder>>
    PROVE  TokensDo(r) /\ (users' = users => UsersDo(r))
BY DEF TypeInv, TypeOK, TokensDo, UsersDo, Same

LEMMA OnServer ==
    ASSUME TypeInv, NEW r \in Requests, Step(r)
    PROVE  Busy(r) /\ Others(r) /\ TokensDo(r) /\ UsersDo(r)
<1> DEFINE c == call[r]
<1> USE DEF privacyidea
<1>1. CASE CallFails(r)
  BY <1>1, DoesCallFails, NothingDone DEF CallFailsDoes
<1>2. CASE CheckUser(r)
  BY <1>2, DoesCheckUser, NothingDone DEF CheckUserDoes
<1>3. CASE AddUser(r)
  BY <1>3, DoesAddUser, NothingDone DEF AddUserDoes, UsersDo
<1>4. CASE FindOld(r)
  BY <1>4, DoesFindOld, NothingDone DEF FindOldDoes, Learns
<1>5. CASE Drop(r)
  <2>1. Busy(r) /\ c.pc = "drop" /\ Others(r) /\ DropDoes(r)
    BY <1>5, DoesDrop
  <2>2. c.list \subseteq c.sites
    BY <2>1 DEF TypeInv, CallOK
  <2>3. ASSUME NEW s \in c.list, Changes(s, "removed", Nobody, Nobody)
        PROVE  TokensDo(r) /\ UsersDo(r)
    <3>1. Touched(r, s)
      BY <2>1, <2>2, <2>3 DEF Changes, Touched, Same, Removed
    <3> QED
      BY <2>1, <2>3, <3>1, ChangesDo
  <2> QED
    BY <2>1, <2>3, NothingDone DEF DropDoes
<1>6. CASE InitToken(r)
  <2>1. Busy(r) /\ c.pc = "create" /\ Others(r) /\ InitTokenDoes(r)
    BY <1>6, DoesInitToken
  <2>2. ASSUME NEW s \in Software, tokens[s] = Absent, holder' = [holder EXCEPT ![s] = c.person],
               tokens' = [tokens EXCEPT ![s] = [state |-> "verify", user |-> c.user]],
               users' = users, c.user \in users
        PROVE  TokensDo(r) /\ UsersDo(r)
    <3>1. s \in Serials /\ c.person \in Persons
      BY <2>1 DEF Serials, TypeInv, CallOK
    <3>2. \A t \in Serials : t # s => Same(t)
      BY <2>2 DEF Same, TypeInv, TypeOK
    <3>3. Made(r, s)
      BY <2>1, <2>2, <3>1, <3>2 DEF Made, TypeInv, TypeOK
    <3>4. tokens' = [t \in Serials |-> tokens'[t]] /\ holder' \in [Serials -> Persons \cup {Nobody}]
      BY <2>2, <3>1 DEF TypeInv, TypeOK
    <3> QED
      BY <2>1, <2>2, <3>2, <3>3, <3>4 DEF TokensDo, UsersDo
  <2> QED
    BY <2>1, <2>2, NothingDone DEF InitTokenDoes
<1>7. CASE Confirm(r)
  <2>1. Busy(r) /\ c.pc = "confirm" /\ Others(r) /\ ConfirmDoes(r) /\ CallOK(c)
    BY <1>7, DoesConfirm DEF TypeInv
  <2>2. c.found \in Serials /\ c.found \in c.sites /\ holder[c.found] \in Persons \cup {Nobody}
    BY <2>1, TokenAssumption DEF CallOK, TypeInv, TypeOK, Serials
  <2>3. ASSUME tokens[c.found].state = "verify", Changes(c.found, "ready", tokens[c.found].user, holder[c.found])
        PROVE  TokensDo(r) /\ UsersDo(r)
    <3>1. Touched(r, c.found)
      BY <2>1, <2>2, <2>3 DEF Changes, Touched, Same
    <3> QED
      BY <2>1, <2>2, <2>3, <3>1, ChangesDo
  <2> QED
    BY <2>1, <2>3, NothingDone DEF ConfirmDoes
<1>8. CASE CheckStatus(r)
  BY <1>8, DoesCheckStatus, NothingDone DEF CheckDoes
<1>9. CASE CheckOtp(r)
  BY <1>9, DoesCheckOtp, NothingDone DEF CheckDoes
<1>10. CASE Assign(r)
  <2>1. Busy(r) /\ c.pc = "assign" /\ Others(r) /\ AssignDoes(r) /\ CallOK(c)
    BY <1>10, DoesAssign DEF TypeInv
  <2>2. c.found \in Serials /\ c.found \in c.sites /\ c.person \in Persons \cup {Nobody}
    BY <2>1, TokenAssumption DEF CallOK, StepsOf, Serials
  <2>3. ASSUME Changes(c.found, tokens[c.found].state, c.user, c.person), c.user \in users
        PROVE  TokensDo(r) /\ UsersDo(r)
    <3>1. Touched(r, c.found)
      BY <2>1, <2>2, <2>3 DEF Changes, Touched, Same
    <3> QED
      BY <2>1, <2>2, <2>3, <3>1, ChangesDo
  <2> QED
    BY <2>1, <2>3, NothingDone DEF AssignDoes
<1>11. CASE ListTokens(r)
  BY <1>11, DoesListTokens, NothingDone DEF ListTokensDoes, Learns
<1>12. CASE FindSecond(r)
  BY <1>12, DoesFindSecond, NothingDone DEF FindSecondDoes, Learns
<1>13. CASE Unassign(r)
  <2>1. Busy(r) /\ c.pc = "unassign" /\ Others(r) /\ UnassignDoes(r) /\ CallOK(c)
    BY <1>13, DoesUnassign DEF TypeInv
  <2>2. c.found \in Serials /\ c.found \in c.sites
    BY <2>1, TokenAssumption DEF CallOK, Serials
  <2>3. ASSUME Changes(c.found, tokens[c.found].state, Nobody, Nobody)
        PROVE  TokensDo(r) /\ UsersDo(r)
    <3>1. Touched(r, c.found)
      BY <2>1, <2>2, <2>3 DEF Changes, Touched, Same
    <3> QED
      BY <2>1, <2>2, <2>3, <3>1, ChangesDo
  <2> QED
    BY <2>1, <2>3, NothingDone DEF UnassignDoes
<1>14. CASE Release(r)
  <2>1. Busy(r) /\ c.pc = "release" /\ Others(r) /\ ReleaseDoes(r) /\ CallOK(c)
    BY <1>14, DoesRelease DEF TypeInv
  <2>2. \A s \in c.todo : s \in Serials /\ s \in c.sites /\ holder[s] \in Persons \cup {Nobody}
    BY <2>1 DEF CallOK, TypeInv, TypeOK
  <2>3. ASSUME NEW s \in c.todo, Changes(s, tokens[s].state, Nobody, holder[s])
        PROVE  TokensDo(r) /\ UsersDo(r)
    <3>1. Touched(r, s)
      BY <2>1, <2>2, <2>3 DEF Changes, Touched, Same
    <3> QED
      BY <2>1, <2>2, <2>3, <3>1, ChangesDo
  <2> QED
    BY <2>1, <2>3, NothingDone DEF ReleaseDoes
<1>15. CASE Reassign(r)
  <2>1. Busy(r) /\ c.pc = "reassign" /\ Others(r) /\ ReassignDoes(r) /\ CallOK(c)
    BY <1>15, DoesReassign DEF TypeInv
  <2>2. c.person \in Persons /\ \A s \in c.todo : s \in Serials /\ s \in c.sites
    BY <2>1 DEF CallOK
  <2>3. ASSUME NEW s \in c.todo, Changes(s, tokens[s].state, c.to, c.person), c.to \in users
        PROVE  TokensDo(r) /\ UsersDo(r)
    <3>1. Touched(r, s)
      BY <2>1, <2>2, <2>3 DEF Changes, Touched, Same
    <3> QED
      BY <2>1, <2>2, <2>3, <3>1, ChangesDo
  <2> QED
    BY <2>1, <2>3, NothingDone DEF ReassignDoes
<1>16. CASE DeleteUser(r)
  <2>1. Busy(r) /\ c.pc = "deluser" /\ Others(r) /\ DeleteUserDoes(r)
    BY <1>16, DoesDeleteUser
  <2>2. \A s \in OfUser(c.user) : LostBy(r, s)
    BY <2>1 DEF DeleteUserDoes, LostBy, OfUser
  <2>3. \A s \in Serials \ OfUser(c.user) : Same(s)
    BY <2>1 DEF DeleteUserDoes, Same
  <2>4. holder' \in [Serials -> Persons \cup {Nobody}]
    BY <2>1 DEF DeleteUserDoes, TypeInv, TypeOK
  <2> QED
    BY <2>1, <2>2, <2>3, <2>4 DEF DeleteUserDoes, TokensDo, UsersDo
<1> QED
  BY <1>1, <1>2, <1>3, <1>4, <1>5, <1>6, <1>7, <1>8, <1>9, <1>10, <1>11, <1>12, <1>13, <1>14,
     <1>15, <1>16 DEF Step

-----------------------------------------------------------------------------
(* What any step of a request does to the request.                         *)

Continues(c, d) ==
    /\ d # Idle /\ CallOK(d) /\ d.op = c.op /\ d.person = c.person /\ d.user = c.user /\ d.to = c.to
    /\ c.threw => d.threw

Finding(r, serials) ==
    /\ call'[r] # Idle /\ UNCHANGED <<privacyidea, failed>>
    /\ serials \subseteq OfUser(call[r].user)
    /\ call'[r].sites = call[r].sites \cup About(serials)
    /\ Races(r, call'[r].sites)

GoesOn(r) ==
    /\ call'[r] = Idle \/ Continues(call[r], call'[r])
    /\ failed' = failed \/ failed' = failed \cup {call[r].person, call[r].user, call[r].to}
    /\ \/ call'[r] = Idle \/ (call'[r].threw => call[r].threw)
       \/ failed' = failed \cup {call[r].person, call[r].user, call[r].to}
    /\ \/ raced' = raced /\ (call'[r] = Idle \/ call'[r].sites = call[r].sites)
       \/ \E serials \in SUBSET Serials : Finding(r, serials)

LEMMA OnwardOK ==
    ASSUME NEW c, CallOK(c), NEW pc \in StepsOf(c.op), NEW found \in Serials \cup {Nobody},
           c.op = "assign" \/ pc \in {"confirm", "unassign"} => found \in Serials,
           NEW list \in SUBSET Serials, NEW todo \in SUBSET list, NEW threw \in BOOLEAN, c.threw => threw,
           pc \notin {"release", "reassign"} => todo = {},
           NEW sites, c.sites \subseteq sites, list \subseteq sites, found # Nobody => found \in sites,
           NEW d \in Onward(c, pc, found, list, todo, threw, sites)
    PROVE  Continues(c, d) /\ d.sites = sites /\ d.threw = threw
<1>1. pc # "idle"
  BY DEF CallOK, StepsOf
<1>2. /\ d # Idle /\ IsRequest(d)
      /\ d.pc = pc /\ d.op = c.op /\ d.person = c.person /\ d.user = c.user /\ d.to = c.to
      /\ d.found = found /\ d.list = list /\ d.todo = todo /\ d.threw = threw /\ d.sites = sites
  BY <1>1, OnwardFields
<1>3. CallOK(d)
  <2>1. /\ d.op \in {"init", "assign", "verify", "reset", "rename", "delete"} /\ d.pc \in StepsOf(d.op)
        /\ d.person \in Persons /\ {d.user, d.to} \subseteq Usernames
        /\ d.op # "rename" => d.to = d.user
    BY <1>2 DEF CallOK
  <2>2. {d.person, d.user, d.to} \cup d.list \subseteq d.sites
    BY <1>2 DEF CallOK
  <2>3. /\ d.found \in Serials \cup {Nobody}
        /\ d.op = "assign" \/ d.pc \in {"confirm", "unassign"} => d.found \in Serials
        /\ d.list \subseteq Serials /\ d.todo \subseteq d.list /\ d.threw \in BOOLEAN
        /\ d.pc \notin {"release", "reassign"} => d.todo = {}
        /\ d.found # Nobody => d.found \in d.sites
    BY <1>2
  <2> QED
    BY <1>2, <2>1, <2>2, <2>3 DEF CallOK, IsRequest
<1> QED
  BY <1>2, <1>3 DEF Continues

LEMMA StayOn ==
    ASSUME TypeInv, NEW r \in Requests, Busy(r), NEW pc \in StepsOf(call[r].op), Stays(r, pc),
           call[r].op = "assign" \/ pc \notin {"confirm", "unassign"},
           call[r].pc \notin {"release", "reassign"}
    PROVE  GoesOn(r)
<1> DEFINE c == call[r]
<1>1. CallOK(c)
  BY DEF TypeInv
<1>2. /\ c.found \in Serials \cup {Nobody} /\ (c.op = "assign" => c.found \in Serials)
      /\ c.list \in SUBSET Serials /\ c.todo \in SUBSET c.list /\ c.threw \in BOOLEAN
      /\ c.todo = {} /\ c.list \subseteq c.sites /\ (c.found # Nobody => c.found \in c.sites)
  BY <1>1 DEF CallOK
<1>3. call'[r] \in Onward(c, pc, c.found, c.list, c.todo, c.threw, c.sites) /\ UNCHANGED history
  BY DEF Stays, Goes
<1>4. Continues(c, call'[r]) /\ call'[r].sites = c.sites /\ call'[r].threw = c.threw
  BY <1>1, <1>2, <1>3, OnwardOK
<1> QED
  BY <1>3, <1>4 DEF GoesOn, history

LEMMA FailOn ==
    ASSUME TypeInv, NEW r \in Requests, Busy(r), NEW done, Fails(r, done)
    PROVE  GoesOn(r)
<1> DEFINE c == call[r]
<1>1. CallOK(c)
  BY DEF TypeInv
<1>2. CASE call'[r] = Idle
  BY <1>2 DEF GoesOn, Fails
<1>3. CASE c.todo \ done # {} /\ call'[r] \in Onward(c, c.pc, c.found, c.list, c.todo \ done, TRUE, c.sites)
  <2>1. Continues(c, call'[r]) /\ call'[r].sites = c.sites
    <3> DEFINE left == c.todo \ done  threw == TRUE
    <3>1. c.pc \in StepsOf(c.op) /\ c.found \in Serials \cup {Nobody}
          /\ (c.op = "assign" \/ c.pc \in {"confirm", "unassign"} => c.found \in Serials)
          /\ c.list \in SUBSET Serials /\ left \in SUBSET c.list /\ threw \in BOOLEAN /\ (c.threw => threw)
          /\ (c.pc \notin {"release", "reassign"} => left = {})
          /\ c.sites \subseteq c.sites
          /\ c.list \subseteq c.sites /\ (c.found # Nobody => c.found \in c.sites)
      BY <1>1 DEF CallOK
    <3>2. call'[r] \in Onward(c, c.pc, c.found, c.list, left, threw, c.sites)
      BY <1>3
    <3> HIDE DEF left, threw
    <3> QED
      BY <1>1, <3>1, <3>2, OnwardOK
  <2> QED
    BY <2>1 DEF GoesOn, Fails
<1> QED
  BY <1>2, <1>3 DEF Fails

LEMMA EndOn == ASSUME NEW r \in Requests, Ends(r) PROVE GoesOn(r)
BY DEF Ends, GoesOn, history

LEMMA LearnOn ==
    ASSUME TypeInv, NEW r \in Requests, Busy(r), NEW pc \in StepsOf(call[r].op),
           NEW found \in Serials \cup {Nobody}, NEW list \in SUBSET Serials, NEW todo \in SUBSET list,
           NEW serials \in SUBSET OfUser(call[r].user), Learns(r, pc, found, list, todo, serials),
           call[r].op = "assign" \/ pc \in {"confirm", "unassign"} => found \in Serials,
           pc \notin {"release", "reassign"} => todo = {},
           list \subseteq call[r].list \cup serials, found \in {call[r].found} \cup serials
    PROVE  GoesOn(r)
<1> DEFINE c == call[r]  sites == c.sites \cup About(serials)
<1>1. CallOK(c)
  BY DEF TypeInv
<1>2. serials \in SUBSET Serials
  BY DEF OfUser
<1>3. serials \subseteq About(serials)
  BY <1>2, TokenAssumption DEF About, Serials
<1>4. c.threw \in BOOLEAN /\ list \subseteq sites /\ (found # Nobody => found \in sites)
  BY <1>1, <1>3 DEF CallOK
<1>5. /\ call'[r] \in Onward(c, pc, found, list, todo, c.threw, sites) /\ Races(r, sites)
      /\ UNCHANGED <<privacyidea, failed>>
  BY DEF Learns
<1>6. Continues(c, call'[r]) /\ call'[r].sites = sites /\ call'[r].threw = c.threw
  <2> HIDE DEF sites
  <2>1. c.sites \subseteq sites
    BY DEF sites
  <2> QED
    BY <1>1, <1>4, <1>5, <2>1, OnwardOK
<1>7. Finding(r, serials)
  BY <1>5, <1>6 DEF Finding, Continues
<1> QED
  BY <1>2, <1>5, <1>6, <1>7 DEF GoesOn

LEMMA OneAnsweredOn ==
    ASSUME TypeInv, NEW r \in Requests, Busy(r), NEW s \in call[r].todo, NEW pc \in StepsOf(call[r].op),
           pc \notin {"confirm", "unassign"}, OneAnswered(r, s, pc)
    PROVE  GoesOn(r)
<1> DEFINE c == call[r]
<1>1. CallOK(c)
  BY DEF TypeInv
<1>2. /\ c.pc \in {"release", "reassign"} /\ c.pc \in StepsOf(c.op) /\ c.found \in Serials \cup {Nobody}
      /\ (c.op = "assign" => c.found \in Serials)
      /\ c.list \in SUBSET Serials /\ c.todo \ {s} \in SUBSET c.list /\ c.threw \in BOOLEAN
      /\ c.list \subseteq c.sites /\ (c.found # Nobody => c.found \in c.sites)
  BY <1>1 DEF CallOK
<1>3. CASE Fails(r, {s})
  BY <1>3, FailOn
<1>4. CASE Ends(r)
  BY <1>4, EndOn
<1>5. CASE Waits(r, s)
  <2>1. call'[r] \in Onward(c, c.pc, c.found, c.list, c.todo \ {s}, c.threw, c.sites) /\ UNCHANGED history
    BY <1>5 DEF Waits, Goes
  <2>2. Continues(c, call'[r]) /\ call'[r].sites = c.sites /\ call'[r].threw = c.threw
    BY <1>2, <1>1, <2>1, OnwardOK
  <2> QED
    BY <2>1, <2>2 DEF GoesOn, history
<1>6. CASE Goes(r, pc, c.list, {})
  <2>1. call'[r] \in Onward(c, pc, c.found, c.list, {}, c.threw, c.sites) /\ UNCHANGED history
    BY <1>6 DEF Goes
  <2>2. Continues(c, call'[r]) /\ call'[r].sites = c.sites /\ call'[r].threw = c.threw
    BY <1>2, <1>1, <2>1, OnwardOK
  <2> QED
    BY <2>1, <2>2 DEF GoesOn, history
<1> QED
  BY <1>3, <1>4, <1>5, <1>6 DEF OneAnswered

LEMMA StepGoesOn ==
    ASSUME TypeInv, NEW r \in Requests, Step(r)
    PROVE  GoesOn(r)
<1> DEFINE c == call[r]
<1>1. Busy(r) /\ CallOK(c)
  BY OnServer DEF TypeInv
<1>2. c.op \in {"init", "assign", "verify", "reset", "rename", "delete"} /\ c.pc \in StepsOf(c.op)
  BY <1>1 DEF CallOK
<1>3. \A u : ToVerify(u) \subseteq OfUser(u) /\ Verified(u) \subseteq OfUser(u) /\ OfUser(u) \subseteq Serials
  BY DEF ToVerify, Verified, OfUser
<1>4. /\ c.found \in Serials \cup {Nobody} /\ c.list \in SUBSET Serials /\ c.todo \in SUBSET c.list
      /\ (c.op = "assign" => c.found \in Serials)
      /\ (c.pc \notin {"release", "reassign"} => c.todo = {})
  BY <1>1 DEF CallOK
<1>5. CASE CallFails(r)
  BY <1>5, <1>1, DoesCallFails, FailOn DEF CallFailsDoes
<1>6. CASE CheckUser(r)
  <2>1. c.pc = "exists" /\ CheckUserDoes(r)
    BY <1>6, DoesCheckUser
  <2>2. c.op = "rename" => "list" \in StepsOf(c.op)
    BY DEF StepsOf
  <2>3. c.op # "rename" => {"old", "add"} \subseteq StepsOf(c.op)
    BY <1>2, <2>1 DEF StepsOf
  <2>4. CASE Ends(r) \/ Fails(r, {})
    BY <1>1, <2>4, EndOn, FailOn
  <2>5. CASE c.op = "rename" /\ Stays(r, "list")
    BY <1>1, <2>1, <2>2, <2>5, StayOn
  <2>6. CASE c.op # "rename" /\ (Stays(r, "old") \/ Stays(r, "add"))
    BY <1>1, <2>1, <2>3, <2>6, StayOn
  <2> QED
    BY <2>1, <2>4, <2>5, <2>6 DEF CheckUserDoes
<1>7. CASE AddUser(r)
  <2>1. c.pc = "add" /\ AddUserDoes(r)
    BY <1>7, DoesAddUser
  <2>2. CASE Fails(r, {})
    BY <1>1, <2>2, FailOn
  <2>3. CASE c.op = "init" /\ Stays(r, "create")
    <3>1. "create" \in StepsOf(c.op)
      BY <2>3 DEF StepsOf
    <3> QED
      BY <1>1, <2>1, <2>3, <3>1, StayOn
  <2>4. CASE c.op = "assign" /\ Stays(r, "status")
    <3>1. "status" \in StepsOf(c.op)
      BY <2>4 DEF StepsOf
    <3> QED
      BY <1>1, <2>1, <2>4, <3>1, StayOn
  <2>5. CASE c.op = "rename" /\ Stays(r, "deluser")
    <3>1. "deluser" \in StepsOf(c.op)
      BY <2>5 DEF StepsOf
    <3> QED
      BY <1>1, <2>1, <2>5, <3>1, StayOn
  <2>6. CASE c.op = "rename" /\ Goes(r, "reassign", c.list, c.list)
    <3>1. "reassign" \in StepsOf(c.op)
      BY <2>6 DEF StepsOf
    <3>2. call'[r] \in Onward(c, "reassign", c.found, c.list, c.list, c.threw, c.sites) /\ UNCHANGED history
      BY <2>6 DEF Goes
    <3>3. c.threw \in BOOLEAN /\ c.list \subseteq c.sites /\ (c.found # Nobody => c.found \in c.sites)
      BY <1>1 DEF CallOK
    <3>4. Continues(c, call'[r]) /\ call'[r].sites = c.sites /\ call'[r].threw = c.threw
      BY <1>1, <1>4, <2>6, <3>1, <3>2, <3>3, OnwardOK
    <3> QED
      BY <3>2, <3>4 DEF GoesOn, history
  <2> QED
    BY <2>1, <2>2, <2>3, <2>4, <2>5, <2>6 DEF AddUserDoes
<1>8. CASE FindOld(r)
  <2>1. c.pc = "old" /\ FindOldDoes(r)
    BY <1>8, DoesFindOld
  <2>2. CASE c.op = "verify" /\ Ends(r)
    BY <2>2, EndOn
  <2>3. CASE c.op = "verify" /\ \E s \in ToVerify(c.user) : Learns(r, "confirm", s, c.list, c.todo, {s})
    <3>1. PICK s \in ToVerify(c.user) : Learns(r, "confirm", s, c.list, c.todo, {s})
      BY <2>3
    <3>2. "confirm" \in StepsOf(c.op)
      BY <2>3 DEF StepsOf
    <3>3. s \in Serials /\ {s} \in SUBSET OfUser(c.user)
      BY <1>3
    <3> QED
      BY <1>1, <1>4, <2>1, <2>3, <3>1, <3>2, <3>3, LearnOn
  <2>4. CASE c.op # "verify" /\ Stays(r, AfterOldStep(c.op))
    <3>1. AfterOldStep(c.op) \in StepsOf(c.op) /\ AfterOldStep(c.op) \notin {"confirm", "unassign"}
      BY <1>2, <2>1, <2>4 DEF StepsOf, AfterOldStep
    <3> QED
      BY <1>1, <2>1, <2>4, <3>1, StayOn
  <2>5. CASE c.op # "verify" /\ \E s \in ToVerify(c.user) : Learns(r, "drop", c.found, {s}, c.todo, {s})
    <3>1. PICK s \in ToVerify(c.user) : Learns(r, "drop", c.found, {s}, c.todo, {s})
      BY <2>5
    <3>2. "drop" \in StepsOf(c.op)
      BY <1>2, <2>1, <2>5 DEF StepsOf
    <3>3. {s} \in SUBSET Serials /\ {s} \in SUBSET OfUser(c.user) /\ c.todo = {} /\ c.todo \in SUBSET {s}
      BY <1>3, <1>4, <2>1
    <3> QED
      BY <1>1, <1>4, <2>1, <2>5, <3>1, <3>2, <3>3, LearnOn
  <2> QED
    BY <2>1, <2>2, <2>3, <2>4, <2>5 DEF FindOldDoes
<1>9. CASE Drop(r)
  <2>1. c.pc = "drop" /\ DropDoes(r)
    BY <1>9, DoesDrop
  <2>2. AfterOldStep(c.op) \in StepsOf(c.op) /\ AfterOldStep(c.op) \notin {"confirm", "unassign"}
    BY <1>2, <2>1 DEF StepsOf, AfterOldStep
  <2>3. Fails(r, {}) \/ Stays(r, AfterOldStep(c.op))
    BY <2>1 DEF DropDoes
  <2> QED
    BY <1>1, <2>1, <2>2, <2>3, StayOn, FailOn
<1>10. CASE InitToken(r)
  BY <1>1, <1>10, DoesInitToken, FailOn, EndOn DEF InitTokenDoes
<1>11. CASE Confirm(r)
  BY <1>1, <1>11, DoesConfirm, FailOn, EndOn DEF ConfirmDoes
<1>12. CASE CheckStatus(r)
  <2>1. c.pc = "status" /\ CheckDoes(r, "otp")
    BY <1>12, DoesCheckStatus
  <2>2. "otp" \in StepsOf(c.op)
    BY <1>2, <2>1 DEF StepsOf
  <2> QED
    BY <1>1, <2>1, <2>2, StayOn, EndOn DEF CheckDoes
<1>13. CASE CheckOtp(r)
  <2>1. c.pc = "otp" /\ CheckDoes(r, "assign")
    BY <1>13, DoesCheckOtp
  <2>2. "assign" \in StepsOf(c.op)
    BY <1>2, <2>1 DEF StepsOf
  <2> QED
    BY <1>1, <2>1, <2>2, StayOn, EndOn DEF CheckDoes
<1>14. CASE Assign(r)
  BY <1>1, <1>14, DoesAssign, FailOn, EndOn DEF AssignDoes
<1>15. CASE ListTokens(r)
  <2> DEFINE mine == OfUser(c.user)
  <2>1. c.pc = "list" /\ ListTokensDoes(r)
    BY <1>15, DoesListTokens
  <2>2. /\ c.op = "rename" => {"add", "release"} \subseteq StepsOf(c.op)
        /\ c.op # "rename" => {"deluser", "second"} \subseteq StepsOf(c.op)
    BY <1>2, <2>1 DEF StepsOf
  <2>3. c.op # "assign" /\ mine \in SUBSET Serials /\ mine \in SUBSET mine
    BY <1>3, <1>2, <2>1 DEF StepsOf
  <2> HIDE DEF mine
  <2>4. ASSUME NEW pc \in {"add", "deluser", "second"}, pc \in StepsOf(c.op),
               Learns(r, pc, c.found, c.list, c.todo, mine)
        PROVE  GoesOn(r)
    BY <1>1, <1>4, <2>1, <2>3, <2>4, LearnOn DEF mine
  <2>5. CASE c.op = "rename" /\ Learns(r, "release", c.found, mine, mine, mine)
    BY <1>1, <1>4, <2>1, <2>2, <2>3, <2>5, LearnOn DEF mine
  <2> QED
    BY <2>1, <2>2, <2>4, <2>5 DEF ListTokensDoes, mine
<1>16. CASE FindSecond(r)
  <2>1. c.pc = "second" /\ FindSecondDoes(r)
    BY <1>16, DoesFindSecond
  <2>2. CASE Ends(r)
    BY <2>2, EndOn
  <2>3. CASE \E s \in Verified(c.user) : Learns(r, "unassign", s, c.list, c.todo, {s})
    <3>1. PICK s \in Verified(c.user) : Learns(r, "unassign", s, c.list, c.todo, {s})
      BY <2>3
    <3>2. "unassign" \in StepsOf(c.op)
      BY <1>2, <2>1 DEF StepsOf
    <3>3. s \in Serials /\ {s} \in SUBSET OfUser(c.user)
      BY <1>3
    <3> QED
      BY <1>1, <1>4, <2>1, <3>1, <3>2, <3>3, LearnOn
  <2> QED
    BY <2>1, <2>2, <2>3 DEF FindSecondDoes
<1>17. CASE Unassign(r)
  <2>1. c.pc = "unassign" /\ UnassignDoes(r)
    BY <1>17, DoesUnassign
  <2>2. c.op = "delete" => "deluser" \in StepsOf(c.op)
    BY DEF StepsOf
  <2> QED
    BY <1>1, <2>1, <2>2, StayOn, EndOn, FailOn DEF UnassignDoes
<1>18. CASE Release(r)
  <2>1. c.pc = "release" /\ ReleaseDoes(r)
    BY <1>18, DoesRelease
  <2>2. "add" \in StepsOf(c.op)
    BY <1>2, <2>1 DEF StepsOf
  <2> QED
    BY <1>1, <2>1, <2>2, FailOn, OneAnsweredOn DEF ReleaseDoes
<1>19. CASE Reassign(r)
  <2>1. c.pc = "reassign" /\ ReassignDoes(r)
    BY <1>19, DoesReassign
  <2>2. "deluser" \in StepsOf(c.op)
    BY <1>2, <2>1 DEF StepsOf
  <2> QED
    BY <1>1, <2>1, <2>2, FailOn, OneAnsweredOn DEF ReassignDoes
<1>20. CASE DeleteUser(r)
  BY <1>1, <1>20, DoesDeleteUser, FailOn, EndOn DEF DeleteUserDoes
<1> QED
  BY <1>5, <1>6, <1>7, <1>8, <1>9, <1>10, <1>11, <1>12, <1>13, <1>14, <1>15, <1>16, <1>17, <1>18,
     <1>19, <1>20 DEF Step

-----------------------------------------------------------------------------
(* Types.                                                                  *)

LEMMA AboutSerials ==
    ASSUME TypeInv, NEW serials \in SUBSET Serials
    PROVE  \A s \in Serials : s \in About(serials) <=> s \in serials
<1>1. \A t \in Serials : holder[t] \in Persons \cup {Nobody} /\ tokens[t].user \in Usernames \cup {Nobody, Lost}
  BY DEF TypeInv, TypeOK, Absent, Removed
<1>2. \A s \in Serials : s \notin Persons \cup Usernames \cup {Nobody, Lost}
  BY TokenAssumption DEF Serials
<1> QED
  BY <1>1, <1>2 DEF About

LEMMA RacesWithin ==
    ASSUME NEW r, NEW sites, Races(r, sites)
    PROVE  /\ raced \subseteq raced'
           /\ \A x \in raced' : x \in raced \/ x \in sites \/ \E q \in Near(r, sites) : x \in call[q].sites
BY DEF Races

LEMMA InitTypeInv == Init => TypeInv
<1> SUFFICES ASSUME Init PROVE TypeInv
  OBVIOUS
<1>1. /\ alive \in SUBSET Persons /\ name \in [Persons -> Usernames \cup {Nobody}]
      /\ \A p \in Persons : name[p] = Nobody <=> p \notin alive
      /\ \A p, q \in alive : p # q => name[p] # name[q]
      /\ users \in SUBSET {name[p] : p \in alive}
      /\ tokens \in [Serials -> {Absent} \cup [state : {"verify", "ready"}, user : users]
                                \cup [state : {"ready"}, user : {Nobody}]]
      /\ call = [r \in Requests |-> Idle] /\ raced = {}
  BY DEF Init
<1>2. \A s \in Serials : tokens[s].user # Nobody => \E p \in alive : name[p] = tokens[s].user
  BY <1>1 DEF Absent
<1>3. \A s \in Serials : holder[s] = IF tokens[s].user = Nobody THEN Nobody
                                     ELSE CHOOSE p \in alive : name[p] = tokens[s].user
  BY DEF Init
<1>4. ASSUME NEW s \in Serials
      PROVE  holder[s] = Nobody \/ (holder[s] \in alive /\ tokens[s].user # Nobody)
  BY <1>2, <1>3, <1>4
<1>5. TypeOK
  <2>1. users \subseteq Usernames /\ alive \subseteq {p \in Persons : name[p] # Nobody}
    BY <1>1, TokenAssumption
  <2>2. \A s \in Serials :
          tokens[s] \in {Absent, Removed} \cup [state : {"verify", "ready"}, user : users \cup {Nobody, Lost}]
    BY <1>1
  <2>3. holder \in [Serials -> Persons \cup {Nobody}]
    <3>1. holder = [s \in Serials |-> holder[s]]
      BY DEF Init
    <3> QED
      BY <1>1, <1>4, <3>1
  <2> QED
    BY <1>1, <2>1, <2>2, <2>3 DEF TypeOK
<1>6. tokens = [s \in Serials |-> tokens[s]] /\ call = [r \in Requests |-> call[r]] /\ \A r \in Requests : ~Busy(r)
  BY <1>1 DEF Busy
<1>7. \A s \in Serials : holder[s] # Nobody => name[holder[s]] # Nobody
  BY <1>1, <1>4
<1>8. \A s \in Serials : tokens[s] = Absent =>
         holder[s] = Nobody /\ s \notin raced /\ \A r \in Requests : Busy(r) => s \notin call[r].sites
  BY <1>1, <1>4, <1>6 DEF Absent
<1> QED
  BY <1>5, <1>6, <1>7, <1>8 DEF TypeInv

LEMMA StepTypeInv ==
    ASSUME TypeInv, NEW r \in Requests, Step(r)
    PROVE  TypeInv'
<1> DEFINE c == call[r]
<1>1. Busy(r) /\ Others(r) /\ TokensDo(r) /\ UsersDo(r) /\ GoesOn(r) /\ CallOK(c)
  BY OnServer, StepGoesOn DEF TypeInv
<1>2. name' = name /\ alive' = alive
  BY <1>1 DEF Others, server
<1>3. TypeOK'
  <2>1. users' \subseteq Usernames
    BY <1>1 DEF UsersDo, TypeInv, TypeOK, CallOK
  <2>2. ASSUME NEW s \in Serials
        PROVE  tokens'[s] \in {Absent, Removed} \cup [state : {"verify", "ready"}, user : users' \cup {Nobody, Lost}]
    <3>1. tokens[s] \in {Absent, Removed} \cup [state : {"verify", "ready"}, user : users \cup {Nobody, Lost}]
      BY DEF TypeInv, TypeOK
    <3>2. Exists(s) => tokens[s].state \in {"verify", "ready"} /\ tokens[s].user \in users \cup {Nobody, Lost}
      BY <3>1 DEF Exists, Absent, Removed
    <3>3. CASE Same(s)
      <4>1. CASE users \subseteq users'
        BY <3>1, <3>3, <4>1 DEF Same
      <4>2. CASE users' = users \ {c.user} /\ \A t \in OfUser(c.user) : LostBy(r, t)
        <5>1. CASE s \in OfUser(c.user)
          <6>1. tokens'[s] = [state |-> tokens[s].state, user |-> Lost]
            BY <4>2, <5>1 DEF LostBy
          <6>2. Exists(s)
            BY <5>1 DEF OfUser
          <6> QED
            BY <3>2, <6>1, <6>2
        <5>2. CASE s \notin OfUser(c.user)
          <6>1. Exists(s) => tokens[s].user # c.user \/ c.user \notin users
            BY <5>2 DEF OfUser
          <6>2. tokens[s] \in [state : {"verify", "ready"}, user : users \cup {Nobody, Lost}] => Exists(s)
            BY DEF Exists
          <6>3. tokens[s] \in [state : {"verify", "ready"}, user : users \cup {Nobody, Lost}]
                => tokens[s] \in [state : {"verify", "ready"}, user : users' \cup {Nobody, Lost}]
            BY <4>2, <6>1, <6>2
          <6> QED
            BY <3>1, <3>3, <6>3 DEF Same
        <5> QED
          BY <5>1, <5>2
      <4> QED
        BY <1>1, <4>1, <4>2 DEF UsersDo
    <3>4. CASE Made(r, s)
      <4>1. users' = users \/ users' = users \cup {c.to}
        BY <1>1, <3>4 DEF Made, UsersDo
      <4> QED
        BY <3>4, <4>1 DEF Made
    <3>5. CASE LostBy(r, s)
      <4>1. Exists(s)
        BY <3>5 DEF LostBy, OfUser
      <4> QED
        BY <3>5, <3>2, <4>1 DEF LostBy
    <3>6. CASE Touched(r, s)
      <4>1. Exists(s) /\ c.pc # "deluser"
        BY <3>6 DEF Touched
      <4>2. users \subseteq users'
        BY <1>1, <4>1 DEF UsersDo
      <4> QED
        BY <3>6, <3>2, <4>1, <4>2 DEF Touched
    <3> QED
      BY <1>1, <3>3, <3>4, <3>5, <3>6 DEF TokensDo
  <2> QED
    BY <1>1, <1>2, <2>1, <2>2 DEF TypeOK, TypeInv, TokensDo
<1>4. tokens' = [s \in Serials |-> tokens'[s]] /\ call' = [q \in Requests |-> call'[q]]
  BY <1>1 DEF TokensDo, Others
<1>5. ASSUME NEW q \in Requests, call'[q] # Idle
      PROVE  CallOK(call'[q]) /\ name'[call'[q].person] # Nobody
  <2>1. CASE q = r
    BY <1>1, <1>2, <1>5, <2>1 DEF GoesOn, Continues, TypeInv
  <2>2. CASE q # r
    BY <1>1, <1>2, <1>5, <2>2 DEF Others, TypeInv, Busy
  <2> QED
    BY <2>1, <2>2
<1>6. ASSUME NEW s \in Serials, holder'[s] # Nobody
      PROVE  name'[holder'[s]] # Nobody
  <2>1. holder'[s] \in {holder[s], c.person, Nobody}
    BY <1>1 DEF TokensDo, Same, Made, LostBy, Touched
  <2> QED
    BY <1>1, <1>2, <1>6, <2>1 DEF TypeInv
<1>7. ASSUME NEW s \in Serials, tokens'[s] = Absent
      PROVE  /\ holder'[s] = Nobody /\ s \notin raced'
             /\ \A q \in Requests : call'[q] # Idle => s \notin call'[q].sites
  <2>1. Same(s) /\ tokens[s] = Absent
    <3>1. ~Made(r, s)
      BY <1>7 DEF Made, Absent
    <3>2. ~LostBy(r, s)
      BY <1>7, TokenAssumption DEF LostBy, Absent
    <3>3. ~Touched(r, s)
      BY <1>7 DEF Touched, Absent, Removed, Exists
    <3> QED
      BY <1>1, <1>7, <3>1, <3>2, <3>3 DEF TokensDo, Same
  <2>2. /\ holder[s] = Nobody /\ s \notin raced
        /\ \A q \in Requests : Busy(q) => s \notin call[q].sites
    BY <2>1 DEF TypeInv
  <2>3. call'[r] # Idle => s \notin call'[r].sites
    <3>1. ASSUME NEW serials \in SUBSET Serials, Finding(r, serials)
          PROVE  s \notin call'[r].sites
      <4>1. s \notin serials
        BY <2>1, <3>1 DEF Finding, OfUser, Exists, Absent
      <4>2. s \notin About(serials)
        BY <4>1, AboutSerials
      <4> QED
        BY <1>1, <2>2, <3>1, <4>2 DEF Finding
    <3> QED
      BY <1>1, <2>2, <3>1 DEF GoesOn
  <2>4. s \notin raced'
    <3>1. ASSUME NEW serials \in SUBSET Serials, Finding(r, serials)
          PROVE  s \notin raced'
      <4>1. Races(r, call'[r].sites) /\ call'[r] # Idle
        BY <3>1 DEF Finding
      <4> QED
        BY <2>2, <2>3, <4>1, RacesWithin DEF Near
    <3> QED
      BY <1>1, <2>2, <3>1 DEF GoesOn
  <2> QED
    BY <1>1, <2>1, <2>2, <2>3, <2>4 DEF Same, Others, Busy
<1> QED
  BY <1>3, <1>4, <1>5, <1>6, <1>7 DEF TypeInv, Busy

LEMMA AskTypeInv ==
    ASSUME TypeInv, NEW r \in Requests, AskDoes(r)
    PROVE  TypeInv'
<1> DEFINE d == call'[r]  p == d.person
<1>1. /\ ~Busy(r) /\ IsRequest(d) /\ call' = [q \in Requests |-> call'[q]]
      /\ \A q \in Requests : q # r => call'[q] = call[q]
      /\ d.op \in {"init", "assign", "verify", "reset", "rename", "delete"} /\ d.pc = FirstStep(d.op)
      /\ p \in alive /\ d.user = name[p] /\ d.to \in Usernames
      /\ d.to = d.user \/ (d.op = "rename" /\ FreeName(d.to))
      /\ (IF d.op = "assign" THEN d.found \in Serials /\ tokens[d.found] # Absent ELSE d.found = Nobody)
      /\ d.list = {} /\ d.todo = {} /\ d.threw = FALSE
      /\ d.sites = StartSites(p, d.to, d.found)
      /\ Races(r, d.sites)
      /\ name' = [name EXCEPT ![p] = d.to]
      /\ alive' = IF d.op = "delete" THEN alive \ {p} ELSE alive
      /\ UNCHANGED <<users, tokens, holder, failed>>
  BY DEF AskDoes, privacyidea
<1>2. /\ p \in Persons /\ name[p] \in Usernames /\ alive' \subseteq alive
      /\ name \in [Persons -> Usernames \cup {Nobody}]
  BY <1>1, TokenAssumption DEF TypeInv, TypeOK
<1>3. /\ name'[p] = d.to /\ name' \in [Persons -> Usernames \cup {Nobody}]
      /\ \A q \in Persons : q # p => name'[q] = name[q]
  BY <1>1, <1>2
<1>4. d.to # Nobody /\ \A q \in Persons : name[q] # Nobody => name'[q] # Nobody
  BY <1>1, <1>2, <1>3, TokenAssumption
<1>5. TypeOK'
  <2>1. alive' \subseteq {q \in Persons : name'[q] # Nobody}
    BY <1>2, <1>4 DEF TypeInv, TypeOK
  <2>2. ASSUME NEW q \in alive', NEW t \in alive', q # t PROVE name'[q] # name'[t]
    <3>1. q \in alive /\ t \in alive /\ q \in Persons /\ t \in Persons /\ name[q] # name[t]
      BY <1>2, <2>2 DEF TypeInv, TypeOK
    <3>2. CASE d.to = d.user
      BY <1>1, <1>3, <3>1, <3>2
    <3>3. CASE FreeName(d.to)
      BY <1>3, <2>2, <3>1, <3>3 DEF FreeName
    <3> QED
      BY <1>1, <3>2, <3>3
  <2> QED
    BY <1>1, <1>3, <2>1, <2>2 DEF TypeInv, TypeOK
<1>6. CallOK(d)
  <2>1. d.pc \in StepsOf(d.op) /\ d.pc \notin {"confirm", "unassign", "release", "reassign"}
    BY <1>1 DEF StepsOf, FirstStep
  <2>2. d.found \in Serials \cup {Nobody} /\ (d.op = "assign" => d.found \in Serials)
    BY <1>1
  <2>3. {p, d.user, d.to} \subseteq d.sites
    BY <1>1 DEF StartSites
  <2>4. d.found # Nobody => d.found \in d.sites
    BY <1>1, <2>2, TokenAssumption DEF StartSites, About, Serials
  <2> QED
    BY <1>1, <1>2, <2>1, <2>2, <2>3, <2>4 DEF CallOK, IsRequest
<1>7. ASSUME NEW s \in Serials, tokens[s] = Absent
      PROVE  s \notin d.sites /\ s \notin raced'
  <2> DEFINE mine == {t \in Serials : holder[t] = p \/ tokens[t].user = name[p]} \cup ({d.found} \ {Nobody})
  <2>1. mine \in SUBSET Serials
    BY <1>1
  <2>2. holder[s] = Nobody /\ tokens[s].user = Nobody /\ Nobody # p /\ Nobody # name[p]
    BY <1>2, <1>7, TokenAssumption DEF TypeInv, Absent
  <2>3. s \notin mine
    BY <1>1, <1>7, <2>2
  <2>4. s \notin About(mine)
    <3> HIDE DEF mine
    <3> QED
      BY <2>1, <2>3, AboutSerials
  <2>5. s \notin {p, name[p], d.to}
    BY <1>1, <1>2, TokenAssumption DEF Serials
  <2>6. s \notin d.sites
    BY <1>1, <2>4, <2>5 DEF StartSites
  <2>7. s \notin raced /\ \A q \in Requests : Busy(q) => s \notin call[q].sites
    BY <1>7 DEF TypeInv
  <2> QED
    BY <1>1, <2>6, <2>7, RacesWithin DEF Near
<1>8. ASSUME NEW q \in Requests, call'[q] # Idle
      PROVE  CallOK(call'[q]) /\ name'[call'[q].person] # Nobody
  <2>1. CASE q = r
    BY <1>3, <1>4, <1>6, <2>1
  <2>2. CASE q # r
    <3>1. CallOK(call[q]) /\ name[call[q].person] # Nobody /\ call'[q] = call[q]
      BY <1>1, <1>8, <2>2 DEF TypeInv, Busy
    <3> QED
      BY <1>4, <3>1 DEF CallOK
  <2> QED
    BY <2>1, <2>2
<1>9. \A s \in Serials : holder[s] # Nobody => name'[holder[s]] # Nobody
  BY <1>4 DEF TypeInv, TypeOK
<1>10. ASSUME NEW s \in Serials, tokens[s] = Absent
      PROVE  /\ holder[s] = Nobody /\ s \notin raced'
             /\ \A q \in Requests : call'[q] # Idle => s \notin call'[q].sites
  <2>1. s \notin d.sites /\ s \notin raced'
    BY <1>7, <1>10
  <2>2. ASSUME NEW q \in Requests, q # r, call'[q] # Idle PROVE s \notin call'[q].sites
    BY <1>1, <1>10, <2>2 DEF TypeInv, Busy
  <2> QED
    BY <1>10, <2>1, <2>2 DEF TypeInv
<1> HIDE DEF d, p
<1>11. tokens' = tokens /\ holder' = holder /\ call' = [q \in Requests |-> call'[q]]
       /\ tokens = [s \in Serials |-> tokens[s]]
  BY <1>1 DEF TypeInv
<1> QED
  BY <1>5, <1>8, <1>9, <1>10, <1>11 DEF TypeInv, Busy

LEMMA CreateTypeInv == ASSUME TypeInv, CreatePerson PROVE TypeInv'
<1>1. PICK p \in Persons \ alive, u \in Usernames :
        /\ name[p] = Nobody /\ FreeName(u)
        /\ name' = [name EXCEPT ![p] = u]
        /\ alive' = alive \cup {p}
        /\ UNCHANGED <<users, tokens, holder, call, raced>>
  BY DEF CreatePerson, privacyidea
<1>2. /\ name' \in [Persons -> Usernames \cup {Nobody}] /\ name'[p] = u /\ u # Nobody
      /\ \A q \in Persons : q # p => name'[q] = name[q]
  BY <1>1, TokenAssumption DEF TypeInv, TypeOK
<1>3. TypeOK'
  BY <1>1, <1>2 DEF TypeInv, TypeOK, FreeName
<1>4. \A q \in Persons : name[q] # Nobody => name'[q] # Nobody
  BY <1>1, <1>2
<1>5. \A r \in Requests : call'[r] # Idle => CallOK(call'[r]) /\ name'[call'[r].person] # Nobody
  BY <1>1, <1>4 DEF TypeInv, CallOK, Busy
<1>6. \A s \in Serials : holder'[s] # Nobody => name'[holder'[s]] # Nobody
  BY <1>1, <1>4 DEF TypeInv, TypeOK
<1> QED
  BY <1>1, <1>3, <1>5, <1>6 DEF TypeInv, Busy

LEMMA NextTypeInv == TypeInv /\ [Next]_vars => TypeInv'
<1> SUFFICES ASSUME TypeInv, [Next]_vars PROVE TypeInv'
  OBVIOUS
<1>1. ASSUME NEW r \in Requests, Ask(r) PROVE TypeInv'
  BY <1>1, DoesAsk, AskTypeInv
<1>2. ASSUME NEW r \in Requests, Step(r) PROVE TypeInv'
  BY <1>2, StepTypeInv
<1>3. CASE UNCHANGED vars
  BY <1>3 DEF vars, server, privacyidea, history, TypeInv, TypeOK, Busy, CallOK, StepsOf
<1> QED
  BY <1>1, <1>2, <1>3, CreateTypeInv DEF Next

\* Nothing in a request, a token or a user of PrivacyIDEA is about a person that was
\* not created yet or a token that was not made yet.
THEOREM TypeInvariant == Spec => []TypeInv
BY InitTypeInv, NextTypeInv, PTL DEF Spec

\* Usernames of the persons there are stay unique, and a token has a user that
\* PrivacyIDEA has, none, or one that deleteUser() took away.
THEOREM TypeCorrect == Spec => []TypeOK
<1>1. TypeInv => TypeOK
  BY DEF TypeInv
<1> QED
  BY <1>1, TypeInvariant, PTL

-----------------------------------------------------------------------------
(* Races: what grows.                                                      *)

Belongs(s, S) == holder[s] \in S \cup {Nobody} /\ tokens[s].user \in S \cup {Nobody, Lost}

LEMMA AboutCloses ==
    ASSUME TypeInv, NEW serials \in SUBSET Serials, NEW s \in serials
    PROVE  Belongs(s, About(serials))
<1>1. holder[s] \in Persons \cup {Nobody} /\ Lost \notin Persons
  BY TokenAssumption DEF TypeInv, TypeOK
<1> QED
  BY <1>1 DEF About, Belongs

LEMMA RaceGrows ==
    ASSUME TypeInv, SitesInv, NEW r \in Requests, NEW sites, NEW old \in SUBSET sites,
           Busy(r) => old = call[r].sites, ~Busy(r) => old = {},
           call'[r] # Idle, call'[r].sites = sites, Races(r, sites),
           \A q \in Requests : q # r => call'[q] = call[q],
           tokens' = tokens, holder' = holder,
           \A s \in sites \cap Serials : s \in old \/ Belongs(s, sites)
    PROVE  SitesInv'
<1> DEFINE near == Near(r, sites)
<1>1. raced \subseteq raced'
  BY RacesWithin
<1>2. \/ raced' = raced /\ near = {} /\ sites \cap raced = {}
      \/ raced' = raced \cup sites \cup UNION {call[q].sites : q \in near}
  BY DEF Races
<1>3. \A q \in near : q \in Requests /\ q # r /\ Busy(q)
  BY DEF Near
<1>4. ASSUME NEW q \in Requests, q # r, Busy(q), sites \cap call[q].sites # {}
      PROVE  call[q].sites \subseteq raced' /\ sites \subseteq raced'
  <2>1. q \in near
    BY <1>4 DEF Near
  <2> QED
    BY <1>2, <2>1
<1>5. ASSUME NEW q \in Requests, NEW t \in Requests, call'[q] # Idle, call'[t] # Idle, q # t,
             call'[q].sites \cap call'[t].sites # {}
      PROVE  call'[q].sites \subseteq raced'
  <2>1. CASE q = r
    BY <1>4, <1>5, <2>1 DEF Busy
  <2>2. CASE t = r
    BY <1>4, <1>5, <2>2 DEF Busy
  <2>3. CASE q # r /\ t # r
    BY <1>1, <1>5, <2>3 DEF SitesInv, Busy
  <2> QED
    BY <2>1, <2>2, <2>3
<1>6. sites \subseteq raced' \/ (sites \cap raced' = {} /\ raced' = raced)
  BY <1>2
<1>7. ASSUME NEW q \in Requests, q # r, Busy(q)
      PROVE  call[q].sites \subseteq raced' \/ call[q].sites \cap raced' = {}
  <2>1. CASE q \in near \/ call[q].sites \subseteq raced
    BY <1>1, <1>2, <2>1
  <2>2. CASE q \notin near /\ Clean(call[q])
    <3>1. call[q].sites \cap sites = {}
      BY <1>7, <2>2 DEF Near
    <3>2. ASSUME NEW t \in near PROVE call[q].sites \cap call[t].sites = {}
      <4>1. CASE call[q].sites \cap call[t].sites # {}
        <5>1. call[q].sites \subseteq raced
          BY <1>3, <1>7, <2>2, <3>2, <4>1 DEF SitesInv
        <5> QED
          BY <2>2, <4>1, <5>1 DEF Clean
      <4> QED
        BY <4>1
    <3> QED
      BY <1>2, <2>2, <3>1, <3>2 DEF Clean
  <2> QED
    BY <1>7, <2>1, <2>2 DEF SitesInv
<1>8. ASSUME NEW s \in raced \cap Serials PROVE Belongs(s, raced)
  BY <1>8 DEF SitesInv, Closed, Belongs
<1>9. ASSUME NEW q \in Requests, Busy(q), NEW s \in call[q].sites \cap Serials
      PROVE  Belongs(s, call[q].sites) \/ (s \in raced /\ call[q].sites \subseteq raced)
  BY <1>9 DEF SitesInv, Closed, Belongs
<1>10. ASSUME NEW s \in sites \cap Serials
       PROVE  Belongs(s, sites) \/ (s \in raced /\ Belongs(s, raced))
  <2>1. CASE s \in old
    <3>1. Busy(r) /\ s \in call[r].sites \cap Serials
      BY <1>10, <2>1
    <3>2. Belongs(s, old) \/ s \in raced
      BY <1>9, <3>1
    <3> QED
      BY <1>8, <1>10, <3>2 DEF Belongs
  <2>2. CASE Belongs(s, sites)
    BY <2>2
  <2> QED
    BY <2>1, <2>2
<1>11. ASSUME NEW s \in raced' \cap Serials
       PROVE  Belongs(s, raced')
  <2>1. CASE s \in raced
    BY <1>1, <1>8, <2>1 DEF Belongs
  <2>2. CASE s \in sites
    <3>1. sites \subseteq raced'
      BY <1>6, <1>11, <2>2
    <3> QED
      BY <1>1, <1>10, <2>2, <3>1 DEF Belongs
  <2>3. ASSUME NEW q \in near, s \in call[q].sites PROVE Belongs(s, raced')
    <3>1. call[q].sites \subseteq raced'
      BY <1>2, <2>3
    <3>2. Belongs(s, call[q].sites) \/ s \in raced
      BY <1>3, <1>9, <2>3
    <3> QED
      BY <2>1, <3>1, <3>2 DEF Belongs
  <2> QED
    BY <1>2, <1>11, <2>1, <2>2, <2>3
<1>12. ASSUME NEW q \in Requests, call'[q] # Idle, call'[q].sites \cap raced' = {},
              NEW s \in call'[q].sites \cap Serials
       PROVE  Belongs(s, call'[q].sites)
  <2>1. CASE q = r
    <3>1. s \notin raced
      BY <1>1, <1>12
    <3> QED
      BY <1>10, <1>12, <2>1, <3>1
  <2>2. CASE q # r
    <3>1. Busy(q) /\ call'[q] = call[q] /\ s \notin raced
      BY <1>1, <1>12, <2>2 DEF Busy
    <3> QED
      BY <1>9, <1>12, <3>1
  <2> QED
    BY <2>1, <2>2
<1>13. \A q \in Requests : call'[q] # Idle =>
         call'[q].sites \cap raced' = {} \/ call'[q].sites \subseteq raced'
  BY <1>6, <1>7 DEF Busy
<1>14. \A q \in Requests : call'[q] # Idle /\ call'[q].sites \cap raced' = {} =>
         \A s \in call'[q].sites \cap Serials :
            holder'[s] \in call'[q].sites \cup {Nobody} /\ tokens'[s].user \in call'[q].sites \cup {Nobody, Lost}
  BY <1>12 DEF Belongs
<1>15. \A s \in raced' \cap Serials :
            holder'[s] \in raced' \cup {Nobody} /\ tokens'[s].user \in raced' \cup {Nobody, Lost}
  BY <1>11 DEF Belongs
<1> HIDE DEF near
<1> QED
  BY <1>5, <1>13, <1>14, <1>15 DEF SitesInv, Closed, Clean, Busy

LEMMA StepSites ==
    ASSUME TypeInv, SitesInv, NEW r \in Requests, Step(r)
    PROVE  SitesInv'
<1> DEFINE c == call[r]
<1>1. Busy(r) /\ Others(r) /\ TokensDo(r) /\ UsersDo(r) /\ GoesOn(r) /\ CallOK(c)
  BY OnServer, StepGoesOn DEF TypeInv
<1>2. \A q \in Requests : q # r => call'[q] = call[q]
  BY <1>1 DEF Others
<1>3. CASE \E serials \in SUBSET Serials : Finding(r, serials)
  <2>1. PICK serials \in SUBSET Serials : Finding(r, serials)
    BY <1>3
  <2> DEFINE sites == call'[r].sites
  <2>2. /\ call'[r] # Idle /\ tokens' = tokens /\ holder' = holder
        /\ sites = c.sites \cup About(serials) /\ Races(r, sites)
    BY <2>1 DEF Finding, privacyidea
  <2>3. \A s \in sites \cap Serials : s \in c.sites \/ Belongs(s, sites)
    <3> SUFFICES ASSUME NEW s \in sites \cap Serials, s \notin c.sites PROVE Belongs(s, sites)
      OBVIOUS
    <3>1. s \in serials
      BY <2>2, AboutSerials
    <3>2. Belongs(s, About(serials))
      BY <3>1, AboutCloses
    <3> QED
      BY <2>2, <3>2 DEF Belongs
  <2>4. c.sites \in SUBSET sites
    BY <2>2
  <2> HIDE DEF sites
  <2>5. call'[r].sites = sites
    BY DEF sites
  <2> QED
    BY <1>1, <1>2, <2>2, <2>3, <2>4, <2>5, RaceGrows
<1>4. CASE raced' = raced /\ (call'[r] = Idle \/ call'[r].sites = c.sites)
  <2>1. \A q \in Requests : call'[q] # Idle => Busy(q) /\ call'[q].sites = call[q].sites
    BY <1>1, <1>2, <1>4 DEF Busy
  <2>2. ASSUME NEW s \in Serials, NEW S, \/ S = raced
                                         \/ \E q \in Requests : Busy(q) /\ Clean(call[q]) /\ S = call[q].sites,
               s \in S
        PROVE  holder'[s] \in S \cup {Nobody} /\ tokens'[s].user \in S \cup {Nobody, Lost}
    <3>1. holder[s] \in S \cup {Nobody} /\ tokens[s].user \in S \cup {Nobody, Lost}
      BY <2>2 DEF SitesInv, Closed
    <3>2. ~Made(r, s)
      BY <2>2 DEF Made, TypeInv
    <3>3. CASE Touched(r, s)
      <4>1. {c.person, c.user, c.to} \subseteq S
        <5>1. s \in c.sites /\ {c.person, c.user, c.to} \subseteq c.sites
          BY <1>1, <3>3 DEF Touched, CallOK
        <5>2. CASE S = raced
          BY <1>1, <2>2, <5>1, <5>2 DEF SitesInv, Clean
        <5>3. CASE \E q \in Requests : Busy(q) /\ Clean(call[q]) /\ S = call[q].sites
          <6>1. PICK q \in Requests : Busy(q) /\ Clean(call[q]) /\ S = call[q].sites
            BY <5>3
          <6>2. CASE q # r
            <7>1. call[q].sites \subseteq raced
              BY <1>1, <2>2, <5>1, <6>1, <6>2 DEF SitesInv
            <7> QED
              BY <2>2, <6>1, <7>1 DEF Clean
          <6> QED
            BY <5>1, <6>1, <6>2
        <5> QED
          BY <2>2, <5>2, <5>3
      <4>2. holder'[s] \in {holder[s], c.person, Nobody} /\ tokens'[s].user \in {tokens[s].user, c.user, c.to, Nobody}
        BY <3>3 DEF Touched, Removed
      <4> QED
        BY <3>1, <4>1, <4>2
    <3>4. CASE LostBy(r, s)
      BY <3>1, <3>4 DEF LostBy
    <3>5. CASE Same(s)
      BY <3>1, <3>5 DEF Same
    <3> QED
      BY <1>1, <3>2, <3>3, <3>4, <3>5 DEF TokensDo
  <2>3. \A s \in Serials : s \in raced => holder'[s] \in raced \cup {Nobody} /\ tokens'[s].user \in raced \cup {Nobody, Lost}
    BY <2>2
  <2>4. \A q \in Requests : Busy(q) /\ Clean(call[q]) =>
          \A s \in Serials : s \in call[q].sites =>
             holder'[s] \in call[q].sites \cup {Nobody} /\ tokens'[s].user \in call[q].sites \cup {Nobody, Lost}
    BY <2>2
  <2> QED
    BY <1>4, <2>1, <2>3, <2>4 DEF SitesInv, Closed, Clean, Busy
<1> QED
  BY <1>1, <1>3, <1>4 DEF GoesOn

LEMMA AskSites ==
    ASSUME TypeInv, SitesInv, NEW r \in Requests, AskDoes(r)
    PROVE  SitesInv'
<1> DEFINE d == call'[r]  p == d.person  sites == d.sites
           mine == {s \in Serials : holder[s] = p \/ tokens[s].user = name[p]} \cup ({d.found} \ {Nobody})
<1>1. /\ ~Busy(r) /\ d # Idle /\ sites = {p, name[p], d.to} \cup About(mine) /\ Races(r, sites)
      /\ \A q \in Requests : q # r => call'[q] = call[q]
      /\ tokens' = tokens /\ holder' = holder
      /\ p \in Persons /\ name[p] \in Usernames /\ d.to \in Usernames /\ mine \in SUBSET Serials
  <2>1. ~Busy(r) /\ sites = {p, name[p], d.to} \cup About(mine) /\ Races(r, sites)
    BY DEF AskDoes, StartSites
  <2>2. d # Idle
    BY DEF AskDoes, IsRequest, Idle
  <2>3. p \in alive /\ d.to \in Usernames /\ d.found \in Serials \cup {Nobody} /\ UNCHANGED privacyidea
        /\ (\A q \in Requests : q # r => call'[q] = call[q])
    BY DEF AskDoes
  <2>4. p \in Persons /\ name[p] \in Usernames
    BY <2>3 DEF TypeInv, TypeOK
  <2> QED
    BY <2>1, <2>2, <2>3, <2>4 DEF privacyidea
<1>2. \A s \in sites \cap Serials : Belongs(s, sites)
  <2> SUFFICES ASSUME NEW s \in sites \cap Serials PROVE Belongs(s, sites)
    OBVIOUS
  <2>1. s \in About(mine)
    BY <1>1, TokenAssumption DEF Serials
  <2>2. s \in mine
    <3> HIDE DEF mine
    <3> QED
      BY <1>1, <2>1, AboutSerials
  <2>3. Belongs(s, About(mine))
    <3> HIDE DEF mine
    <3> QED
      BY <1>1, <2>2, AboutCloses
  <2> QED
    BY <1>1, <2>3 DEF Belongs
<1>3. {} \in SUBSET sites /\ call'[r] # Idle /\ call'[r].sites = sites
  BY <1>1
<1> HIDE DEF sites, mine, d
<1> QED
  BY <1>1, <1>2, <1>3, RaceGrows DEF d

LEMMA NextSites == TypeInv /\ SitesInv /\ [Next]_vars => SitesInv'
<1> SUFFICES ASSUME TypeInv, SitesInv, [Next]_vars PROVE SitesInv'
  OBVIOUS
<1>1. ASSUME NEW r \in Requests, Ask(r) PROVE SitesInv'
  BY <1>1, DoesAsk, AskSites
<1>2. ASSUME NEW r \in Requests, Step(r) PROVE SitesInv'
  BY <1>2, StepSites
<1>3. CASE UNCHANGED vars
  BY <1>3 DEF vars, server, privacyidea, history, SitesInv, Closed, Clean, Busy
<1>4. CASE CreatePerson
  BY <1>4 DEF CreatePerson, privacyidea, SitesInv, Closed, Clean, Busy
<1> QED
  BY <1>1, <1>2, <1>3, <1>4 DEF Next

\* Requests that have not raced have nothing in common: neither a person nor a
\* username nor a token.
THEOREM SitesInvariant == Spec => [](TypeInv /\ SitesInv)
<1>1. Init => SitesInv
  BY DEF Init, SitesInv, Closed, Busy
<1> QED
  BY <1>1, InitTypeInv, NextTypeInv, NextSites, PTL DEF Spec

-----------------------------------------------------------------------------
(* What a step leaves alone.                                               *)

LEMMA UserHasOf == \A u : OfUser(u) = UserHas(u, users, tokens) /\ ToVerify(u) = ToCheck(u, users, tokens)
BY DEF OfUser, ToVerify, UserHas, ToCheck, Exists

LEMMA Elsewhere ==
    ASSUME TypeInv, SitesInv, NEW r \in Requests, Step(r),
           NEW u \in Usernames, u \notin call[r].sites, u \notin raced
    PROVE  /\ u \in users' <=> u \in users
           /\ UserHas(u, users', tokens') = UserHas(u, users, tokens)
           /\ ToCheck(u, users', tokens') = ToCheck(u, users, tokens)
           /\ \A s \in Serials : tokens[s].user = u => Same(s)
<1> DEFINE c == call[r]
<1>1. Busy(r) /\ TokensDo(r) /\ UsersDo(r) /\ CallOK(c) /\ {c.user, c.to} \subseteq c.sites
  BY OnServer DEF TypeInv, CallOK
<1>2. u \notin {c.user, c.to, Nobody, Lost}
  BY <1>1, TokenAssumption
<1>3. u \in users' <=> u \in users
  BY <1>1, <1>2 DEF UsersDo
<1>4. ASSUME NEW s \in Serials
      PROVE  /\ tokens[s].user = u => Same(s)
             /\ tokens'[s].user = u => tokens[s].user = u
  <2>1. CASE Same(s)
    BY <2>1 DEF Same
  <2>2. CASE Made(r, s)
    BY <1>2, <2>2 DEF Made, Absent
  <2>3. CASE LostBy(r, s)
    BY <1>2, <2>3 DEF LostBy, OfUser
  <2>4. CASE Touched(r, s)
    <3>1. s \in c.sites
      BY <2>4 DEF Touched
    <3>2. tokens[s].user # u
      BY <1>1, <1>2, <3>1 DEF SitesInv, Closed, Clean
    <3>3. tokens'[s].user \in {tokens[s].user, c.user, c.to, Nobody}
      BY <2>4 DEF Touched, Removed
    <3> QED
      BY <1>2, <3>2, <3>3
  <2> QED
    BY <1>1, <2>1, <2>2, <2>3, <2>4 DEF TokensDo
<1>5. UserHas(u, users', tokens') = UserHas(u, users, tokens)
  BY <1>3, <1>4 DEF UserHas, Same
<1>6. ToCheck(u, users', tokens') = ToCheck(u, users, tokens)
  BY <1>4, <1>5 DEF ToCheck, UserHas, Same
<1> QED
  BY <1>3, <1>4, <1>5, <1>6

LEMMA Apart ==
    ASSUME TypeInv, SitesInv, NEW q \in Requests, NEW r \in Requests, q # r, Busy(q), Busy(r), Clean(call[q])
    PROVE  call[q].sites \cap call[r].sites = {}
BY DEF SitesInv, Clean

\* What a request that has not raced depends on is not changed by others.
LEMMA Untouched ==
    ASSUME TypeInv, SitesInv, NEW r \in Requests, Step(r),
           NEW q \in Requests, q # r, Busy(q), Clean(call[q])
    PROVE  /\ \A s \in Serials \cap call[q].sites : Same(s)
           /\ \A u \in {call[q].user, call[q].to} :
                /\ u \in users' <=> u \in users
                /\ UserHas(u, users', tokens') = UserHas(u, users, tokens)
                /\ ToCheck(u, users', tokens') = ToCheck(u, users, tokens)
<1> DEFINE c == call[r]  e == call[q]
<1>1. Busy(r) /\ TokensDo(r) /\ CallOK(c) /\ CallOK(e)
  BY OnServer DEF TypeInv
<1>2. e.sites \cap c.sites = {}
  BY <1>1, Apart
<1>3. ASSUME NEW s \in Serials \cap e.sites PROVE Same(s)
  <2>1. ~Made(r, s)
    BY <1>3 DEF Made, TypeInv
  <2>2. ~Touched(r, s)
    BY <1>2, <1>3 DEF Touched
  <2>3. ~LostBy(r, s)
    <3>1. tokens[s].user \in e.sites \cup {Nobody, Lost}
      BY <1>3 DEF SitesInv, Closed
    <3>2. c.user \in c.sites /\ c.user \notin {Nobody, Lost}
      BY <1>1, TokenAssumption DEF CallOK
    <3> QED
      BY <1>2, <3>1, <3>2 DEF LostBy, OfUser
  <2> QED
    BY <1>1, <1>3, <2>1, <2>2, <2>3 DEF TokensDo
<1>4. \A u \in {e.user, e.to} : u \in Usernames /\ u \notin c.sites /\ u \notin raced
  BY <1>1, <1>2 DEF CallOK, Clean
<1> QED
  BY <1>3, <1>4, Elsewhere

-----------------------------------------------------------------------------
(* What a request that has not raced knows, stays true.                    *)

LEMMA OthersKnow ==
    ASSUME TypeInv, SitesInv, KnowsInv, NEW r \in Requests, Step(r),
           NEW q \in Requests, q # r, Busy(q), Clean(call[q])
    PROVE  KnowsTokens(call[q], users', tokens') /\ KnowsVerify(call[q], users', tokens')
<1> DEFINE e == call[q]
<1>1. CallOK(e) /\ KnowsTokens(e, users, tokens) /\ KnowsVerify(e, users, tokens)
  BY DEF TypeInv, KnowsInv, Knows
<1>2. \A s \in Serials \cap e.sites : tokens'[s] = tokens[s]
  BY Untouched DEF Same
<1>3. /\ e.list \subseteq Serials \cap e.sites /\ e.todo \subseteq e.list
      /\ (e.found # Nobody => e.found \in Serials \cap e.sites)
      /\ (e.op = "assign" \/ e.pc = "confirm" => e.found \in Serials \cap e.sites)
  BY <1>1, TokenAssumption DEF CallOK, Serials
<1>4. \A u \in {e.user, e.to} :
        /\ u \in users' <=> u \in users
        /\ UserHas(u, users', tokens') = UserHas(u, users, tokens)
        /\ ToCheck(u, users', tokens') = ToCheck(u, users, tokens)
  BY Untouched
<1>5. e.pc \in {"otp", "assign"} => e.op = "assign"
  BY <1>1 DEF CallOK, StepsOf
<1> HIDE DEF e
<1>6. KnowsTokens(e, users', tokens')
  BY <1>1, <1>2, <1>3, <1>4, <1>5 DEF KnowsTokens
<1>7. KnowsVerify(e, users', tokens')
  BY <1>1, <1>2, <1>3, <1>4 DEF KnowsVerify
<1> QED
  BY <1>6, <1>7 DEF e

LEMMA NewUser ==
    ASSUME TypeInv, NEW u \in Usernames, u \notin users, NEW us
    PROVE  UserHas(u, us, tokens) = {} /\ ToCheck(u, us, tokens) = {}
<1>1. \A s \in Serials : tokens[s].user # u
  BY TokenAssumption DEF TypeInv, TypeOK, Absent, Removed
<1> QED
  BY <1>1 DEF UserHas, ToCheck

LEMMA NoCheck ==
    ASSUME OneToVerify, NEW u, u \notin raced
    PROVE  \A s, t \in ToCheck(u, users, tokens) : s = t
BY UserHasOf DEF OneToVerify, ToCheck, UserHas

OwnKnows(d) == KnowsTokens(d, users', tokens') /\ KnowsVerify(d, users', tokens')

\* A step that keeps the list does not give it a second token to verify.
LEMMA ListKnows ==
    ASSUME TypeInv, NEW r \in Requests, Busy(r), TokensDo(r), KnowsVerify(call[r], users, tokens)
    PROVE  call[r].op = "rename" =>
             \A s, t \in call[r].list : tokens'[s].state = "verify" /\ tokens'[t].state = "verify" => s = t
<1> DEFINE c == call[r]
<1>1. ASSUME NEW s \in c.list, tokens'[s].state = "verify"
      PROVE  tokens[s].state = "verify"
  <2>1. s \in Serials /\ tokens[s] # Absent
    BY DEF TypeInv, CallOK
  <2>2. Same(s) \/ LostBy(r, s) \/ Touched(r, s)
    BY <2>1 DEF TokensDo, Made
  <2> QED
    BY <1>1, <2>2 DEF Same, LostBy, Touched, Removed
<1> QED
  BY <1>1 DEF KnowsVerify

LEMMA StepKnows ==
    ASSUME TypeInv, SitesInv, KnowsInv, NEW r \in Requests, Step(r), Clean(call[r]), call'[r] # Idle
    PROVE  OwnKnows(call'[r])
<1> DEFINE c == call[r]  d == call'[r]
<1>1. /\ Busy(r) /\ TokensDo(r) /\ UsersDo(r) /\ CallOK(c)
      /\ KnowsTokens(c, users, tokens) /\ KnowsVerify(c, users, tokens)
  BY OnServer DEF TypeInv, KnowsInv, Knows
<1>2. c.op = "rename" =>
        \A s, t \in c.list : tokens'[s].state = "verify" /\ tokens'[t].state = "verify" => s = t
  BY <1>1, ListKnows
<1>3. /\ c.op \in {"init", "assign", "verify", "reset", "rename", "delete"} /\ c.pc \in StepsOf(c.op)
      /\ c.list \in SUBSET Serials /\ c.todo \in SUBSET c.list /\ {c.user, c.to} \subseteq Usernames
      /\ (c.pc \notin {"release", "reassign"} => c.todo = {})
      /\ (c.op # "rename" => c.to = c.user)
  BY <1>1 DEF CallOK
<1>4. c.user \notin raced /\ c.to \notin raced
  BY <1>1 DEF CallOK, Clean
<1>5. c.pc \notin {"release", "reassign"} => \A done : ~Fails(r, done)
  BY <1>3 DEF Fails
<1>6. ~Ends(r)
  BY DEF Ends
<1>7. ASSUME NEW pc, pc # "idle", Stays(r, pc)
      PROVE  /\ d.pc = pc /\ d.op = c.op /\ d.person = c.person /\ d.user = c.user /\ d.to = c.to
             /\ d.found = c.found /\ d.list = c.list /\ d.todo = c.todo /\ d.threw = c.threw
  BY <1>7, OnwardFields DEF Stays, Goes
<1>8. ASSUME NEW pc, pc # "idle", NEW found, NEW list, NEW todo, NEW serials,
             Learns(r, pc, found, list, todo, serials)
      PROVE  /\ d.pc = pc /\ d.op = c.op /\ d.person = c.person /\ d.user = c.user /\ d.to = c.to
             /\ d.found = found /\ d.list = list /\ d.todo = todo /\ d.threw = c.threw
             /\ users' = users /\ tokens' = tokens
  BY <1>8, OnwardFields DEF Learns, privacyidea
<1>9. ASSUME NEW pc, pc # "idle", NEW todo, Goes(r, pc, c.list, todo)
      PROVE  /\ d.pc = pc /\ d.op = c.op /\ d.person = c.person /\ d.user = c.user /\ d.to = c.to
             /\ d.found = c.found /\ d.list = c.list /\ d.todo = todo /\ d.threw = c.threw
  BY <1>9, OnwardFields DEF Goes
<1>10. ASSUME NEW s, c.pc \in {"release", "reassign"}, Fails(r, {s})
       PROVE  /\ d.pc = c.pc /\ d.op = c.op /\ d.person = c.person /\ d.user = c.user /\ d.to = c.to
              /\ d.found = c.found /\ d.list = c.list /\ d.todo = c.todo \ {s} /\ d.threw
  <2>1. c.pc # "idle"
    BY <1>10
  <2> DEFINE left == c.todo \ {s}  threw == TRUE
  <2>2. d \in Onward(c, c.pc, c.found, c.list, left, threw, c.sites)
    BY <1>10 DEF Fails
  <2> HIDE DEF left, threw
  <2>3. /\ d.pc = c.pc /\ d.op = c.op /\ d.person = c.person /\ d.user = c.user /\ d.to = c.to
        /\ d.found = c.found /\ d.list = c.list /\ d.todo = left /\ d.threw = threw
    BY <2>1, <2>2, OnwardFields
  <2> QED
    BY <2>3 DEF left, threw
<1> DEFINE quiet == users' = users /\ tokens' = tokens
<1>11. CASE CheckUser(r)
  <2>1. c.pc = "exists" /\ CheckUserDoes(r) /\ quiet /\ c.list = {}
    BY <1>1, <1>11, DoesCheckUser DEF CheckUserDoes, privacyidea, KnowsTokens
  <2>2. CASE c.op = "rename" /\ c.to \notin users /\ Stays(r, "list")
    <3>1. d.pc = "list" /\ d.list = {} /\ d.to \notin users'
      BY <1>7, <2>1, <2>2
    <3> QED
      BY <3>1 DEF OwnKnows, KnowsTokens, KnowsVerify
  <2>3. CASE c.op # "rename" /\ Stays(r, "old")
    <3>1. d.pc = "old" /\ d.list = {}
      BY <1>7, <2>1, <2>3
    <3> QED
      BY <3>1 DEF OwnKnows, KnowsTokens, KnowsVerify
  <2>4. CASE c.op # "rename" /\ c.user \notin users /\ Stays(r, "add")
    <3>1. d.pc = "add" /\ d.list = {} /\ d.to \notin users'
      BY <1>3, <1>7, <2>1, <2>4
    <3> QED
      BY <3>1 DEF OwnKnows, KnowsTokens, KnowsVerify
  <2> QED
    BY <1>5, <1>6, <2>1, <2>2, <2>3, <2>4 DEF CheckUserDoes
<1>12. CASE AddUser(r)
  <2>1. c.pc = "add" /\ AddUserDoes(r) /\ tokens' = tokens /\ \A done : ~Fails(r, done)
    BY <1>12, <1>5, DoesAddUser DEF AddUserDoes
  <2>2. c.op # "delete"
    BY <1>3, <2>1 DEF StepsOf
  <2>3. c.to \notin users
    BY <1>1, <2>1, <2>2 DEF KnowsVerify
  <2>4. ToCheck(c.to, users', tokens') = {}
    BY <1>3, <2>1, <2>3, NewUser
  <2>5. CASE c.op = "init" /\ Stays(r, "create")
    <3>1. d.pc = "create" /\ d.op = "init" /\ d.user = c.to
      BY <1>3, <1>7, <2>5
    <3> QED
      BY <2>4, <3>1 DEF OwnKnows, KnowsTokens, KnowsVerify
  <2>6. CASE c.op = "assign" /\ Stays(r, "status")
    <3>1. d.pc = "status" /\ d.op = "assign" /\ d.user = c.to
      BY <1>3, <1>7, <2>6
    <3> QED
      BY <2>4, <3>1 DEF OwnKnows, KnowsTokens, KnowsVerify
  <2>7. CASE c.op = "rename" /\ c.list = {} /\ Stays(r, "deluser")
    <3>1. d.pc = "deluser" /\ d.list = {}
      BY <1>7, <2>7
    <3> QED
      BY <3>1 DEF OwnKnows, KnowsTokens, KnowsVerify
  <2>8. CASE c.op = "rename" /\ Goes(r, "reassign", c.list, c.list)
    <3>1. d.pc = "reassign" /\ d.op = "rename" /\ d.list = c.list /\ d.todo = c.list /\ d.to = c.to
      BY <1>9, <2>8
    <3>2. \A s \in c.list : tokens'[s].user = Nobody
      BY <1>1, <2>1 DEF KnowsTokens
    <3> QED
      BY <1>2, <2>4, <2>8, <3>1, <3>2 DEF OwnKnows, KnowsTokens, KnowsVerify
  <2> QED
    BY <2>1, <2>5, <2>6, <2>7, <2>8 DEF AddUserDoes
<1>13. CASE FindOld(r)
  <2>1. c.pc = "old" /\ FindOldDoes(r)
    BY <1>13, DoesFindOld
  <2>2. c.op \in {"init", "assign", "verify"} /\ ToVerify(c.user) = ToCheck(c.user, users, tokens)
    BY <1>3, <2>1, UserHasOf DEF StepsOf
  <2>3. CASE c.op = "verify" /\ \E s \in ToVerify(c.user) : Learns(r, "confirm", s, c.list, c.todo, {s})
    <3>1. PICK s \in ToVerify(c.user) : Learns(r, "confirm", s, c.list, c.todo, {s})
      BY <2>3
    <3>2. d.pc = "confirm" /\ d.op = c.op /\ d.found = s /\ d.user = c.user /\ quiet
      BY <1>8, <3>1
    <3>3. tokens[s].user = c.user
      BY <2>2 DEF ToCheck, UserHas
    <3> QED
      BY <2>3, <3>2, <3>3 DEF OwnKnows, KnowsTokens, KnowsVerify
  <2>4. CASE /\ c.op # "verify" /\ ToVerify(c.user) = {} /\ UNCHANGED privacyidea
             /\ Stays(r, AfterOldStep(c.op))
    <3>1. AfterOldStep(c.op) \in {"create", "status"}
      BY DEF AfterOldStep
    <3>2. d.pc \in {"create", "status"} /\ d.op # "rename" /\ d.user = c.user
      BY <1>7, <2>2, <2>4, <3>1
    <3> QED
      BY <2>2, <2>4, <3>2 DEF OwnKnows, KnowsTokens, KnowsVerify, privacyidea
  <2>5. CASE c.op # "verify" /\ \E s \in ToVerify(c.user) : Learns(r, "drop", c.found, {s}, c.todo, {s})
    <3>1. PICK s \in ToVerify(c.user) : Learns(r, "drop", c.found, {s}, c.todo, {s})
      BY <2>5
    <3>2. d.pc = "drop" /\ d.op = c.op /\ d.user = c.user /\ d.list = {s} /\ quiet
      BY <1>8, <3>1
    <3>3. \A t \in ToCheck(c.user, users, tokens) : t = s
      BY <1>1, <1>4, <2>2, NoCheck DEF KnowsInv
    <3>4. tokens[s].state = "verify" /\ tokens[s].user = c.user
      BY <2>2 DEF ToCheck, UserHas
    <3> QED
      BY <2>2, <3>2, <3>3, <3>4 DEF OwnKnows, KnowsTokens, KnowsVerify
  <2> QED
    BY <1>6, <2>1, <2>3, <2>4, <2>5 DEF FindOldDoes
<1>14. CASE Drop(r)
  <2>1. c.pc = "drop" /\ DropDoes(r)
    BY <1>14, DoesDrop
  <2>2. c.op \in {"init", "assign"}
    BY <1>3, <2>1 DEF StepsOf
  <2>3. PICK s \in c.list : Changes(s, "removed", Nobody, Nobody) /\ Stays(r, AfterOldStep(c.op))
    BY <1>5, <2>1 DEF DropDoes
  <2>4. AfterOldStep(c.op) \in {"create", "status"}
    BY DEF AfterOldStep
  <2>5. d.pc \in {"create", "status"} /\ d.op = c.op /\ d.user = c.user
    BY <1>7, <2>3, <2>4
  <2>6. tokens'[s].state = "removed" /\ users' = users /\ \A t \in Serials : t # s => tokens'[t] = tokens[t]
    BY <2>3 DEF Changes
  <2>7. ASSUME NEW t \in ToCheck(c.user, users', tokens') PROVE FALSE
    <3>1. t # s /\ t \in ToCheck(c.user, users, tokens)
      BY <2>6 DEF ToCheck, UserHas
    <3>2. s \in ToCheck(c.user, users, tokens)
      BY <1>1, <1>3, <2>1, <3>1 DEF KnowsTokens, ToCheck, UserHas
    <3> QED
      BY <1>4, <3>1, <3>2, NoCheck DEF KnowsInv
  <2> QED
    BY <2>2, <2>5, <2>7 DEF OwnKnows, KnowsTokens, KnowsVerify
<1>15. CASE InitToken(r)
  BY <1>15, <1>5, <1>6, DoesInitToken DEF InitTokenDoes
<1>16. CASE Confirm(r)
  BY <1>16, <1>5, <1>6, DoesConfirm DEF ConfirmDoes
<1>17. CASE CheckStatus(r)
  <2>1. c.pc = "status" /\ tokens[c.found].user = Nobody /\ Stays(r, "otp") /\ quiet
    BY <1>17, <1>6, DoesCheckStatus DEF CheckDoes, privacyidea
  <2>2. c.op = "assign"
    BY <1>3, <2>1 DEF StepsOf
  <2>3. d.pc = "otp" /\ d.op = "assign" /\ d.user = c.user /\ d.found = c.found
    BY <1>7, <2>1, <2>2
  <2> QED
    BY <1>1, <2>1, <2>3 DEF OwnKnows, KnowsTokens, KnowsVerify
<1>18. CASE CheckOtp(r)
  <2>1. c.pc = "otp" /\ tokens[c.found].user = Nobody /\ Stays(r, "assign") /\ quiet
    BY <1>18, <1>6, DoesCheckOtp DEF CheckDoes, privacyidea
  <2>2. c.op = "assign"
    BY <1>3, <2>1 DEF StepsOf
  <2>3. d.pc = "assign" /\ d.op = "assign" /\ d.user = c.user /\ d.found = c.found
    BY <1>7, <2>1, <2>2
  <2> QED
    BY <1>1, <2>1, <2>3 DEF OwnKnows, KnowsTokens, KnowsVerify
<1>19. CASE Assign(r)
  BY <1>19, <1>5, <1>6, DoesAssign DEF AssignDoes
<1>20. CASE ListTokens(r)
  <2> DEFINE mine == OfUser(c.user)
  <2>1. c.pc = "list" /\ ListTokensDoes(r) /\ c.list = {} /\ c.todo = {}
    BY <1>1, <1>3, <1>20, DoesListTokens DEF KnowsTokens
  <2>2. mine = UserHas(c.user, users, tokens)
    BY UserHasOf
  <2>3. c.op \in {"rename", "delete"} /\ (c.op = "rename" => c.to \notin users)
    BY <1>1, <1>3, <2>1 DEF StepsOf, KnowsVerify
  <2>4. CASE c.op = "rename" /\ Learns(r, "add", c.found, c.list, c.todo, mine)
    <3>1. d.pc = "add" /\ d.list = {} /\ d.to = c.to /\ users' = users
      BY <1>8, <2>1, <2>4
    <3> QED
      BY <2>3, <2>4, <3>1 DEF OwnKnows, KnowsTokens, KnowsVerify
  <2>5. CASE c.op # "rename" /\ Learns(r, "deluser", c.found, c.list, c.todo, mine)
    <3>1. d.pc = "deluser" /\ d.op # "rename"
      BY <1>8, <2>5
    <3> QED
      BY <3>1 DEF OwnKnows, KnowsTokens, KnowsVerify
  <2>6. CASE mine # {} /\ c.op = "rename" /\ Learns(r, "release", c.found, mine, mine, mine)
    <3>1. d.pc = "release" /\ d.list = mine /\ d.todo = mine /\ d.to = c.to /\ d.user = c.user /\ quiet
      BY <1>8, <2>6
    <3>2. c.to # c.user
      BY <2>2, <2>3, <2>6 DEF UserHas
    <3>3. \A s, t \in mine : tokens[s].state = "verify" /\ tokens[t].state = "verify" => s = t
      BY <1>4, <2>2, NoCheck DEF KnowsInv, ToCheck
    <3> QED
      BY <2>2, <2>3, <2>6, <3>1, <3>2, <3>3 DEF OwnKnows, KnowsTokens, KnowsVerify
  <2>7. CASE mine # {} /\ c.op # "rename" /\ Learns(r, "second", c.found, c.list, c.todo, mine)
    <3>1. d.pc = "second" /\ d.op = c.op /\ d.user = c.user /\ quiet
      BY <1>8, <2>7
    <3> QED
      BY <2>2, <2>7, <3>1 DEF OwnKnows, KnowsTokens, KnowsVerify
  <2> QED
    BY <2>1, <2>4, <2>5, <2>6, <2>7 DEF ListTokensDoes
<1>21. CASE FindSecond(r)
  <2>1. c.pc = "second" /\ FindSecondDoes(r)
    BY <1>21, DoesFindSecond
  <2>2. PICK s \in Verified(c.user) : Learns(r, "unassign", s, c.list, c.todo, {s})
    BY <1>6, <2>1 DEF FindSecondDoes
  <2>3. d.pc = "unassign" /\ d.op = c.op /\ d.user = c.user /\ d.found = s /\ quiet
    BY <1>8, <2>2
  <2>4. s \in UserHas(c.user, users, tokens)
    BY UserHasOf DEF Verified
  <2>5. c.op # "rename"
    BY <1>3, <2>1 DEF StepsOf
  <2> QED
    BY <2>3, <2>4, <2>5 DEF OwnKnows, KnowsTokens, KnowsVerify
<1>22. CASE Unassign(r)
  <2>1. c.op = "delete" /\ Stays(r, "deluser")
    BY <1>22, <1>5, <1>6, DoesUnassign DEF UnassignDoes
  <2>2. d.pc = "deluser" /\ d.op = "delete"
    BY <1>7, <2>1
  <2> QED
    BY <2>2 DEF OwnKnows, KnowsTokens, KnowsVerify
<1>23. CASE Release(r)
  <2>1. c.pc = "release" /\ ReleaseDoes(r)
    BY <1>23, DoesRelease
  <2>2. c.op = "rename" /\ c.to \notin users /\ c.to # c.user
    BY <1>1, <1>3, <2>1 DEF StepsOf, KnowsVerify, KnowsTokens
  <2>3. /\ c.todo \subseteq UserHas(c.user, users, tokens)
        /\ ~c.threw => \A s \in c.list \ c.todo : tokens[s].user = Nobody
    BY <1>1, <2>1 DEF KnowsTokens
  <2>4. PICK s \in c.todo :
        \/ UNCHANGED privacyidea /\ Fails(r, {s})
        \/ Changes(s, tokens[s].state, Nobody, holder[s]) /\ OneAnswered(r, s, "add")
    BY <2>1 DEF ReleaseDoes
  <2>5. users' = users /\ \A t \in Serials : t # s => tokens'[t] = tokens[t]
    BY <2>4 DEF privacyidea, Changes
  <2>6. c.todo \ {s} \subseteq UserHas(c.user, users', tokens')
    BY <1>3, <2>3, <2>5 DEF UserHas
  <2>7. CASE Fails(r, {s})
    <3>1. /\ d.pc = "release" /\ d.op = "rename" /\ d.user = c.user /\ d.to = c.to
          /\ d.list = c.list /\ d.todo = c.todo \ {s} /\ d.threw
      BY <1>10, <2>1, <2>2, <2>7
    <3> QED
      BY <1>2, <2>2, <2>5, <2>6, <3>1 DEF OwnKnows, KnowsTokens, KnowsVerify
  <2>8. CASE tokens'[s].user = Nobody /\ OneAnswered(r, s, "add") /\ ~Fails(r, {s})
    <3>1. ~c.threw => \A t \in c.list \ (c.todo \ {s}) : tokens'[t].user = Nobody
      BY <1>3, <2>3, <2>5, <2>8
    <3>2. CASE Waits(r, s)
      <4>1. /\ d.pc = "release" /\ d.op = "rename" /\ d.user = c.user /\ d.to = c.to
            /\ d.list = c.list /\ d.todo = c.todo \ {s} /\ d.threw = c.threw
        BY <1>9, <2>1, <2>2, <3>2 DEF Waits
      <4> QED
        BY <1>2, <2>2, <2>5, <2>6, <3>1, <4>1 DEF OwnKnows, KnowsTokens, KnowsVerify
    <3>3. CASE ~c.threw /\ c.todo = {s} /\ Goes(r, "add", c.list, {})
      <4>1. d.pc = "add" /\ d.op = "rename" /\ d.to = c.to /\ d.list = c.list
        BY <1>9, <2>2, <3>3
      <4>2. \A t \in c.list : tokens'[t].user = Nobody
        BY <3>1, <3>3
      <4> QED
        BY <1>2, <2>2, <2>5, <4>1, <4>2 DEF OwnKnows, KnowsTokens, KnowsVerify
    <3> QED
      BY <1>6, <2>8, <3>2, <3>3 DEF OneAnswered
  <2> QED
    BY <2>4, <2>7, <2>8 DEF Changes
<1>24. CASE Reassign(r)
  <2>1. c.pc = "reassign" /\ ReassignDoes(r)
    BY <1>24, DoesReassign
  <2>2. c.op = "rename"
    BY <1>1, <1>3, <2>1 DEF StepsOf
  <2>3. (\A t \in c.todo : tokens[t].user = Nobody) /\ ToCheck(c.to, users, tokens) \subseteq c.list
    BY <1>1, <2>1 DEF KnowsTokens, KnowsVerify
  <2>4. PICK s \in c.todo :
        \/ UNCHANGED privacyidea /\ Fails(r, {s})
        \/ Changes(s, tokens[s].state, c.to, c.person) /\ OneAnswered(r, s, "deluser")
    BY <2>1 DEF ReassignDoes
  <2>5. users' = users /\ s \in c.list /\ \A t \in Serials : t # s => tokens'[t] = tokens[t]
    BY <1>3, <2>4 DEF privacyidea, Changes
  <2>6. \A t \in c.todo \ {s} : tokens'[t].user = Nobody
    BY <1>3, <2>3, <2>5
  <2>7. ToCheck(c.to, users', tokens') \subseteq c.list
    BY <2>3, <2>5 DEF ToCheck, UserHas
  <2>8. CASE Fails(r, {s}) \/ Waits(r, s)
    <3>1. /\ d.pc = "reassign" /\ d.op = "rename" /\ d.user = c.user /\ d.to = c.to
          /\ d.list = c.list /\ d.todo = c.todo \ {s}
      <4>1. CASE Fails(r, {s})
        BY <1>10, <2>1, <2>2, <4>1
      <4>2. CASE Waits(r, s)
        BY <1>9, <2>1, <2>2, <4>2 DEF Waits
      <4> QED
        BY <2>8, <4>1, <4>2
    <3> QED
      BY <1>2, <2>2, <2>6, <2>7, <3>1 DEF OwnKnows, KnowsTokens, KnowsVerify
  <2>9. CASE Goes(r, "deluser", c.list, {})
    <3>1. d.pc = "deluser" /\ d.op = "rename" /\ d.list = c.list
      BY <1>9, <2>2, <2>9
    <3> QED
      BY <1>2, <2>2, <3>1 DEF OwnKnows, KnowsTokens, KnowsVerify
  <2> QED
    BY <1>6, <2>4, <2>8, <2>9 DEF OneAnswered
<1>25. CASE DeleteUser(r)
  BY <1>25, <1>3, <1>5, <1>6, DoesDeleteUser DEF DeleteUserDoes
<1>26. CASE CallFails(r)
  <2>1. CallFailsDoes(r)
    BY <1>26, DoesCallFails
  <2>2. PICK s \in c.todo : Fails(r, {s})
    BY <1>3, <1>5, <2>1 DEF CallFailsDoes, Fails
  <2>3. c.pc \in {"release", "reassign"} /\ c.op = "rename"
    BY <1>3, <2>2 DEF StepsOf
  <2>4. /\ d.pc = c.pc /\ d.op = c.op /\ d.user = c.user /\ d.to = c.to
        /\ d.list = c.list /\ d.todo = c.todo \ {s} /\ d.threw /\ quiet
    BY <1>10, <2>1, <2>2, <2>3 DEF CallFailsDoes, privacyidea
  <2>5. /\ d.op = "rename"
        /\ \A x, y \in d.list : tokens'[x].state = "verify" /\ tokens'[y].state = "verify" => x = y
    BY <1>2, <2>3, <2>4
  <2>6. CASE c.pc = "release"
    <3>1. /\ c.todo \subseteq UserHas(c.user, users, tokens) /\ c.to # c.user
          /\ c.to \notin users
      BY <1>1, <2>3, <2>6 DEF KnowsTokens, KnowsVerify
    <3>2. /\ d.todo \subseteq UserHas(d.user, users', tokens') /\ d.to # d.user
          /\ d.to \notin users'
      BY <2>4, <3>1
    <3> QED
      BY <2>4, <2>5, <2>6, <3>2 DEF OwnKnows, KnowsTokens, KnowsVerify
  <2>7. CASE c.pc = "reassign"
    <3>1. (\A t \in c.todo : tokens[t].user = Nobody) /\ ToCheck(c.to, users, tokens) \subseteq c.list
      BY <1>1, <2>7 DEF KnowsTokens, KnowsVerify
    <3>2. (\A t \in d.todo : tokens'[t].user = Nobody) /\ ToCheck(d.to, users', tokens') \subseteq d.list
      BY <2>4, <3>1
    <3> QED
      BY <2>4, <2>5, <2>7, <3>2 DEF OwnKnows, KnowsTokens, KnowsVerify
  <2> QED
    BY <2>3, <2>6, <2>7
<1> QED
  BY <1>11, <1>12, <1>13, <1>14, <1>15, <1>16, <1>17, <1>18, <1>19, <1>20, <1>21, <1>22, <1>23,
     <1>24, <1>25, <1>26 DEF Step

LEMMA StepOneToVerify ==
    ASSUME TypeInv, SitesInv, KnowsInv, NEW r \in Requests, Step(r),
           NEW u \in Usernames, u \in users', u \notin raced
    PROVE  \A s, t \in ToCheck(u, users', tokens') : s = t
<1> DEFINE c == call[r]
<1>1. Busy(r) /\ TokensDo(r) /\ UsersDo(r) /\ CallOK(c)
  BY OnServer DEF TypeInv
<1>2. CASE u \notin c.sites
  BY <1>2, Elsewhere, NoCheck DEF KnowsInv
<1>3. CASE u \in c.sites
  <2>1. Clean(c) /\ KnowsTokens(c, users, tokens) /\ KnowsVerify(c, users, tokens)
    BY <1>1, <1>3 DEF SitesInv, KnowsInv, Knows
  <2>2. \A s, t \in ToCheck(u, users, tokens) : s = t
    BY NoCheck DEF KnowsInv
  <2>3. CASE u \notin users
    <3>1. c.pc = "add"
      BY <1>1, <2>3 DEF UsersDo
    <3>2. \A s \in Serials : tokens'[s] = tokens[s]
      BY <1>1, <3>1 DEF TokensDo, Same, Made, LostBy, Touched
    <3>3. ToCheck(u, users', tokens') = ToCheck(u, users', tokens)
      BY <3>2 DEF ToCheck, UserHas
    <3> QED
      BY <2>3, <3>3, NewUser
  <2>4. CASE u \in users
    <3>1. ASSUME NEW s \in ToCheck(u, users', tokens')
          PROVE  \/ s \in ToCheck(u, users, tokens)
                 \/ Made(r, s) /\ u = c.user
                 \/ Touched(r, s) /\ c.pc = "assign" /\ u = c.user
                 \/ Touched(r, s) /\ c.pc = "reassign" /\ u = c.to /\ s \in c.todo
      <4>1. s \in Serials /\ tokens'[s].state = "verify" /\ tokens'[s].user = u /\ u \notin {Nobody, Lost}
        BY <3>1, TokenAssumption DEF ToCheck, UserHas
      <4>2. CASE Same(s)
        BY <2>4, <4>1, <4>2 DEF Same, ToCheck, UserHas
      <4>3. CASE Made(r, s)
        BY <4>1, <4>3 DEF Made
      <4>4. CASE LostBy(r, s)
        BY <4>1, <4>4 DEF LostBy
      <4>5. CASE Touched(r, s)
        BY <2>4, <4>1, <4>5 DEF Touched, Removed, ToCheck, UserHas
      <4> QED
        BY <1>1, <4>1, <4>2, <4>3, <4>4, <4>5 DEF TokensDo
    <3>2. CASE c.pc \in {"create", "assign"} /\ u = c.user
      <4>1. ToCheck(c.user, users, tokens) = {}
        BY <2>1, <3>2 DEF KnowsVerify
      <4>2. \A s \in ToCheck(u, users', tokens') : (Made(r, s) \/ Touched(r, s)) /\ u = c.user
        BY <3>1, <3>2, <4>1, <2>4
      <4>3. ASSUME NEW s \in ToCheck(u, users', tokens'), NEW t \in ToCheck(u, users', tokens'), s # t
            PROVE  FALSE
        <5>1. Same(t) /\ t \in Serials
          BY <4>2, <4>3 DEF Made, Touched, ToCheck, UserHas
        <5>2. t \in ToCheck(u, users, tokens)
          BY <2>4, <4>3, <5>1 DEF Same, ToCheck, UserHas
        <5> QED
          BY <4>1, <4>2, <5>2
      <4> QED
        BY <4>3
    <3>3. CASE c.pc = "reassign"
      <4>1. ToCheck(c.to, users, tokens) \subseteq c.list /\ c.op = "rename" /\ c.todo \subseteq c.list
        BY <1>1, <2>1, <3>3 DEF KnowsVerify, CallOK, StepsOf
      <4>2. \A s, t \in c.list : tokens'[s].state = "verify" /\ tokens'[t].state = "verify" => s = t
        BY <1>1, <2>1, <4>1, ListKnows
      <4>3. CASE u = c.to
        BY <3>1, <3>3, <4>1, <4>2, <4>3 DEF ToCheck, Made
      <4>4. CASE u # c.to
        BY <2>2, <3>1, <3>3, <4>4 DEF Made
      <4> QED
        BY <4>3, <4>4
    <3>4. CASE c.pc # "reassign" /\ ~(c.pc \in {"create", "assign"} /\ u = c.user)
      BY <2>2, <3>1, <3>4 DEF Made
    <3> QED
      BY <3>2, <3>3, <3>4
  <2> QED
    BY <2>3, <2>4
<1> QED
  BY <1>2, <1>3

\* Neither does a step of a request change whom others are about.
LEMMA StepKnowsNew ==
    ASSUME TypeInv, KnowsInv, NEW r \in Requests, Step(r),
           NEW q \in Requests, Busy(q), Clean(call[q])
    PROVE  LET e == call[q]
           IN  /\ IF e.op = "delete" THEN e.person \notin alive' /\ name'[e.person] = e.user
                  ELSE e.person \in alive' /\ name'[e.person] = e.to
               /\ e.op = "delete" \/ e.to # e.user =>
                    \A p \in alive' : p # e.person /\ name'[p] = e.user =>
                      /\ \A s \in Serials : holder'[s] # p
                      /\ \A t \in Requests : call'[t] # Idle => call'[t].person # p
<1> DEFINE c == call[r]  e == call[q]
<1>1. Busy(r) /\ TokensDo(r) /\ GoesOn(r) /\ CallOK(c) /\ name' = name /\ alive' = alive
      /\ \A t \in Requests : t # r => call'[t] = call[t]
  BY OnServer, StepGoesOn DEF TypeInv, Others, server
<1>2. KnowsName(e) /\ KnowsNew(e)
  BY DEF KnowsInv, Knows
<1>3. ASSUME e.op = "delete" \/ e.to # e.user, NEW p \in alive, p # e.person, name[p] = e.user
      PROVE  /\ \A s \in Serials : holder'[s] # p
             /\ \A t \in Requests : call'[t] # Idle => call'[t].person # p
  <2>1. /\ \A s \in Serials : holder[s] # p
        /\ \A t \in Requests : Busy(t) => call[t].person # p
    BY <1>2, <1>3 DEF KnowsNew
  <2>2. p # Nobody /\ c.person # p
    BY <1>1, <2>1, TokenAssumption DEF TypeInv, TypeOK
  <2>3. \A s \in Serials : holder'[s] \in {holder[s], c.person, Nobody}
    BY <1>1 DEF TokensDo, Same, Made, LostBy, Touched
  <2>4. \A t \in Requests : call'[t] # Idle => call'[t].person # p
    BY <1>1, <2>1 DEF GoesOn, Continues, Busy
  <2> QED
    BY <2>1, <2>2, <2>3, <2>4
<1> QED
  BY <1>1, <1>2, <1>3 DEF KnowsName

LEMMA StepKnowsInv ==
    ASSUME TypeInv, SitesInv, KnowsInv, TypeInv', NEW r \in Requests, Step(r)
    PROVE  KnowsInv'
<1>1. Busy(r) /\ GoesOn(r) /\ \A t \in Requests : t # r => call'[t] = call[t]
  BY OnServer, StepGoesOn DEF Others
<1>2. raced \subseteq raced'
  BY <1>1, RacesWithin DEF GoesOn, Finding
<1>3. call'[r] # Idle => /\ call[r].sites \subseteq call'[r].sites
                         /\ call'[r].op = call[r].op /\ call'[r].person = call[r].person
                         /\ call'[r].user = call[r].user /\ call'[r].to = call[r].to
  BY <1>1 DEF GoesOn, Continues, Finding
<1>4. ASSUME NEW q \in Requests, call'[q] # Idle, call'[q].sites \cap raced' = {}
      PROVE  LET e == call'[q]
             IN  /\ IF e.op = "delete" THEN e.person \notin alive' /\ name'[e.person] = e.user
                    ELSE e.person \in alive' /\ name'[e.person] = e.to
                 /\ e.op = "delete" \/ e.to # e.user =>
                      \A p \in alive' : p # e.person /\ name'[p] = e.user =>
                        /\ \A s \in Serials : holder'[s] # p
                        /\ \A t \in Requests : call'[t] # Idle => call'[t].person # p
                 /\ KnowsTokens(e, users', tokens') /\ KnowsVerify(e, users', tokens')
  <2>1. Busy(q) /\ Clean(call[q])
    BY <1>1, <1>2, <1>3, <1>4 DEF Busy, Clean
  <2> DEFINE e == call'[q]  f == call[q]
  <2>2. e.op = f.op /\ e.person = f.person /\ e.user = f.user /\ e.to = f.to
    BY <1>1, <1>3, <1>4
  <2>3. KnowsTokens(e, users', tokens') /\ KnowsVerify(e, users', tokens')
    BY <1>1, <1>4, <2>1, StepKnows, OthersKnow DEF OwnKnows
  <2>4. /\ IF f.op = "delete" THEN f.person \notin alive' /\ name'[f.person] = f.user
           ELSE f.person \in alive' /\ name'[f.person] = f.to
        /\ f.op = "delete" \/ f.to # f.user =>
             \A p \in alive' : p # f.person /\ name'[p] = f.user =>
               /\ \A s \in Serials : holder'[s] # p
               /\ \A t \in Requests : call'[t] # Idle => call'[t].person # p
    BY <2>1, StepKnowsNew
  <2> HIDE DEF e, f
  <2> QED
    BY <2>2, <2>3, <2>4 DEF e
<1>5. \A u \in users' \ raced' : \A s, t \in ToCheck(u, users', tokens') : s = t
  <2> SUFFICES ASSUME NEW u \in users' \ raced' PROVE \A s, t \in ToCheck(u, users', tokens') : s = t
    OBVIOUS
  <2>1. u \in Usernames /\ u \notin raced
    BY <1>2 DEF TypeInv, TypeOK
  <2> QED
    BY <2>1, StepOneToVerify
<1>6. \A u : ToVerify(u)' = ToCheck(u, users', tokens')
  BY DEF ToVerify, OfUser, Exists, ToCheck, UserHas
<1>7. OneToVerify'
  BY <1>5, <1>6 DEF OneToVerify
<1> QED
  BY <1>4, <1>7 DEF KnowsInv, Knows, KnowsName, KnowsNew, Clean, Busy

LEMMA AskKnowsInv ==
    ASSUME TypeInv, SitesInv, KnowsInv, NEW r \in Requests, AskDoes(r)
    PROVE  KnowsInv'
<1> DEFINE d == call'[r]  x == d.person
<1>1. /\ ~Busy(r) /\ d # Idle /\ Races(r, d.sites) /\ {x, d.user, d.to} \subseteq d.sites
      /\ \A q \in Requests : q # r => call'[q] = call[q]
      /\ d.op \in {"init", "assign", "verify", "reset", "rename", "delete"} /\ d.pc = FirstStep(d.op)
      /\ x \in alive /\ x \in Persons /\ d.user = name[x]
      /\ d.to = d.user \/ (d.op = "rename" /\ FreeName(d.to))
      /\ d.list = {} /\ d.todo = {}
      /\ name'[x] = d.to /\ \A p \in Persons : p # x => name'[p] = name[p]
      /\ alive' = IF d.op = "delete" THEN alive \ {x} ELSE alive
      /\ users' = users /\ tokens' = tokens /\ holder' = holder
  BY DEF AskDoes, privacyidea, TypeInv, TypeOK, StartSites, IsRequest, Idle
<1>2. raced \subseteq raced'
  BY <1>1, RacesWithin
<1>3. ASSUME NEW q \in Requests, q # r, Busy(q), call[q].sites \cap raced' = {}
      PROVE  /\ Clean(call[q]) /\ call[q].sites \cap d.sites = {}
             /\ KnowsName(call[q]) /\ KnowsNew(call[q])
             /\ KnowsTokens(call[q], users, tokens) /\ KnowsVerify(call[q], users, tokens)
             /\ call[q].person \in Persons /\ {call[q].person, call[q].user, call[q].to} \subseteq call[q].sites
  <2>1. Clean(call[q])
    BY <1>2, <1>3 DEF Clean
  <2>2. call[q].sites \cap d.sites = {}
    <3>1. CASE call[q].sites \cap d.sites # {}
      <4>1. q \in Near(r, d.sites)
        BY <1>3, <3>1 DEF Near
      <4>2. call[q].sites \subseteq raced'
        BY <1>1, <4>1 DEF Races
      <4> QED
        BY <1>3, <3>1, <4>2
    <3> QED
      BY <3>1
  <2> QED
    BY <1>3, <2>1, <2>2 DEF KnowsInv, Knows, TypeInv, CallOK
<1>4. ASSUME NEW q \in Requests, q # r, Busy(q), call[q].sites \cap raced' = {}
      PROVE  LET e == call[q]
             IN  /\ IF e.op = "delete" THEN e.person \notin alive' /\ name'[e.person] = e.user
                    ELSE e.person \in alive' /\ name'[e.person] = e.to
                 /\ e.op = "delete" \/ e.to # e.user =>
                      \A p \in alive' : p # e.person /\ name'[p] = e.user =>
                        /\ \A s \in Serials : holder'[s] # p
                        /\ \A t \in Requests : call'[t] # Idle => call'[t].person # p
                 /\ KnowsTokens(e, users', tokens') /\ KnowsVerify(e, users', tokens')
  <2> DEFINE e == call[q]
  <2>1. /\ e.sites \cap d.sites = {} /\ KnowsName(e) /\ KnowsNew(e)
        /\ KnowsTokens(e, users, tokens) /\ KnowsVerify(e, users, tokens)
        /\ e.person \in Persons /\ {e.person, e.user, e.to} \subseteq e.sites
    BY <1>3, <1>4
  <2>2. e.person # x /\ d.to # e.user
    BY <1>1, <2>1
  <2>3. IF e.op = "delete" THEN e.person \notin alive' /\ name'[e.person] = e.user
        ELSE e.person \in alive' /\ name'[e.person] = e.to
    BY <1>1, <2>1, <2>2 DEF KnowsName
  <2>4. ASSUME e.op = "delete" \/ e.to # e.user, NEW p \in alive', p # e.person, name'[p] = e.user
        PROVE  /\ \A s \in Serials : holder'[s] # p
               /\ \A t \in Requests : call'[t] # Idle => call'[t].person # p
    <3>1. p \in alive /\ p \in Persons /\ p # x
      BY <1>1, <2>2, <2>4 DEF TypeInv, TypeOK
    <3>2. name[p] = e.user
      BY <1>1, <2>4, <3>1
    <3>3. /\ \A s \in Serials : holder[s] # p
          /\ \A t \in Requests : Busy(t) => call[t].person # p
      BY <2>1, <2>4, <3>1, <3>2 DEF KnowsNew
    <3> QED
      BY <1>1, <3>1, <3>3 DEF Busy
  <2> HIDE DEF e
  <2>5. KnowsTokens(e, users', tokens') /\ KnowsVerify(e, users', tokens')
    BY <1>1, <2>1
  <2> QED
    BY <2>3, <2>4, <2>5 DEF e
<1>5. /\ IF d.op = "delete" THEN x \notin alive' /\ name'[x] = d.user
         ELSE x \in alive' /\ name'[x] = d.to
      /\ \A p \in alive' : p # x => name'[p] # d.user
  <2>1. \A p \in alive : p # x => p \in Persons /\ name[p] # name[x]
    BY <1>1 DEF TypeInv, TypeOK
  <2> QED
    BY <1>1, <2>1
<1>6. KnowsTokens(d, users', tokens') /\ KnowsVerify(d, users', tokens')
  <2>1. \/ d.pc \in {"exists", "old"} \/ (d.pc = "second" /\ d.op = "reset") \/ (d.pc = "list" /\ d.op = "delete")
    BY <1>1 DEF FirstStep
  <2> QED
    BY <1>1, <2>1 DEF KnowsTokens, KnowsVerify
<1>7. OneToVerify'
  BY <1>1, <1>2 DEF KnowsInv, OneToVerify, ToVerify, OfUser, Exists
<1>8. \A q \in Requests : call'[q] # Idle /\ q # r => Busy(q) /\ call'[q] = call[q]
  BY <1>1 DEF Busy
<1>9. ASSUME NEW q \in Requests, call'[q] # Idle, call'[q].sites \cap raced' = {}
      PROVE  LET e == call'[q]
             IN  /\ IF e.op = "delete" THEN e.person \notin alive' /\ name'[e.person] = e.user
                    ELSE e.person \in alive' /\ name'[e.person] = e.to
                 /\ e.op = "delete" \/ e.to # e.user =>
                      \A p \in alive' : p # e.person /\ name'[p] = e.user =>
                        /\ \A s \in Serials : holder'[s] # p
                        /\ \A t \in Requests : call'[t] # Idle => call'[t].person # p
                 /\ KnowsTokens(e, users', tokens') /\ KnowsVerify(e, users', tokens')
  <2>1. CASE q = r
    BY <1>5, <1>6, <2>1
  <2>2. CASE q # r
    <3>1. Busy(q) /\ call'[q] = call[q] /\ call[q].sites \cap raced' = {}
      BY <1>8, <1>9, <2>2
    <3> HIDE DEF d
    <3> QED
      BY <1>4, <2>2, <3>1
  <2> QED
    BY <2>1, <2>2
<1> HIDE DEF d, x
<1> QED
  BY <1>7, <1>9 DEF KnowsInv, Knows, KnowsName, KnowsNew, Clean, Busy

LEMMA CreateKnowsInv == ASSUME TypeInv, KnowsInv, CreatePerson PROVE KnowsInv'
<1>1. PICK p \in Persons \ alive, u \in Usernames :
        /\ name[p] = Nobody /\ FreeName(u)
        /\ name' = [name EXCEPT ![p] = u]
        /\ alive' = alive \cup {p}
        /\ UNCHANGED <<users, tokens, holder, call, raced>>
  BY DEF CreatePerson, privacyidea
<1>2. \A q \in Persons : q # p => name'[q] = name[q]
  BY <1>1 DEF TypeInv, TypeOK
<1>3. \A s \in Serials : holder[s] # p
  BY <1>1, TokenAssumption DEF TypeInv
<1>4. \A r \in Requests : Busy(r) => call[r].person # p /\ call[r].person \in Persons
  BY <1>1 DEF TypeInv, CallOK
<1>5. ASSUME NEW r \in Requests, Busy(r), Clean(call[r])
      PROVE  LET e == call[r]
             IN  /\ IF e.op = "delete" THEN e.person \notin alive' /\ name'[e.person] = e.user
                    ELSE e.person \in alive' /\ name'[e.person] = e.to
                 /\ e.op = "delete" \/ e.to # e.user =>
                      \A q \in alive' : q # e.person /\ name'[q] = e.user =>
                        /\ \A s \in Serials : holder[s] # q
                        /\ \A t \in Requests : Busy(t) => call[t].person # q
  <2>1. KnowsName(call[r]) /\ KnowsNew(call[r])
    BY <1>5 DEF KnowsInv, Knows
  <2> QED
    BY <1>1, <1>2, <1>3, <1>4, <1>5, <2>1 DEF KnowsName, KnowsNew, TypeInv, TypeOK
<1>6. OneToVerify'
  BY <1>1 DEF KnowsInv, OneToVerify, ToVerify, OfUser, Exists
<1>7. \A r \in Requests : Busy(r) /\ Clean(call[r]) =>
        KnowsTokens(call[r], users, tokens) /\ KnowsVerify(call[r], users, tokens)
  BY DEF KnowsInv, Knows
<1> QED
  BY <1>1, <1>5, <1>6, <1>7 DEF KnowsInv, Knows, KnowsName, KnowsNew, Clean, Busy

LEMMA NextKnows == TypeInv /\ SitesInv /\ KnowsInv /\ [Next]_vars => KnowsInv'
<1> SUFFICES ASSUME TypeInv, SitesInv, KnowsInv, [Next]_vars PROVE KnowsInv'
  OBVIOUS
<1>1. TypeInv'
  BY NextTypeInv
<1>2. ASSUME NEW r \in Requests, Ask(r) PROVE KnowsInv'
  BY <1>2, DoesAsk, AskKnowsInv
<1>3. ASSUME NEW r \in Requests, Step(r) PROVE KnowsInv'
  BY <1>1, <1>3, StepKnowsInv
<1>4. CASE UNCHANGED vars
  <2>1. OneToVerify'
    BY <1>4 DEF vars, privacyidea, history, KnowsInv, OneToVerify, ToVerify, OfUser, Exists
  <2>2. users' = users /\ tokens' = tokens /\ call' = call /\ raced' = raced /\ alive' = alive
        /\ name' = name /\ holder' = holder
    BY <1>4 DEF vars, server, privacyidea, history
  <2> QED
    BY <2>1, <2>2 DEF KnowsInv, Knows, KnowsName, KnowsNew, Clean, Busy
<1>5. CASE CreatePerson
  BY <1>5, CreateKnowsInv
<1> QED
  BY <1>2, <1>3, <1>4, <1>5 DEF Next

\* What a request that has not raced was told by checkUserExists(), getUserTokens(),
\* getTokenToVerify() or getTwoAuthState() still holds when it acts on it.
THEOREM KnowsInvariant == Spec => [](TypeInv /\ SitesInv /\ KnowsInv)
<1>1. Init => KnowsInv
  BY DEF Init, KnowsInv, OneToVerify, Busy
<1> QED
  BY <1>1, SitesInvariant, NextKnows, PTL DEF Spec

\* initializeSoftwareToken() and assignHardwareToken() drop the token to verify that
\* getTokenToVerify() has found, and updateUsername() takes at most one along: no
\* user gets a second one, whichever call fails, unless requests overlapped.
THEOREM NoSecondToVerify == Spec => []OneToVerify
<1>1. KnowsInv => OneToVerify
  BY DEF KnowsInv
<1> QED
  BY <1>1, KnowsInvariant, PTL

-----------------------------------------------------------------------------
(* Whose tokens a request changes.                                         *)

\* A request that has not raced works on the user of its own person.
LEMMA OwnUser ==
    ASSUME TypeInv, KnowsInv, NEW r \in Requests, Busy(r), Clean(call[r]),
           NEW p \in alive, NEW s \in Serials, holder[s] = p, name[p] = call[r].user
    PROVE  call[r].person = p /\ call[r].op # "delete"
<1> DEFINE c == call[r]
<1>1. KnowsName(c) /\ KnowsNew(c)
  BY DEF KnowsInv, Knows
<1>2. CASE c.op = "delete" \/ c.to # c.user
  BY <1>1, <1>2 DEF KnowsName, KnowsNew
<1>3. CASE c.op # "delete" /\ c.to = c.user
  BY <1>1, <1>3 DEF KnowsName, TypeInv, TypeOK
<1> QED
  BY <1>2, <1>3

LEMMA OwnName ==
    ASSUME TypeInv, KnowsInv, NEW r \in Requests, Busy(r), Clean(call[r]), call[r].op # "delete",
           NEW p \in alive, name[p] = call[r].to
    PROVE  call[r].person = p
<1>1. KnowsName(call[r])
  BY DEF KnowsInv, Knows
<1> QED
  BY <1>1 DEF KnowsName, TypeInv, TypeOK

\* The user of a token that a request changes, if it has not raced.
LEMMA TouchedUser ==
    ASSUME TypeInv, KnowsInv, NEW r \in Requests, Busy(r), Clean(call[r]), NEW s, Touched(r, s)
    PROVE  LET c == call[r]
           IN  /\ c.pc \in {"drop", "confirm", "unassign", "release"} => tokens[s].user = c.user
               /\ c.pc \in {"assign", "reassign"} => tokens[s].user = Nobody
               /\ c.pc \in {"drop", "confirm"} => tokens[s].state = "verify"
               /\ c.pc \in {"drop", "confirm", "assign"} => c.op \in {"init", "assign", "verify"} /\ c.to = c.user
               /\ c.pc = "unassign" => c.op \in {"reset", "delete"} /\ c.to = c.user
               /\ c.pc \in {"release", "reassign"} => c.op = "rename"
<1> DEFINE c == call[r]
<1>1. CallOK(c) /\ KnowsTokens(c, users, tokens)
  BY DEF TypeInv, KnowsInv, Knows
<1>2. c.op \in {"init", "assign", "verify", "reset", "rename", "delete"} /\ c.pc \in StepsOf(c.op)
      /\ (c.op # "rename" => c.to = c.user)
  BY <1>1 DEF CallOK
<1>3. /\ c.pc \in {"drop", "confirm", "assign"} => c.op \in {"init", "assign", "verify"} /\ c.to = c.user
      /\ c.pc = "unassign" => c.op \in {"reset", "delete"} /\ c.to = c.user
      /\ c.pc \in {"release", "reassign"} => c.op = "rename"
  BY <1>2 DEF StepsOf
<1> HIDE DEF c
<1>4. /\ c.pc \in {"drop", "confirm", "unassign", "release"} => tokens[s].user = c.user
      /\ c.pc \in {"assign", "reassign"} => tokens[s].user = Nobody
      /\ c.pc \in {"drop", "confirm"} => tokens[s].state = "verify"
  BY <1>1 DEF Touched, KnowsTokens, UserHas, c
<1> QED
  BY <1>3, <1>4 DEF c

LEMMA TakesOn ==
    ASSUME TypeInv, NEW r \in Requests, Step(r), call[r].pc \in {"unassign", "release", "deluser"}
    PROVE  call'[r] # call[r]
<1> DEFINE c == call[r]  d == call'[r]
<1>1. Busy(r) /\ CallOK(c)
  BY OnServer DEF TypeInv
<1>2. c.pc # "release" => c.todo = {}
  BY <1>1 DEF CallOK
<1>3. CASE d = Idle
  BY <1>1, <1>3 DEF Busy
<1>4. ASSUME NEW s \in c.todo, Fails(r, {s}) PROVE d # c
  <2>1. CASE d \in Onward(c, c.pc, c.found, c.list, c.todo \ {s}, TRUE, c.sites)
    <3>1. d.todo = c.todo \ {s}
      BY <2>1 DEF Onward
    <3> QED
      BY <3>1
  <2> QED
    BY <1>3, <1>4, <2>1 DEF Fails
<1>5. ASSUME NEW pc, pc # c.pc, NEW list, NEW todo, Goes(r, pc, list, todo) PROVE d # c
  BY <1>5 DEF Goes, Onward
<1>6. ASSUME NEW s \in c.todo, Waits(r, s) PROVE d # c
  BY <1>6 DEF Waits, Goes, Onward
<1>7. CASE c.pc = "unassign"
  <2>1. CallFails(r) \/ Unassign(r)
    BY <1>7, DoesCheckUser, DoesAddUser, DoesFindOld, DoesDrop, DoesInitToken, DoesConfirm, DoesCheckStatus,
       DoesCheckOtp, DoesAssign, DoesListTokens, DoesFindSecond, DoesRelease, DoesReassign, DoesDeleteUser DEF Step
  <2>2. CASE CallFails(r)
    BY <1>2, <1>3, <1>7, <2>2, DoesCallFails DEF CallFailsDoes, Fails
  <2>3. CASE Unassign(r)
    <3>1. Fails(r, {}) \/ Stays(r, "deluser") \/ Ends(r)
      BY <2>3, DoesUnassign DEF UnassignDoes
    <3> QED
      BY <1>2, <1>3, <1>5, <1>7, <3>1 DEF Fails, Stays, Ends
  <2> QED
    BY <2>1, <2>2, <2>3
<1>8. CASE c.pc = "deluser"
  <2>1. CallFails(r) \/ DeleteUser(r)
    BY <1>8, DoesCheckUser, DoesAddUser, DoesFindOld, DoesDrop, DoesInitToken, DoesConfirm, DoesCheckStatus,
       DoesCheckOtp, DoesAssign, DoesListTokens, DoesFindSecond, DoesRelease, DoesReassign, DoesUnassign DEF Step
  <2>2. CASE CallFails(r)
    BY <1>2, <1>3, <1>8, <2>2, DoesCallFails DEF CallFailsDoes, Fails
  <2>3. CASE DeleteUser(r)
    <3>1. Fails(r, {}) \/ Ends(r)
      BY <2>3, DoesDeleteUser DEF DeleteUserDoes
    <3> QED
      BY <1>2, <1>3, <1>8, <3>1 DEF Fails, Ends
  <2> QED
    BY <2>1, <2>2, <2>3
<1>9. CASE c.pc = "release"
  <2>1. CallFails(r) \/ Release(r)
    BY <1>9, DoesCheckUser, DoesAddUser, DoesFindOld, DoesDrop, DoesInitToken, DoesConfirm, DoesCheckStatus,
       DoesCheckOtp, DoesAssign, DoesListTokens, DoesFindSecond, DoesDeleteUser, DoesReassign, DoesUnassign DEF Step
  <2>2. CASE CallFails(r)
    <3>1. (c.todo = {} /\ Fails(r, {})) \/ \E s \in c.todo : Fails(r, {s})
      BY <2>2, DoesCallFails DEF CallFailsDoes
    <3>2. CASE c.todo = {} /\ Fails(r, {})
      BY <1>3, <3>2 DEF Fails
    <3> QED
      BY <1>4, <3>1, <3>2
  <2>3. CASE Release(r)
    <3>1. PICK s \in c.todo : Fails(r, {s}) \/ OneAnswered(r, s, "add")
      BY <2>3, DoesRelease DEF ReleaseDoes
    <3>2. Fails(r, {s}) \/ Waits(r, s) \/ Ends(r) \/ Goes(r, "add", c.list, {})
      BY <3>1 DEF OneAnswered
    <3> QED
      BY <1>3, <1>4, <1>5, <1>6, <1>9, <3>2 DEF Ends
  <2> QED
    BY <2>1, <2>2, <2>3
<1> QED
  BY <1>7, <1>8, <1>9

\* What TakenByOwn says of a step.
TakenByOwnStep ==
    \A s \in Serials, p \in Persons :
         /\ p \in alive /\ holder[s] = p
         /\ tokens[s].state = "ready" /\ tokens[s].user = name[p]
         /\ tokens'[s] # tokens[s] /\ {p, name[p], s} \cap raced = {}
         => /\ Exists(s)'
            /\ \E r \in Requests :
                /\ call'[r] # call[r]
                /\ call[r].person = p /\ call[r].op \in {"reset", "rename", "delete"}

LEMMA StepTaken ==
    ASSUME TypeInv, SitesInv, KnowsInv, NEW r \in Requests, Step(r)
    PROVE  TakenByOwnStep
<1> DEFINE c == call[r]
<1>1. Busy(r) /\ TokensDo(r) /\ CallOK(c)
  BY OnServer DEF TypeInv
<1> SUFFICES ASSUME NEW s \in Serials, NEW p \in Persons, p \in alive, holder[s] = p,
                    tokens[s].state = "ready", tokens[s].user = name[p], tokens'[s] # tokens[s],
                    {p, name[p], s} \cap raced = {}
             PROVE  Exists(s)' /\ call'[r] # c /\ c.person = p /\ c.op \in {"reset", "rename", "delete"}
  BY DEF TakenByOwnStep
<1>2. name[p] # Nobody
  BY DEF TypeInv, TypeOK
<1>3. CASE LostBy(r, s)
  <2>1. c.user = name[p] /\ c.pc = "deluser" /\ tokens'[s].state = tokens[s].state
    BY <1>3 DEF LostBy, OfUser
  <2>2. Clean(c)
    BY <1>1, <2>1 DEF SitesInv, CallOK
  <2>3. c.person = p
    BY <1>1, <2>1, <2>2, OwnUser
  <2>4. c.op \in {"rename", "delete"}
    BY <1>1, <2>1 DEF CallOK, StepsOf
  <2>5. call'[r] # c
    BY <2>1, TakesOn
  <2> QED
    BY <2>1, <2>3, <2>4, <2>5 DEF Exists
<1>4. CASE Touched(r, s)
  <2>1. Clean(c)
    BY <1>1, <1>4 DEF SitesInv, Touched
  <2>2. c.pc \in {"unassign", "release"} /\ tokens[s].user = c.user /\ c.op \in {"reset", "rename", "delete"}
    BY <1>1, <1>2, <1>4, <2>1, TouchedUser DEF Touched
  <2>3. c.person = p
    BY <1>1, <2>1, <2>2, OwnUser
  <2>4. call'[r] # c
    BY <2>2, TakesOn
  <2>5. tokens'[s].state = tokens[s].state
    BY <1>4, <2>2 DEF Touched
  <2> QED
    BY <2>2, <2>3, <2>4, <2>5 DEF Exists
<1> QED
  BY <1>1, <1>3, <1>4 DEF TokensDo, Same, Made, Absent

\* resetToken(), updateUsername() and handlePersonDeletedEvent() take verified tokens
\* only from their own person, even where another has taken over the old username,
\* and deleteToken() never destroys one, unless requests overlapped.
THEOREM TakenByOwnOnly == Spec => TakenByOwn
<1>1. TypeInv /\ SitesInv /\ KnowsInv /\ [Next]_vars => [TakenByOwnStep]_vars
  <2> SUFFICES ASSUME TypeInv, SitesInv, KnowsInv, Next PROVE TakenByOwnStep
    OBVIOUS
  <2>1. ASSUME tokens' = tokens PROVE TakenByOwnStep
    BY <2>1 DEF TakenByOwnStep
  <2>2. ASSUME NEW r \in Requests, Ask(r) PROVE tokens' = tokens
    BY <2>2, DoesAsk DEF AskDoes, privacyidea
  <2>3. ASSUME CreatePerson PROVE tokens' = tokens
    BY <2>3 DEF CreatePerson, privacyidea
  <2> QED
    BY <2>1, <2>2, <2>3, StepTaken DEF Next
<1> QED
  BY <1>1, KnowsInvariant, PTL DEF Spec, TakenByOwn, TakenByOwnStep

-----------------------------------------------------------------------------
(* A person's tokens follow.                                               *)

HeldBy(p, hd) == {s \in Serials : hd[s] = p}

LEMMA HeldOf == \A p : Held(p) = HeldBy(p, holder) /\ Held(p)' = HeldBy(p, holder')
BY DEF Held, HeldBy

LEMMA HasNext == \A u : OfUser(u)' = UserHas(u, users', tokens')
BY DEF OfUser, UserHas, Exists

\* A token that somebody else's request changes is not one of a person for whom all is well.
LEMMA NotOfOthers ==
    ASSUME TypeInv, SitesInv, KnowsInv, FollowInv, NEW r \in Requests, Step(r),
           NEW p \in Persons, Sound(p), call[r].person # p
    PROVE  /\ HeldBy(p, holder') = HeldBy(p, holder)
           /\ Renaming(p) = {} => UserHas(name[p], users', tokens') = HeldBy(p, holder')
<1> DEFINE c == call[r]
<1>1. Busy(r) /\ TokensDo(r) /\ UsersDo(r) /\ CallOK(c) /\ p \in alive /\ p \notin raced /\ name[p] \notin raced
  BY OnServer DEF TypeInv, Sound
<1>2. name[p] \in Usernames /\ name[p] \notin {Nobody, Lost} /\ p # Nobody
  BY <1>1, TokenAssumption DEF TypeInv, TypeOK
<1>3. ASSUME p \in c.sites PROVE Renaming(p) = {} /\ UserHas(name[p], users, tokens) = HeldBy(p, holder)
  <2>1. ASSUME NEW q \in Renaming(p) PROVE FALSE
    <3>1. q \in Requests /\ Busy(q) /\ p \in call[q].sites /\ q # r
      BY <2>1 DEF Renaming, TypeInv, CallOK
    <3>2. p \in raced
      BY <1>1, <1>3, <3>1 DEF SitesInv
    <3> QED
      BY <1>1, <3>2
  <2>2. Renaming(p) = {}
    BY <2>1
  <2> QED
    BY <2>2, HeldOf, UserHasOf DEF FollowInv
<1>4. ASSUME NEW s \in Serials, Touched(r, s), holder[s] = p
      PROVE  c.pc = "confirm"
  <2>1. Clean(c)
    <3>1. s \in c.sites /\ (c.sites \subseteq raced => s \in raced)
      BY <1>4 DEF Touched
    <3>2. s \in raced => holder[s] \in raced \cup {Nobody}
      BY DEF SitesInv, Closed
    <3> QED
      BY <1>1, <1>2, <1>4, <3>1, <3>2 DEF SitesInv
  <2>2. p \in c.sites
    BY <1>1, <1>2, <1>4, <2>1 DEF SitesInv, Closed, Touched
  <2>3. s \in UserHas(name[p], users, tokens)
    BY <1>3, <1>4, <2>2 DEF HeldBy
  <2>4. tokens[s].user = name[p]
    BY <2>3 DEF UserHas
  <2>5. c.pc \notin {"assign", "reassign"}
    BY <1>1, <1>2, <1>4, <2>1, <2>4, TouchedUser
  <2>6. ASSUME c.pc \in {"drop", "unassign", "release"} PROVE FALSE
    <3>1. c.user = name[p]
      BY <1>1, <1>4, <2>1, <2>4, <2>6, TouchedUser
    <3> QED
      BY <1>1, <1>4, <2>1, <3>1, OwnUser
  <2> QED
    BY <1>4, <2>5, <2>6 DEF Touched
<1>5. ASSUME NEW s \in Serials PROVE holder'[s] = p <=> holder[s] = p
  <2>1. CASE Same(s)
    BY <2>1 DEF Same
  <2>2. CASE Made(r, s)
    BY <1>2, <2>2 DEF Made, TypeInv
  <2>3. CASE LostBy(r, s)
    BY <2>3 DEF LostBy
  <2>4. CASE Touched(r, s)
    BY <1>2, <1>4, <2>4 DEF Touched
  <2> QED
    BY <1>1, <2>1, <2>2, <2>3, <2>4 DEF TokensDo
<1>6. HeldBy(p, holder') = HeldBy(p, holder)
  BY <1>5 DEF HeldBy
<1>7. ASSUME Renaming(p) = {} PROVE UserHas(name[p], users', tokens') = HeldBy(p, holder')
  <2>1. UserHas(name[p], users, tokens) = HeldBy(p, holder)
    BY <1>7, HeldOf, UserHasOf DEF FollowInv
  <2>2. c.op # "delete" /\ c.to = name[p] => FALSE
    <3> SUFFICES ASSUME c.op # "delete", c.to = name[p] PROVE FALSE
      OBVIOUS
    <3>1. Clean(c)
      BY <1>1 DEF SitesInv, CallOK
    <3> QED
      BY <1>1, <3>1, OwnName
  <2>3. c.user = name[p] /\ HeldBy(p, holder) # {} => FALSE
    <3> SUFFICES ASSUME c.user = name[p], NEW s \in HeldBy(p, holder) PROVE FALSE
      OBVIOUS
    <3>1. Clean(c)
      BY <1>1 DEF SitesInv, CallOK
    <3>2. s \in Serials /\ holder[s] = p
      BY DEF HeldBy
    <3> QED
      BY <1>1, <3>1, <3>2, OwnUser
  <2>4. c.op # "rename" => c.to = c.user
    BY <1>1 DEF CallOK
  <2>5. /\ c.pc \in {"create", "assign", "reassign"} => c.op \notin {"delete"}
        /\ c.pc \in {"create", "assign"} => c.op # "rename"
        /\ c.pc = "add" => c.op # "delete"
    BY <1>1 DEF CallOK, StepsOf
  <2>6. ASSUME NEW s \in Serials
        PROVE  /\ tokens'[s].user = name[p] /\ tokens'[s].state \in {"verify", "ready"}
                 <=> tokens[s].user = name[p] /\ tokens[s].state \in {"verify", "ready"}
    <3>1. CASE Same(s)
      BY <3>1 DEF Same
    <3>2. CASE Made(r, s)
      <4>1. c.user # name[p]
        BY <2>2, <2>4, <2>5, <3>2 DEF Made
      <4> QED
        BY <1>2, <3>2, <4>1 DEF Made, Absent
    <3>3. CASE LostBy(r, s)
      <4>1. s \in UserHas(c.user, users, tokens) /\ tokens'[s].user = Lost
        BY <3>3, UserHasOf DEF LostBy
      <4>2. c.user # name[p]
        BY <2>1, <2>3, <4>1
      <4> QED
        BY <1>2, <4>1, <4>2 DEF UserHas
    <3>4. CASE Touched(r, s) /\ c.pc = "confirm"
      BY <3>4 DEF Touched
    <3>5. CASE Touched(r, s) /\ c.pc # "confirm"
      <4>1. holder[s] # p
        BY <1>4, <3>5
      <4>2. ~(tokens[s].user = name[p] /\ tokens[s].state \in {"verify", "ready"})
        <5>1. s \notin UserHas(name[p], users, tokens)
          BY <2>1, <4>1 DEF HeldBy
        <5>2. tokens[s].user = name[p] => name[p] \in users
          BY <1>2 DEF TypeInv, TypeOK, Absent, Removed
        <5> QED
          BY <5>1, <5>2 DEF UserHas
      <4>3. tokens'[s].user # name[p] \/ tokens'[s].state \notin {"verify", "ready"}
        BY <1>2, <2>2, <2>4, <2>5, <3>5 DEF Touched, Removed
      <4> QED
        BY <4>2, <4>3
    <3> QED
      BY <1>1, <3>1, <3>2, <3>3, <3>4, <3>5 DEF TokensDo
  <2>7. CASE name[p] \in users' <=> name[p] \in users
    <3>1. UserHas(name[p], users', tokens') = UserHas(name[p], users, tokens)
      BY <2>6, <2>7 DEF UserHas
    <3> QED
      BY <1>6, <2>1, <3>1
  <2>8. CASE name[p] \in users' /\ name[p] \notin users
    <3>1. c.pc = "add" /\ c.to = name[p]
      BY <1>1, <2>8 DEF UsersDo
    <3> QED
      BY <2>2, <2>5, <3>1
  <2>9. CASE name[p] \notin users' /\ name[p] \in users
    <3>1. c.user = name[p]
      BY <1>1, <2>9 DEF UsersDo
    <3>2. HeldBy(p, holder) = {} /\ UserHas(name[p], users', tokens') = {}
      BY <2>9, <2>3, <3>1 DEF UserHas
    <3> QED
      BY <1>6, <3>2
  <2> QED
    BY <2>7, <2>8, <2>9
<1> QED
  BY <1>6, <1>7

\* A request for a person who is not renamed adds to and takes from both sides alike.
LEMMA NotRenamed ==
    ASSUME TypeInv, SitesInv, KnowsInv, NEW r \in Requests, Step(r), Clean(call[r]),
           call[r].op \notin {"rename", "delete"}, NEW p, p = call[r].person, p \in alive,
           UserHas(name[p], users, tokens) = HeldBy(p, holder)
    PROVE  UserHas(name[p], users', tokens') = HeldBy(p, holder')
<1> DEFINE c == call[r]  u == name[p]
<1>1. Busy(r) /\ TokensDo(r) /\ UsersDo(r) /\ CallOK(c) /\ KnowsName(c)
  BY OnServer DEF TypeInv, KnowsInv, Knows
<1>2. u = c.user /\ u = c.to /\ u \in Usernames /\ u \notin {Nobody, Lost} /\ p # Nobody
  BY <1>1, TokenAssumption DEF CallOK, KnowsName
<1>3. c.pc \notin {"deluser", "release", "reassign"}
  BY <1>1 DEF CallOK, StepsOf
<1>4. CASE users' = users
  <2>1. ASSUME NEW s \in Serials
        PROVE  u \in users /\ tokens'[s].state \in {"verify", "ready"} /\ tokens'[s].user = u <=> holder'[s] = p
    <3>1. u \in users /\ tokens[s].state \in {"verify", "ready"} /\ tokens[s].user = u <=> holder[s] = p
      BY DEF UserHas, HeldBy
    <3>2. CASE Same(s)
      BY <3>1, <3>2 DEF Same
    <3>3. CASE Made(r, s)
      <4>1. tokens'[s] = [state |-> "verify", user |-> u] /\ holder'[s] = p /\ u \in users
        BY <1>2, <3>3 DEF Made
      <4> QED
        BY <4>1
    <3>4. CASE Touched(r, s)
      <4>1. Exists(s) /\ (c.pc = "unassign" => tokens[s].user = c.user)
        BY <1>1, <3>4, TouchedUser DEF Touched
      <4> QED
        BY <1>2, <1>3, <3>1, <3>4, <4>1 DEF Touched, Removed, Exists
    <3> QED
      BY <1>1, <1>3, <3>2, <3>3, <3>4 DEF TokensDo, LostBy
  <2> QED
    BY <1>4, <2>1 DEF UserHas, HeldBy
<1>5. CASE c.pc = "add" /\ users' = users \cup {u}
  <2>1. \A s \in Serials : tokens'[s] = tokens[s] /\ holder'[s] = holder[s]
    BY <1>1, <1>5 DEF TokensDo, Same, Made, LostBy, Touched
  <2>2. UserHas(u, users', tokens') = UserHas(u, users', tokens) /\ HeldBy(p, holder') = HeldBy(p, holder)
    BY <2>1 DEF UserHas, HeldBy
  <2>3. CASE u \in users
    BY <1>5, <2>2, <2>3 DEF UserHas
  <2>4. CASE u \notin users
    <3>1. UserHas(u, users', tokens) = {}
      BY <1>2, <2>4, NewUser
    <3>2. UserHas(u, users, tokens) = {}
      BY <2>4 DEF UserHas
    <3> QED
      BY <2>2, <3>1, <3>2
  <2> QED
    BY <2>3, <2>4
<1> QED
  BY <1>1, <1>2, <1>3, <1>4, <1>5 DEF UsersDo

\* The tokens of a renaming, where us are the users, tk the tokens and hd whom they are held by.
Moves(c, us, tk, hd) ==
    /\ c.pc \in {"exists", "list"} => UserHas(c.user, us, tk) = HeldBy(c.person, hd)
    /\ c.pc \in {"release", "add", "reassign", "deluser"} => HeldBy(c.person, hd) = c.list
    /\ c.pc = "release" => UserHas(c.user, us, tk) = c.todo
    /\ c.pc = "reassign" => UserHas(c.to, us, tk) = c.list \ c.todo
    /\ c.pc = "deluser" => UserHas(c.to, us, tk) = c.list
    /\ c.pc \in {"add", "reassign", "deluser"} /\ c.to = c.user => c.list = {}

LEMMA MovingMoves ==
    \A r \in Requests : /\ Moving(call[r]) <=> Moves(call[r], users, tokens, holder)
                        /\ Moving(call[r])' <=> Moves(call'[r], users', tokens', holder')
BY UserHasOf, HasNext, HeldOf DEF Moving, Moves, Held, HeldBy, OfUser, UserHas, Exists

\* One token less, or more, at a user.
LEMMA OneMoves ==
    ASSUME NEW s, NEW state, NEW user, NEW p, Changes(s, state, user, p), NEW u
    PROVE  /\ user # u => UserHas(u, users', tokens') = UserHas(u, users, tokens) \ {s}
           /\ user = u /\ u \in users /\ state \in {"verify", "ready"} =>
                UserHas(u, users', tokens') = UserHas(u, users, tokens) \cup {s}
           /\ p = holder[s] => \A q : HeldBy(q, holder') = HeldBy(q, holder)
BY DEF Changes, UserHas, HeldBy

LEMMA RenamingMoves ==
    ASSUME TypeInv, SitesInv, KnowsInv, NEW r \in Requests, Step(r), Clean(call[r]),
           call[r].op = "rename", Moves(call[r], users, tokens, holder),
           call[r].person \notin failed', call[r].threw => call[r].person \in failed
    PROVE  /\ call'[r] # Idle => Moves(call'[r], users', tokens', holder')
           /\ call'[r] = Idle => UserHas(call[r].to, users', tokens') = HeldBy(call[r].person, holder')
<1> DEFINE c == call[r]  d == call'[r]  p == c.person
<1>1. /\ Busy(r) /\ CallOK(c) /\ KnowsName(c) /\ GoesOn(r)
      /\ KnowsTokens(c, users, tokens) /\ KnowsVerify(c, users, tokens)
  BY OnServer, StepGoesOn DEF TypeInv, KnowsInv, Knows
<1>2. /\ c.pc \in {"exists", "list", "release", "add", "reassign", "deluser"} /\ {c.user, c.to} \subseteq Usernames
      /\ c.todo \subseteq c.list /\ c.list \subseteq Serials
      /\ Nobody \notin {c.user, c.to} /\ Lost \notin {c.user, c.to}
  BY <1>1, TokenAssumption DEF CallOK, StepsOf
<1>3. p \notin failed /\ ~c.threw /\ \A done : ~Fails(r, done)
  BY <1>1 DEF GoesOn, Fails
<1>4. ASSUME NEW pc, pc # "idle", NEW list, NEW todo, Goes(r, pc, list, todo)
      PROVE  /\ d # Idle /\ d.pc = pc /\ d.person = p /\ d.user = c.user /\ d.to = c.to
             /\ d.list = list /\ d.todo = todo
  BY <1>4, OnwardFields DEF Goes
<1>5. ASSUME NEW pc, pc # "idle", NEW found, NEW list, NEW todo, NEW serials,
             Learns(r, pc, found, list, todo, serials)
      PROVE  /\ d # Idle /\ d.pc = pc /\ d.person = p /\ d.user = c.user /\ d.to = c.to
             /\ d.list = list /\ d.todo = todo
             /\ users' = users /\ tokens' = tokens /\ holder' = holder
  BY <1>5, OnwardFields DEF Learns, privacyidea
<1>6. CASE CheckUser(r)
  <2>1. c.pc = "exists" /\ CheckUserDoes(r) /\ users' = users /\ tokens' = tokens /\ holder' = holder
    BY <1>6, DoesCheckUser DEF CheckUserDoes, privacyidea
  <2>2. UserHas(c.user, users', tokens') = HeldBy(p, holder')
    BY <2>1 DEF Moves
  <2>3. CASE Stays(r, "list")
    <3>1. d # Idle /\ d.pc = "list" /\ d.person = p /\ d.user = c.user
      BY <1>4, <2>3 DEF Stays
    <3> QED
      BY <2>2, <3>1 DEF Moves
  <2>4. CASE c.to = c.user /\ Ends(r)
    BY <2>2, <2>4 DEF Ends
  <2> QED
    BY <1>3, <2>1, <2>3, <2>4 DEF CheckUserDoes
<1>7. CASE ListTokens(r)
  <2> DEFINE mine == OfUser(c.user)
  <2>1. c.pc = "list" /\ ListTokensDoes(r) /\ c.list = {}
    BY <1>1, <1>7, DoesListTokens DEF KnowsTokens
  <2>2. mine = UserHas(c.user, users, tokens) /\ mine = HeldBy(p, holder)
    BY <2>1, UserHasOf DEF Moves
  <2>3. CASE mine = {} /\ Learns(r, "add", c.found, c.list, c.todo, mine)
    <3>1. d # Idle /\ d.pc = "add" /\ d.person = p /\ d.list = {} /\ holder' = holder
      BY <1>5, <2>1, <2>3
    <3> QED
      BY <2>2, <2>3, <3>1 DEF Moves
  <2>4. CASE Learns(r, "release", c.found, mine, mine, mine)
    <3>1. /\ d # Idle /\ d.pc = "release" /\ d.person = p /\ d.user = c.user /\ d.list = mine /\ d.todo = mine
          /\ users' = users /\ tokens' = tokens /\ holder' = holder
      BY <1>5, <2>4
    <3> QED
      BY <2>2, <3>1 DEF Moves
  <2> QED
    BY <2>1, <2>3, <2>4 DEF ListTokensDoes
<1>8. CASE Release(r)
  <2>1. c.pc = "release" /\ ReleaseDoes(r)
    BY <1>8, DoesRelease
  <2>2. PICK s \in c.todo :
        Changes(s, tokens[s].state, Nobody, holder[s]) /\ OneAnswered(r, s, "add")
    BY <1>3, <2>1 DEF ReleaseDoes
  <2>3. /\ UserHas(c.user, users', tokens') = UserHas(c.user, users, tokens) \ {s}
        /\ HeldBy(p, holder') = HeldBy(p, holder)
    BY <1>2, <2>2, OneMoves
  <2>4. HeldBy(p, holder) = c.list /\ UserHas(c.user, users, tokens) = c.todo
    BY <2>1 DEF Moves
  <2>5. c.to # c.user
    BY <1>1, <2>1 DEF KnowsTokens
  <2>6. CASE Waits(r, s)
    <3>1. d # Idle /\ d.pc = "release" /\ d.person = p /\ d.user = c.user /\ d.list = c.list /\ d.todo = c.todo \ {s}
      BY <1>4, <2>1, <2>6 DEF Waits
    <3> QED
      BY <2>3, <2>4, <3>1 DEF Moves
  <2>7. CASE Goes(r, "add", c.list, {})
    <3>1. d # Idle /\ d.pc = "add" /\ d.person = p /\ d.user = c.user /\ d.to = c.to /\ d.list = c.list
      BY <1>4, <2>7
    <3> QED
      BY <2>3, <2>4, <2>5, <3>1 DEF Moves
  <2> QED
    BY <1>3, <2>2, <2>6, <2>7 DEF OneAnswered
<1>9. CASE AddUser(r)
  <2>1. c.pc = "add" /\ AddUserDoes(r) /\ tokens' = tokens /\ holder' = holder
    BY <1>9, DoesAddUser DEF AddUserDoes
  <2>2. c.to \notin users /\ HeldBy(p, holder) = c.list /\ (c.to = c.user => c.list = {})
    BY <1>1, <2>1 DEF KnowsVerify, Moves
  <2>3. UserHas(c.to, users', tokens') = {}
    BY <1>2, <2>1, <2>2, NewUser
  <2>4. CASE c.list = {} /\ Stays(r, "deluser")
    <3>1. d # Idle /\ d.pc = "deluser" /\ d.person = p /\ d.user = c.user /\ d.to = c.to /\ d.list = c.list
      BY <1>4, <2>4 DEF Stays
    <3> QED
      BY <2>1, <2>2, <2>3, <2>4, <3>1 DEF Moves
  <2>5. CASE Goes(r, "reassign", c.list, c.list)
    <3>1. /\ d # Idle /\ d.pc = "reassign" /\ d.person = p /\ d.user = c.user /\ d.to = c.to
          /\ d.list = c.list /\ d.todo = c.list
      BY <1>4, <2>5
    <3> QED
      BY <2>1, <2>2, <2>3, <3>1 DEF Moves
  <2> QED
    BY <1>3, <2>1, <2>4, <2>5 DEF AddUserDoes
<1>10. CASE Reassign(r)
  <2>1. c.pc = "reassign" /\ ReassignDoes(r)
    BY <1>10, DoesReassign
  <2>2. PICK s \in c.todo :
        /\ Changes(s, tokens[s].state, c.to, p) /\ c.to \in users
        /\ OneAnswered(r, s, "deluser")
    BY <1>3, <2>1 DEF ReassignDoes
  <2>3. /\ HeldBy(p, holder) = c.list /\ UserHas(c.to, users, tokens) = c.list \ c.todo
        /\ (c.to = c.user => c.list = {})
    BY <2>1 DEF Moves
  <2>4. p = holder[s] /\ tokens[s].state \in {"verify", "ready"}
    BY <1>2, <2>2, <2>3 DEF HeldBy, Changes, Exists
  <2>5. /\ UserHas(c.to, users', tokens') = UserHas(c.to, users, tokens) \cup {s}
        /\ HeldBy(p, holder') = HeldBy(p, holder)
    BY <2>2, <2>4, OneMoves
  <2>6. CASE Waits(r, s)
    <3>1. /\ d # Idle /\ d.pc = "reassign" /\ d.person = p /\ d.user = c.user /\ d.to = c.to
          /\ d.list = c.list /\ d.todo = c.todo \ {s}
      BY <1>4, <2>1, <2>6 DEF Waits
    <3>2. UserHas(c.to, users', tokens') = c.list \ (c.todo \ {s})
      BY <1>2, <2>2, <2>3, <2>5
    <3> QED
      BY <2>3, <2>5, <3>1, <3>2 DEF Moves
  <2>7. CASE c.todo = {s} /\ Goes(r, "deluser", c.list, {})
    <3>1. /\ d # Idle /\ d.pc = "deluser" /\ d.person = p /\ d.user = c.user /\ d.to = c.to
          /\ d.list = c.list
      BY <1>4, <2>7
    <3>2. UserHas(c.to, users', tokens') = c.list
      BY <1>2, <2>2, <2>3, <2>5, <2>7
    <3> QED
      BY <2>3, <2>5, <3>1, <3>2 DEF Moves
  <2> QED
    BY <1>3, <2>2, <2>6, <2>7 DEF OneAnswered
<1>11. CASE DeleteUser(r)
  <2>1. c.pc = "deluser" /\ DeleteUserDoes(r)
    BY <1>11, DoesDeleteUser
  <2>2. /\ users' = users \ {c.user} /\ holder' = holder /\ Ends(r)
        /\ \A s \in OfUser(c.user) : tokens'[s] = [state |-> tokens[s].state, user |-> Lost]
        /\ \A s \in Serials \ OfUser(c.user) : tokens'[s] = tokens[s]
    BY <1>3, <2>1 DEF DeleteUserDoes
  <2>3. HeldBy(p, holder) = c.list /\ UserHas(c.to, users, tokens) = c.list /\ (c.to = c.user => c.list = {})
    BY <2>1 DEF Moves
  <2>4. UserHas(c.to, users', tokens') = UserHas(c.to, users, tokens)
    <3>1. CASE c.to = c.user
      <4>1. UserHas(c.to, users', tokens') = {}
        BY <2>2, <3>1 DEF UserHas
      <4> QED
        BY <2>3, <3>1, <4>1
    <3>2. CASE c.to # c.user
      <4>1. ASSUME NEW s \in Serials
            PROVE  /\ tokens'[s].state = tokens[s].state
                   /\ tokens'[s].user = c.to <=> tokens[s].user = c.to
        <5>1. CASE s \in OfUser(c.user)
          <6>1. tokens'[s] = [state |-> tokens[s].state, user |-> Lost]
            BY <2>1, <5>1 DEF DeleteUserDoes
          <6>2. tokens'[s].state = tokens[s].state /\ tokens'[s].user = Lost
            BY <6>1
          <6>3. tokens[s].user = c.user
            BY <5>1 DEF OfUser
          <6> QED
            BY <1>2, <3>2, <6>2, <6>3
        <5>2. CASE s \notin OfUser(c.user)
          BY <2>2, <5>2
        <5> QED
          BY <5>1, <5>2
      <4> QED
        BY <2>2, <3>2, <4>1 DEF UserHas
    <3> QED
      BY <3>1, <3>2
  <2> QED
    BY <2>2, <2>3, <2>4 DEF Ends
<1>12. CASE CallFails(r)
  BY <1>3, <1>12, DoesCallFails DEF CallFailsDoes
<1> QED
  BY <1>2, <1>6, <1>7, <1>8, <1>9, <1>10, <1>11, <1>12, DoesFindOld, DoesDrop, DoesInitToken, DoesConfirm,
     DoesCheckStatus, DoesCheckOtp, DoesAssign, DoesFindSecond, DoesUnassign DEF Step

-----------------------------------------------------------------------------
LEMMA StepFollow ==
    ASSUME TypeInv, SitesInv, KnowsInv, FollowInv, NEW r \in Requests, Step(r)
    PROVE  FollowInv'
<1> DEFINE c == call[r]  d == call'[r]
<1>1. /\ Busy(r) /\ CallOK(c) /\ GoesOn(r) /\ name' = name /\ alive' = alive
      /\ \A q \in Requests : q # r => call'[q] = call[q]
  BY OnServer, StepGoesOn DEF TypeInv, Others, server
<1>2. raced \subseteq raced' /\ failed \subseteq failed'
  BY <1>1, RacesWithin DEF GoesOn, Finding
<1>3. d # Idle => d.op = c.op /\ d.person = c.person /\ d.user = c.user /\ d.to = c.to
  BY <1>1 DEF GoesOn, Continues
<1>4. ASSUME NEW q \in Requests, call'[q] # Idle, call'[q].threw
      PROVE  {call'[q].person, call'[q].user, call'[q].to} \subseteq failed'
  <2>1. CASE q # r
    BY <1>1, <1>2, <1>4, <2>1 DEF FollowInv, Busy
  <2>2. CASE q = r
    BY <1>1, <1>2, <1>3, <1>4, <2>2 DEF FollowInv, GoesOn
  <2> QED
    BY <2>1, <2>2
<1>5. ASSUME NEW p \in Persons, p \in alive', {p, name'[p]} \cap raced' = {}, p \notin failed'
      PROVE  /\ (\A q \in Requests : ~(call'[q] # Idle /\ call'[q].op = "rename" /\ call'[q].person = p))
                  => UserHas(name'[p], users', tokens') = HeldBy(p, holder')
             /\ \A q \in Requests : call'[q] # Idle /\ call'[q].op = "rename" /\ call'[q].person = p
                  => Moves(call'[q], users', tokens', holder')
  <2>1. Sound(p) /\ p \in alive /\ p \notin raced /\ p \notin failed
    BY <1>1, <1>2, <1>5 DEF Sound
  <2>2. /\ Renaming(p) = {} => UserHas(name[p], users, tokens) = HeldBy(p, holder)
        /\ \A q \in Renaming(p) : Moves(call[q], users, tokens, holder)
    BY <2>1, UserHasOf, HeldOf, MovingMoves DEF FollowInv, Renaming
  <2>3. ASSUME NEW q \in Requests, q # r, Busy(q), call[q].op = "rename", call[q].person = p
        PROVE  c.person # p /\ Clean(call[q])
    <3>1. p \in call[q].sites
      BY <2>3 DEF TypeInv, CallOK
    <3>2. ASSUME c.person = p PROVE FALSE
      <4>1. p \in c.sites
        BY <1>1, <3>2 DEF CallOK
      <4> QED
        BY <1>1, <2>1, <2>3, <3>1, <4>1 DEF SitesInv
    <3> QED
      BY <2>1, <2>3, <3>1, <3>2 DEF SitesInv
  <2>4. CASE c.person = p
    <3>1. Clean(c)
      BY <1>1, <2>1, <2>4 DEF SitesInv, CallOK
    <3>2. KnowsName(c)
      BY <1>1, <3>1 DEF KnowsInv, Knows
    <3>3. c.op # "delete" /\ name[p] = c.to
      BY <2>1, <2>4, <3>2 DEF KnowsName
    <3>4. \A q \in Requests : call'[q] # Idle /\ call'[q].op = "rename" /\ call'[q].person = p =>
            q = r /\ c.op = "rename"
      BY <1>1, <1>3, <2>3, <2>4 DEF Busy
    <3>5. CASE c.op = "rename"
      <4>1. Moves(c, users, tokens, holder)
        BY <1>1, <2>2, <2>4, <3>5 DEF Renaming
      <4>2. c.threw => c.person \in failed
        BY <1>1 DEF FollowInv
      <4>3. /\ d # Idle => Moves(d, users', tokens', holder')
            /\ d = Idle => UserHas(c.to, users', tokens') = HeldBy(c.person, holder')
        BY <1>5, <2>4, <3>1, <3>5, <4>1, <4>2, RenamingMoves
      <4> HIDE DEF d
      <4>4. d # Idle => d.op = "rename" /\ d.person = p
        BY <1>3, <2>4, <3>5
      <4> QED
        BY <1>1, <2>4, <3>3, <3>4, <4>3, <4>4 DEF d
    <3>6. CASE c.op # "rename"
      <4>1. Renaming(p) = {}
        BY <2>3, <2>4, <3>6 DEF Renaming
      <4>2. UserHas(name[p], users', tokens') = HeldBy(p, holder')
        BY <2>1, <2>2, <2>4, <3>1, <3>3, <3>6, <4>1, NotRenamed
      <4> QED
        BY <1>1, <3>4, <3>6, <4>2
    <3> QED
      BY <3>5, <3>6
  <2>5. CASE c.person # p
    <3>1. /\ HeldBy(p, holder') = HeldBy(p, holder)
          /\ Renaming(p) = {} => UserHas(name[p], users', tokens') = HeldBy(p, holder')
      BY <2>1, <2>5, NotOfOthers
    <3>2. \A q \in Requests : call'[q] # Idle /\ call'[q].person = p => q # r /\ Busy(q) /\ call'[q] = call[q]
      BY <1>1, <1>3, <2>5 DEF Busy
    <3>3. \A q \in Renaming(p) : q \in Requests /\ q # r /\ call'[q] = call[q] /\ Busy(q)
            /\ call[q].op = "rename" /\ call[q].person = p
      BY <1>1, <2>5 DEF Renaming
    <3>4. ASSUME NEW q \in Renaming(p) PROVE Moves(call[q], users', tokens', holder')
      <4> DEFINE e == call[q]
      <4>1. Moves(e, users, tokens, holder) /\ e.person = p
        BY <2>2, <3>3
      <4>2. UserHas(e.user, users', tokens') = UserHas(e.user, users, tokens)
            /\ UserHas(e.to, users', tokens') = UserHas(e.to, users, tokens)
        BY <2>3, <3>3, Untouched
      <4> HIDE DEF e
      <4> QED
        BY <3>1, <4>1, <4>2 DEF Moves, e
    <3>5. (\A q \in Requests : ~(call'[q] # Idle /\ call'[q].op = "rename" /\ call'[q].person = p)) => Renaming(p) = {}
      BY <3>3 DEF Busy
    <3>6. ASSUME NEW q \in Requests, call'[q] # Idle, call'[q].op = "rename", call'[q].person = p
          PROVE  Moves(call'[q], users', tokens', holder')
      <4>1. q \in Renaming(p) /\ call'[q] = call[q]
        BY <3>2, <3>6 DEF Renaming
      <4> QED
        BY <3>4, <4>1
    <3> QED
      BY <1>1, <3>1, <3>5, <3>6
  <2> QED
    BY <2>4, <2>5
<1> QED
  BY <1>4, <1>5, HasNext, HeldOf, MovingMoves DEF FollowInv, Sound, Renaming, Busy

\* What FollowInv says of the next state.
LEMMA FollowNext ==
    ASSUME \A q \in Requests : call'[q] # Idle /\ call'[q].threw =>
             {call'[q].person, call'[q].user, call'[q].to} \subseteq failed',
           \A p \in Persons : p \in alive' /\ {p, name'[p]} \cap raced' = {} /\ p \notin failed' =>
             /\ (\A q \in Requests : ~(call'[q] # Idle /\ call'[q].op = "rename" /\ call'[q].person = p))
                  => UserHas(name'[p], users', tokens') = HeldBy(p, holder')
             /\ \A q \in Requests : call'[q] # Idle /\ call'[q].op = "rename" /\ call'[q].person = p
                  => Moves(call'[q], users', tokens', holder')
    PROVE  FollowInv'
BY HasNext, HeldOf, MovingMoves DEF FollowInv, Sound, Renaming, Busy

\* What it says of this one.
LEMMA FollowNow ==
    ASSUME TypeInv, FollowInv, NEW p \in Persons, Sound(p)
    PROVE  /\ Renaming(p) = {} => UserHas(name[p], users, tokens) = HeldBy(p, holder)
           /\ \A q \in Renaming(p) : Moves(call[q], users, tokens, holder)
BY UserHasOf, HeldOf, MovingMoves DEF FollowInv, Renaming

LEMMA AskFollow ==
    ASSUME TypeInv, SitesInv, FollowInv, NEW r \in Requests, AskDoes(r)
    PROVE  FollowInv'
<1> DEFINE d == call'[r]  x == d.person
<1>1. /\ ~Busy(r) /\ d # Idle /\ Races(r, d.sites) /\ {x, name[x]} \subseteq d.sites
      /\ \A q \in Requests : q # r => call'[q] = call[q]
      /\ d.op \in {"init", "assign", "verify", "reset", "rename", "delete"} /\ d.pc = FirstStep(d.op)
      /\ x \in alive /\ x \in Persons /\ d.user = name[x]
      /\ d.to = d.user \/ d.op = "rename"
      /\ d.threw = FALSE
      /\ name'[x] = d.to /\ \A p \in Persons : p # x => name'[p] = name[p]
      /\ alive' = IF d.op = "delete" THEN alive \ {x} ELSE alive
      /\ users' = users /\ tokens' = tokens /\ holder' = holder /\ failed' = failed
  BY DEF AskDoes, privacyidea, TypeInv, TypeOK, StartSites, IsRequest, Idle
<1>2. raced \subseteq raced'
  BY <1>1, RacesWithin
<1> HIDE DEF d
<1>3. ASSUME NEW q \in Requests, call'[q] # Idle, call'[q].threw
      PROVE  {call'[q].person, call'[q].user, call'[q].to} \subseteq failed'
  <2>1. q # r
    BY <1>1, <1>3 DEF d
  <2> QED
    BY <1>1, <1>3, <2>1 DEF FollowInv, Busy
<1>4. ASSUME NEW p \in Persons, p \in alive', {p, name'[p]} \cap raced' = {}, p \notin failed'
      PROVE  /\ (\A q \in Requests : ~(call'[q] # Idle /\ call'[q].op = "rename" /\ call'[q].person = p))
                  => UserHas(name'[p], users', tokens') = HeldBy(p, holder')
             /\ \A q \in Requests : call'[q] # Idle /\ call'[q].op = "rename" /\ call'[q].person = p
                  => Moves(call'[q], users', tokens', holder')
  <2>1. CASE ~(p = x /\ d.op = "rename")
    <3>1. Sound(p) /\ name'[p] = name[p]
      BY <1>1, <1>2, <1>4, <2>1 DEF Sound
    <3>2. \A q \in Requests : call'[q] # Idle /\ call'[q].op = "rename" /\ call'[q].person = p
             => q # r /\ q \in Renaming(p) /\ call'[q] = call[q]
      BY <1>1, <2>1 DEF Renaming, Busy, d
    <3>3. \A q \in Renaming(p) : q \in Requests /\ call'[q] # Idle /\ call'[q].op = "rename" /\ call'[q].person = p
      BY <1>1 DEF Renaming, Busy
    <3> QED
      BY <1>1, <3>1, <3>2, <3>3, FollowNow
  <2>2. CASE p = x /\ d.op = "rename"
    <3>1. Near(r, d.sites) = {} /\ d.sites \cap raced = {}
      BY <1>1, <1>4, <2>2 DEF Races
    <3>2. Sound(p)
      BY <1>1, <1>4, <2>2, <3>1 DEF Sound
    <3>3. ASSUME NEW q \in Requests, q # r, Busy(q), call[q].person = p PROVE FALSE
      <4>1. p \in call[q].sites
        BY <3>3 DEF TypeInv, CallOK
      <4>2. q \in Near(r, d.sites)
        BY <1>1, <2>2, <3>3, <4>1 DEF Near
      <4> QED
        BY <3>1, <4>2
    <3>4. Renaming(p) = {}
      BY <1>1, <3>3 DEF Renaming
    <3>5. UserHas(name[p], users, tokens) = HeldBy(p, holder)
      BY <3>2, <3>4, FollowNow
    <3>6. d.pc = "exists" /\ d.user = name[p] /\ d.person = p
      BY <1>1, <2>2 DEF FirstStep
    <3>7. Moves(d, users', tokens', holder')
      BY <1>1, <3>5, <3>6 DEF Moves
    <3>8. \A q \in Requests : call'[q] # Idle /\ call'[q].person = p => q = r
      BY <1>1, <3>3 DEF Busy
    <3> QED
      BY <1>1, <2>2, <3>6, <3>7, <3>8 DEF d
  <2> QED
    BY <2>1, <2>2
<1> QED
  BY <1>3, <1>4, FollowNext

LEMMA CreateFollow == ASSUME TypeInv, FollowInv, CreatePerson PROVE FollowInv'
<1>1. PICK x \in Persons \ alive, u \in Usernames :
        /\ name[x] = Nobody /\ FreeName(u)
        /\ name' = [name EXCEPT ![x] = u]
        /\ alive' = alive \cup {x}
        /\ failed' = IF u \in users THEN failed \cup {x} ELSE failed
        /\ UNCHANGED <<users, tokens, holder, call, raced>>
  BY DEF CreatePerson, privacyidea
<1>2. name'[x] = u /\ \A p \in Persons : p # x => name'[p] = name[p]
  BY <1>1 DEF TypeInv, TypeOK
<1>3. \A q \in Requests : Busy(q) => call[q].person # x
  BY <1>1 DEF TypeInv
<1>4. HeldBy(x, holder) = {}
  BY <1>1, TokenAssumption DEF TypeInv, HeldBy
<1>5. ASSUME NEW p \in Persons, p \in alive', {p, name'[p]} \cap raced' = {}, p \notin failed'
      PROVE  /\ (\A q \in Requests : ~(call'[q] # Idle /\ call'[q].op = "rename" /\ call'[q].person = p))
                  => UserHas(name'[p], users', tokens') = HeldBy(p, holder')
             /\ \A q \in Requests : call'[q] # Idle /\ call'[q].op = "rename" /\ call'[q].person = p
                  => Moves(call'[q], users', tokens', holder')
  <2>1. CASE p = x
    <3>1. u \notin users
      BY <1>1, <1>5, <2>1
    <3>2. UserHas(u, users, tokens) = {}
      BY <3>1 DEF UserHas
    <3> QED
      BY <1>1, <1>2, <1>3, <1>4, <2>1, <3>2 DEF Busy
  <2>2. CASE p # x
    <3>1. Sound(p) /\ name'[p] = name[p]
      BY <1>1, <1>2, <1>5, <2>2 DEF Sound
    <3>2. \A q \in Requests : call[q] # Idle /\ call[q].op = "rename" /\ call[q].person = p <=> q \in Renaming(p)
      BY DEF Renaming, Busy
    <3> QED
      BY <1>1, <3>1, <3>2, FollowNow DEF Renaming
  <2> QED
    BY <2>1, <2>2
<1>6. \A q \in Requests : call'[q] # Idle /\ call'[q].threw =>
        {call'[q].person, call'[q].user, call'[q].to} \subseteq failed'
  BY <1>1 DEF FollowInv, Busy
<1> QED
  BY <1>5, <1>6, FollowNext

LEMMA NextFollow == TypeInv /\ SitesInv /\ KnowsInv /\ FollowInv /\ [Next]_vars => FollowInv'
<1> SUFFICES ASSUME TypeInv, SitesInv, KnowsInv, FollowInv, [Next]_vars PROVE FollowInv'
  OBVIOUS
<1>1. ASSUME NEW r \in Requests, Ask(r) PROVE FollowInv'
  BY <1>1, DoesAsk, AskFollow
<1>2. ASSUME NEW r \in Requests, Step(r) PROVE FollowInv'
  BY <1>2, StepFollow
<1>3. CASE UNCHANGED vars
  <2>1. users' = users /\ tokens' = tokens /\ call' = call /\ raced' = raced /\ alive' = alive
        /\ name' = name /\ holder' = holder /\ failed' = failed
    BY <1>3 DEF vars, server, privacyidea, history
  <2>2. \A q \in Requests : Moving(call[q])' <=> Moving(call[q])
    BY <2>1, MovingMoves
  <2>3. \A p : /\ Sound(p)' = Sound(p) /\ Renaming(p)' = Renaming(p)
               /\ OfUser(name[p])' = OfUser(name[p]) /\ Held(p)' = Held(p)
    BY <2>1 DEF Sound, Renaming, OfUser, Held, Exists, Busy
  <2> QED
    BY <2>1, <2>2, <2>3 DEF FollowInv, Busy, Renaming
<1> QED
  BY <1>1, <1>2, <1>3, CreateFollow DEF Next

LEMMA InitFollow == Init => FollowInv
<1> SUFFICES ASSUME Init PROVE FollowInv
  OBVIOUS
<1>1. \A q \in Requests : ~Busy(q)
  BY DEF Init, Busy
<1>2. ASSUME NEW p \in alive PROVE OfUser(name[p]) = Held(p)
  <2>1. /\ p \in Persons /\ name[p] # Nobody /\ p # Nobody
        /\ \A q \in alive : name[q] = name[p] => q = p
        /\ users \subseteq {name[q] : q \in alive}
    BY <1>2, TokenAssumption DEF Init
  <2>2. ASSUME NEW s \in Serials PROVE s \in OfUser(name[p]) <=> holder[s] = p
    <3>1. tokens[s] \in {Absent} \cup [state : {"verify", "ready"}, user : users]
                              \cup [state : {"ready"}, user : {Nobody}]
      BY DEF Init
    <3>2. holder[s] = IF tokens[s].user = Nobody THEN Nobody
                      ELSE CHOOSE q \in alive : name[q] = tokens[s].user
      BY DEF Init
    <3>3. CASE tokens[s].user = Nobody
      BY <2>1, <3>2, <3>3 DEF OfUser
    <3>4. CASE tokens[s].user # Nobody
      <4>1. tokens[s].user \in users /\ tokens[s].state \in {"verify", "ready"}
        BY <3>1, <3>4 DEF Absent
      <4>2. PICK q \in alive : name[q] = tokens[s].user
        BY <2>1, <4>1
      <4>3. holder[s] \in alive /\ name[holder[s]] = tokens[s].user
        BY <3>2, <3>4, <4>2
      <4> QED
        BY <2>1, <4>1, <4>3 DEF OfUser, Exists
    <3> QED
      BY <3>3, <3>4
  <2> QED
    BY <2>2 DEF OfUser, Held
<1> QED
  BY <1>1, <1>2 DEF FollowInv, Sound, Renaming

\* The tokens of a person are at the one user or, while updateUsername() unassigns
\* and assigns them one by one, in the list that it goes through.
THEOREM FollowInvariant == Spec => [](TypeInv /\ SitesInv /\ KnowsInv /\ FollowInv)
BY InitFollow, KnowsInvariant, NextFollow, PTL DEF Spec

\* Whoever was renamed by updateUsername(), once or often, logs in with just the
\* tokens made for or assigned to them, unless requests overlapped, a call failed or
\* PrivacyIDEA still had a user of that name.
THEOREM TokensAlwaysFollow == Spec => []TokensFollow
<1>1. TypeInv /\ FollowInv => TokensFollow
  <2> SUFFICES ASSUME TypeInv, FollowInv, NEW p \in alive, AtRest(p), {p, name[p]} \cap raced = {}, p \notin failed
               PROVE  {s \in Serials : Exists(s) /\ tokens[s].user = name[p]} = {s \in Serials : holder[s] = p}
    BY DEF TokensFollow
  <2>1. p \in Persons /\ name[p] \in Usernames /\ Sound(p)
    BY TokenAssumption DEF TypeInv, TypeOK, Sound
  <2>2. Renaming(p) = {}
    BY DEF Renaming, AtRest, TypeInv, CallOK
  <2>3. OfUser(name[p]) = Held(p)
    BY <2>1, <2>2 DEF FollowInv
  <2>4. \A s \in Serials : Exists(s) /\ tokens[s].user = name[p] => name[p] \in users
    BY <2>1, TokenAssumption DEF TypeInv, TypeOK, Absent, Removed, Exists
  <2> QED
    BY <2>3, <2>4 DEF OfUser, Held
<1> QED
  BY <1>1, FollowInvariant, PTL

-----------------------------------------------------------------------------
(* What is left of a person.                                               *)

\* Nothing is left of a user, or only a token to verify.
Gone(u, us, tk) ==
    u \notin us \/ (UserHas(u, us, tk) # {} /\ UserHas(u, us, tk) \ ToCheck(u, us, tk) = {})

LEMMA GoneNow == \A u : u \notin users \/ (OfUser(u) # {} /\ Verified(u) = {}) <=> Gone(u, users, tokens)
BY UserHasOf DEF Gone, Verified

LEMMA GoneNext ==
    \A u : (u \notin users \/ (OfUser(u) # {} /\ Verified(u) = {}))' <=> Gone(u, users', tokens')
BY HasNext DEF Gone, Verified, ToVerify, ToCheck, UserHas, OfUser, Exists

\* A request changes nothing of a user that is not its own.
LEMMA NotItsUser ==
    ASSUME TypeInv, SitesInv, KnowsInv, NEW r \in Requests, Step(r),
           NEW u \in Usernames, u \notin {call[r].user, call[r].to}, u \notin raced
    PROVE  /\ u \in users' <=> u \in users
           /\ UserHas(u, users', tokens') = UserHas(u, users, tokens)
           /\ ToCheck(u, users', tokens') = ToCheck(u, users, tokens)
<1> DEFINE c == call[r]
<1>1. Busy(r) /\ TokensDo(r) /\ UsersDo(r) /\ CallOK(c)
  BY OnServer DEF TypeInv
<1>2. u \notin {c.user, c.to, Nobody, Lost}
  BY TokenAssumption
<1>3. u \in users' <=> u \in users
  BY <1>1, <1>2 DEF UsersDo
<1>4. ASSUME NEW s \in Serials
      PROVE  /\ tokens[s].user = u => Same(s)
             /\ tokens'[s].user = u => tokens[s].user = u
  <2>1. CASE Same(s)
    BY <2>1 DEF Same
  <2>2. CASE Made(r, s)
    BY <1>2, <2>2 DEF Made, Absent
  <2>3. CASE LostBy(r, s)
    BY <1>2, <2>3 DEF LostBy, OfUser
  <2>4. CASE Touched(r, s)
    <3>1. s \in c.sites
      BY <2>4 DEF Touched
    <3>2. tokens[s].user # u
      <4>1. CASE Clean(c)
        BY <1>1, <1>2, <2>4, <4>1, TouchedUser DEF Touched
      <4>2. CASE ~Clean(c)
        <5>1. s \in raced
          BY <1>1, <3>1, <4>2 DEF SitesInv
        <5> QED
          BY <1>2, <5>1 DEF SitesInv, Closed
      <4> QED
        BY <4>1, <4>2
    <3>3. tokens'[s].user \in {tokens[s].user, c.user, c.to, Nobody}
      BY <2>4 DEF Touched, Removed
    <3> QED
      BY <1>2, <3>2, <3>3
  <2> QED
    BY <1>1, <2>1, <2>2, <2>3, <2>4 DEF TokensDo
<1>5. UserHas(u, users', tokens') = UserHas(u, users, tokens)
  BY <1>3, <1>4 DEF UserHas, Same
<1>6. ToCheck(u, users', tokens') = ToCheck(u, users, tokens)
  BY <1>4, <1>5 DEF ToCheck, UserHas, Same
<1> QED
  BY <1>3, <1>5, <1>6

\* A request that gives up a user and ends leaves nothing of it.
LEMMA EndsGone ==
    ASSUME TypeInv, KnowsInv, FollowInv, NEW r \in Requests, Step(r), Clean(call[r]), call'[r] = Idle,
           NEW u, u \in {call[r].user, call[r].to}, u \notin failed', FreeName(u)
    PROVE  Gone(u, users', tokens')
<1> DEFINE c == call[r]
<1>1. Busy(r) /\ CallOK(c) /\ GoesOn(r) /\ KnowsName(c) /\ KnowsTokens(c, users, tokens)
  BY OnServer, StepGoesOn DEF TypeInv, KnowsInv, Knows
<1>2. c.op \in {"rename", "delete"} /\ u = c.user /\ (c.op = "rename" => c.to # c.user)
  BY <1>1 DEF KnowsName, FreeName, CallOK
<1>3. ~c.threw /\ \A done : ~Fails(r, done)
  BY <1>1 DEF GoesOn, Fails, FollowInv
<1>4. /\ c.op = "rename" => c.pc \in {"exists", "list", "release", "add", "reassign", "deluser"}
      /\ c.op = "delete" => c.pc \in {"list", "second", "unassign", "deluser"}
  BY <1>1 DEF CallOK, StepsOf
<1>5. \A pc, list, todo : ~Goes(r, pc, list, todo)
  BY DEF Goes, Onward, Idle
<1>6. \A pc, found, list, todo, serials : ~Learns(r, pc, found, list, todo, serials)
  BY DEF Learns, Onward, Idle
<1>7. \A s, pc : ~OneAnswered(r, s, pc)
  BY <1>3, <1>5 DEF OneAnswered, Waits
<1>8. CASE CheckUser(r)
  <2>1. c.pc = "exists" /\ CheckUserDoes(r)
    BY <1>8, DoesCheckUser
  <2> QED
    BY <1>2, <1>3, <1>4, <1>5, <2>1 DEF CheckUserDoes, Stays
<1>9. CASE AddUser(r)
  BY <1>2, <1>3, <1>4, <1>5, <1>9, DoesAddUser DEF AddUserDoes, Stays
<1>10. CASE ListTokens(r)
  BY <1>6, <1>10, DoesListTokens DEF ListTokensDoes
<1>11. CASE FindSecond(r)
  <2>1. c.pc = "second" /\ Verified(c.user) = {} /\ users' = users /\ tokens' = tokens
    BY <1>6, <1>11, DoesFindSecond DEF FindSecondDoes, privacyidea
  <2>2. UserHas(u, users, tokens) # {}
    BY <1>1, <1>2, <1>4, <2>1 DEF KnowsTokens
  <2> QED
    BY <1>2, <2>1, <2>2, UserHasOf DEF Gone, Verified
<1>12. CASE Unassign(r)
  BY <1>2, <1>3, <1>4, <1>5, <1>12, DoesUnassign DEF UnassignDoes, Stays
<1>13. CASE Release(r)
  BY <1>3, <1>7, <1>13, DoesRelease DEF ReleaseDoes
<1>14. CASE Reassign(r)
  BY <1>3, <1>7, <1>14, DoesReassign DEF ReassignDoes
<1>15. CASE DeleteUser(r)
  <2>1. users' = users \ {u}
    BY <1>2, <1>15, DoesDeleteUser DEF DeleteUserDoes
  <2> QED
    BY <2>1 DEF Gone
<1>16. CASE CallFails(r)
  BY <1>3, <1>16, DoesCallFails DEF CallFailsDoes
<1> QED
  BY <1>2, <1>4, <1>8, <1>9, <1>10, <1>11, <1>12, <1>13, <1>14, <1>15, <1>16, DoesFindOld, DoesDrop,
     DoesInitToken, DoesConfirm, DoesCheckStatus, DoesCheckOtp, DoesAssign DEF Step

LEMMA NextLeft == TypeInv /\ SitesInv /\ KnowsInv /\ FollowInv /\ LeftInv /\ [Next]_vars => LeftInv'
<1> SUFFICES ASSUME TypeInv, SitesInv, KnowsInv, FollowInv, LeftInv, [Next]_vars PROVE LeftInv'
  OBVIOUS
<1>1. ASSUME NEW u \in Usernames \ (raced \cup failed), FreeName(u),
             \A q \in Requests : Busy(q) => u \notin {call[q].user, call[q].to}
      PROVE  Gone(u, users, tokens)
  BY <1>1, GoneNow DEF LeftInv
<1> SUFFICES ASSUME NEW u \in Usernames \ (raced' \cup failed'), \A p \in alive' : name'[p] # u,
                    \A q \in Requests : call'[q] # Idle => u \notin {call'[q].user, call'[q].to}
             PROVE  Gone(u, users', tokens')
  BY GoneNext DEF LeftInv, FreeName, Busy
<1>2. ASSUME NEW r \in Requests, AskDoes(r) PROVE Gone(u, users', tokens')
  <2> DEFINE d == call'[r]  x == d.person
  <2>1. /\ ~Busy(r) /\ d # Idle /\ Races(r, d.sites) /\ \A q \in Requests : q # r => call'[q] = call[q]
        /\ x \in alive /\ d.user = name[x] /\ failed' = failed /\ users' = users /\ tokens' = tokens
        /\ name' = [name EXCEPT ![x] = d.to]
        /\ alive' = IF d.op = "delete" THEN alive \ {x} ELSE alive
    BY <1>2 DEF AskDoes, privacyidea, IsRequest, Idle
  <2>2. u \notin raced /\ u \notin failed
    BY <2>1, RacesWithin
  <2>3. FreeName(u)
    <3> SUFFICES ASSUME NEW p \in alive PROVE name[p] # u
      BY DEF FreeName
    <3>1. CASE p = x
      BY <2>1, <3>1
    <3>2. CASE p # x
      <4>1. p \in alive' /\ name'[p] = name[p]
        BY <2>1, <3>2 DEF TypeInv, TypeOK
      <4> QED
        BY <4>1
    <3> QED
      BY <3>1, <3>2
  <2>4. \A q \in Requests : Busy(q) => u \notin {call[q].user, call[q].to}
    BY <2>1 DEF Busy
  <2> QED
    BY <1>1, <2>1, <2>2, <2>3, <2>4
<1>3. ASSUME NEW r \in Requests, Step(r) PROVE Gone(u, users', tokens')
  <2> DEFINE c == call[r]
  <2>1. /\ Busy(r) /\ CallOK(c) /\ GoesOn(r) /\ name' = name /\ alive' = alive
        /\ \A q \in Requests : q # r => call'[q] = call[q]
    BY <1>3, OnServer, StepGoesOn DEF TypeInv, Others, server
  <2>2. raced \subseteq raced' /\ failed \subseteq failed'
    BY <2>1, RacesWithin DEF GoesOn, Finding
  <2>3. FreeName(u)
    BY <2>1 DEF FreeName
  <2>4. CASE u \in {c.user, c.to}
    <3>1. call'[r] = Idle
      BY <2>1, <2>4 DEF GoesOn, Continues
    <3>2. Clean(c)
      BY <2>1, <2>2, <2>4 DEF SitesInv, CallOK
    <3> QED
      BY <1>3, <2>3, <2>4, <3>1, <3>2, EndsGone
  <2>5. CASE u \notin {c.user, c.to}
    <3>1. \A q \in Requests : Busy(q) => u \notin {call[q].user, call[q].to}
      BY <2>1, <2>5 DEF Busy
    <3>2. Gone(u, users, tokens)
      BY <1>1, <2>2, <2>3, <3>1
    <3>3. /\ u \in users' <=> u \in users
          /\ UserHas(u, users', tokens') = UserHas(u, users, tokens)
          /\ ToCheck(u, users', tokens') = ToCheck(u, users, tokens)
      BY <1>3, <2>2, <2>5, NotItsUser
    <3> QED
      BY <3>2, <3>3 DEF Gone
  <2> QED
    BY <2>4, <2>5
<1>4. CASE CreatePerson
  <2>1. /\ \A p \in alive : p \in alive' /\ name'[p] = name[p]
        /\ failed \subseteq failed' /\ UNCHANGED <<users, tokens, call, raced>>
    BY <1>4 DEF CreatePerson, privacyidea, TypeInv, TypeOK
  <2> QED
    BY <1>1, <2>1 DEF FreeName, Busy
<1>5. CASE UNCHANGED vars
  BY <1>1, <1>5 DEF vars, server, privacyidea, history, FreeName, Busy
<1> QED
  BY <1>2, <1>3, <1>4, <1>5, DoesAsk DEF Next

\* handlePersonDeletedEvent() and updateUsername() leave no user behind under a
\* username that nobody has any more, but for one with only a token to verify, for
\* whom getTwoAuthState() finds nothing to unassign, unless requests overlapped or a
\* call failed.
THEOREM DeletedGone == Spec => []DeletedLeaveNothing
<1>1. Init => LeftInv
  BY DEF Init, LeftInv, FreeName
<1>2. TypeInv /\ LeftInv => DeletedLeaveNothing
  BY DEF LeftInv, DeletedLeaveNothing, TypeInv, CallOK
<1> QED
  BY <1>1, <1>2, FollowInvariant, NextLeft, PTL DEF Spec
=============================================================================
