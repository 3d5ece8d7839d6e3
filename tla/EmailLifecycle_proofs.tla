------------------------- MODULE EmailLifecycle_proofs -------------------------
(***************************************************************************)
(* Proofs about the addresses of teachers, for any number of persons,      *)
(* Kontexte, events and failures.                                          *)
(***************************************************************************)
EXTENDS EmailLifecycle, FiniteSetTheorems, WellFoundedInduction, TLAPS

-----------------------------------------------------------------------------
(* Numbers and bags.                                                       *)

\* A non-empty set of natural numbers has a least element.
LEMMA LeastNumber == ASSUME NEW S, S \subseteq Nat, S # {} PROVE \E x \in S : \A y \in S : x <= y
<1> DEFINE R == {ss \in Nat \X Nat : ss[1] < ss[2]}
<1>1. IsWellFoundedOn(R, Nat)
  BY NatLessThanWellFounded DEF OpToRel
<1>2. PICK x \in S : \A y \in S : ~(<<y, x>> \in R)
  <2> HIDE DEF R
  <2>1. \E x \in S : \A y \in S : ~(<<y, x>> \in R)
    BY <1>1, WFMin
  <2> QED
    BY <2>1
<1>3. \A y \in S : x <= y
  <2> SUFFICES ASSUME NEW y \in S, y < x PROVE FALSE
    BY x \in Nat
  <2> DEFINE ss == <<y, x>>
  <2>1. ss \in Nat \X Nat /\ ss[1] = y /\ ss[2] = x
    OBVIOUS
  <2>2. ss \in R
    BY <2>1
  <2> QED
    BY <1>2, <2>2
<1> QED
  BY <1>3

\* Of finitely many values one is the least.
Leastless(n, f, S) ==
    /\ f \in [1 .. n -> Int] /\ S \subseteq 1 .. n /\ S # {}
    /\ \A i \in S : \E j \in S : f[j] < f[i]
LEMMA LeastOfRange ==
    ASSUME NEW n \in Nat, NEW f \in [1 .. n -> Int], NEW S, S \subseteq 1 .. n, S # {}
    PROVE  \E i \in S : \A j \in S : f[i] <= f[j]
<1> DEFINE Bad == {m \in Nat : \E g, T : Leastless(m, g, T)}
<1>1. SUFFICES ASSUME ~ \E i \in S : \A j \in S : f[i] <= f[j] PROVE FALSE
  OBVIOUS
<1>2. \A i \in S : f[i] \in Int
  OBVIOUS
<1>3. \A i \in S : \E j \in S : f[j] < f[i]
  BY <1>1, <1>2
<1>4. n \in Bad
  BY <1>3 DEF Leastless
<1>5. PICK m \in Bad : \A k \in Bad : m <= k
  <2>1. Bad \subseteq Nat /\ Bad # {}
    BY <1>4
  <2> HIDE DEF Bad
  <2> QED
    BY <2>1, LeastNumber
<1>6. m \in Nat
  OBVIOUS
<1>7. PICK g, T : Leastless(m, g, T)
  OBVIOUS
<1> HIDE DEF Bad
<1>8. g \in [1 .. m -> Int] /\ T \subseteq 1 .. m /\ T # {} /\ \A i \in T : \E j \in T : g[j] < g[i]
  BY <1>7 DEF Leastless
<1>9. m # 0
  <2> SUFFICES ASSUME m = 0 PROVE FALSE
    OBVIOUS
  <2>1. 1 .. m = {}
    OBVIOUS
  <2> QED
    BY <1>8, <2>1
<1>10. \A U : \A h \in [1 .. m - 1 -> Int] : ~ Leastless(m - 1, h, U)
  <2>1. m - 1 \in Nat /\ m - 1 < m
    BY <1>6, <1>9
  <2>2. m - 1 \notin Bad
    BY <1>5, <2>1, <1>6
  <2> QED
    BY <2>1, <2>2 DEF Bad
<1> DEFINE h == [i \in 1 .. m - 1 |-> g[i]]
           U == T \ {m}
<1>11. \A i \in 1 .. m : g[i] \in Int
  BY <1>8
<1>12. h \in [1 .. m - 1 -> Int] /\ U \subseteq 1 .. m - 1 /\ \A i \in U : h[i] = g[i]
  <2>1. U \subseteq 1 .. m - 1
    <3> SUFFICES ASSUME NEW u \in U PROVE u \in 1 .. m - 1
      OBVIOUS
    <3>1. u \in 1 .. m /\ u # m
      BY <1>8
    <3> QED
      BY <3>1, <1>6
  <2>2. \A i \in 1 .. m - 1 : i \in 1 .. m
    BY <1>6
  <2> QED
    BY <2>1, <2>2, <1>11
<1> HIDE DEF h
<1>13. U # {}
  <2> SUFFICES ASSUME U = {} PROVE FALSE
    OBVIOUS
  <2>1. T = {m}
    BY <1>8
  <2> QED
    BY <2>1, <1>8, <1>11
<1>14. PICK i \in U : \A j \in U : ~(h[j] < h[i])
  BY <1>10, <1>12, <1>13 DEF Leastless
<1>15. \A j \in U : g[i] <= g[j]
  <2> TAKE j \in U
  <2> QED
    BY <1>14, <1>12, <1>11, <1>8
<1>16. i \in T /\ T \subseteq U \cup {m} /\ g[i] \in Int
  BY <1>8, <1>11
<1>17. m \in T /\ g[m] < g[i]
  <2>1. PICK j \in T : g[j] < g[i]
    BY <1>8, <1>16
  <2>2. g[j] \in Int
    BY <1>8, <1>11
  <2>3. j \notin U
    BY <1>15, <1>16, <2>1, <2>2
  <2>4. j = m
    BY <1>16, <2>3
  <2> QED
    BY <2>1, <2>4
<1>18. PICK j \in T : g[j] < g[m]
  BY <1>8, <1>17
<1>19. g[m] \in Int /\ g[j] \in Int
  BY <1>8, <1>11, <1>17
<1>20. j \in U
  BY <1>18, <1>19, <1>16
<1> QED
  BY <1>15, <1>16, <1>17, <1>18, <1>19, <1>20

\* A handler has gone on: what is under way now.
LEMMA BagChanged ==
    ASSUME IsABag(handlers), NEW h \in BagToSet(handlers), NEW next, Become(h, next)
    PROVE  /\ IsABag(handlers')
           /\ BagToSet(handlers') \subseteq BagToSet(handlers) \cup next
           /\ next \subseteq BagToSet(handlers')
           /\ \A g \in BagToSet(handlers) : g # h => g \in BagToSet(handlers')
           /\ \A g \in BagToSet(handlers) : g \notin next /\ g # h => handlers'[g] = handlers[g]
           /\ handlers[h] = 1 /\ h \notin next => h \notin BagToSet(handlers')
           /\ \A g \in next : g \notin BagToSet(handlers) \/ (g = h /\ handlers[h] = 1) => handlers'[g] = 1
<1> DEFINE less == handlers (-) SetToBag({h})
           B == [e \in DOMAIN handlers |-> IF e = h THEN handlers[e] - 1 ELSE handlers[e]]
           D == {e \in DOMAIN handlers : B[e] > 0}
<1>1. \A e \in DOMAIN handlers : handlers[e] \in Nat /\ handlers[e] > 0
  BY DEF IsABag
<1>2. SetToBag({h}) = [e \in {h} |-> 1]
  BY DEF SetToBag
<1>3. less = [e \in D |-> B[e]]
  BY <1>2 DEF (-)
<1>4. DOMAIN less = D /\ (\A e \in D : less[e] = B[e])
  BY <1>3
<1>5. h \in DOMAIN handlers
  BY DEF BagToSet
<1>6. /\ \A e \in D : less[e] \in Nat /\ less[e] > 0 /\ less[e] = IF e = h THEN handlers[e] - 1 ELSE handlers[e]
      /\ \A e \in DOMAIN handlers : e # h => e \in D
      /\ handlers[h] = 1 => h \notin D
      /\ D \subseteq DOMAIN handlers
  BY <1>1, <1>4, <1>5
<1> HIDE DEF less, D, B
<1>7. SetToBag(next) = [e \in next |-> 1]
  BY DEF SetToBag
<1>8. handlers' = less (+) SetToBag(next)
  BY DEF Become, less
<1>9. handlers' = [e \in D \cup next |-> (IF e \in D THEN less[e] ELSE 0) + (IF e \in next THEN 1 ELSE 0)]
  BY <1>8, <1>7, <1>4 DEF (+)
<1>10. DOMAIN handlers' = D \cup next
  BY <1>9
<1>11. \A e \in D \cup next : handlers'[e] = (IF e \in D THEN less[e] ELSE 0) + (IF e \in next THEN 1 ELSE 0)
  BY <1>9
<1>12. \A e \in D \cup next : handlers'[e] \in Nat /\ handlers'[e] > 0
  BY <1>11, <1>6
<1>13. IsABag(handlers')
  <2>1. handlers' = [e \in DOMAIN handlers' |-> handlers'[e]]
    BY <1>9
  <2> QED
    BY <2>1, <1>10, <1>12 DEF IsABag
<1> QED
  BY <1>13, <1>10, <1>11, <1>6, <1>5 DEF BagToSet

\* Events have come: what is under way now.
LEMMA BagBegun ==
    ASSUME IsABag(handlers), NEW next, handlers' = handlers (+) SetToBag(next)
    PROVE  /\ IsABag(handlers')
           /\ BagToSet(handlers') = BagToSet(handlers) \cup next
           /\ handlers = EmptyBag => \A g \in next : handlers'[g] = 1
<1>1. \A e \in DOMAIN handlers : handlers[e] \in Nat /\ handlers[e] > 0
  BY DEF IsABag
<1>2. SetToBag(next) = [e \in next |-> 1]
  BY DEF SetToBag
<1>3. handlers' = [e \in DOMAIN handlers \cup next |->
                     (IF e \in DOMAIN handlers THEN handlers[e] ELSE 0) + (IF e \in next THEN 1 ELSE 0)]
  BY <1>2 DEF (+)
<1>4. DOMAIN handlers' = DOMAIN handlers \cup next
  BY <1>3
<1>5. \A e \in DOMAIN handlers \cup next :
         handlers'[e] = (IF e \in DOMAIN handlers THEN handlers[e] ELSE 0) + (IF e \in next THEN 1 ELSE 0)
  BY <1>3
<1>6. \A e \in DOMAIN handlers \cup next : handlers'[e] \in Nat /\ handlers'[e] > 0
  BY <1>1, <1>5
<1>7. IsABag(handlers')
  <2>1. handlers' = [e \in DOMAIN handlers' |-> handlers'[e]]
    BY <1>3
  <2> QED
    BY <2>1, <1>4, <1>6 DEF IsABag
<1>8. handlers = EmptyBag => DOMAIN handlers = {}
  <2>1. DOMAIN EmptyBag = {}
    BY DEF EmptyBag, SetToBag
  <2> QED
    BY <2>1
<1>9. handlers = EmptyBag => \A g \in next : handlers'[g] = 1
  BY <1>8, <1>5
<1> QED
  BY <1>7, <1>4, <1>9 DEF BagToSet

LEMMA NobodyQuiet == IsABag(EmptyBag) /\ BagToSet(EmptyBag) = {}
BY DEF IsABag, BagToSet, EmptyBag, SetToBag

LEMMA QuietIfEmpty == ASSUME IsABag(handlers), BagToSet(handlers) = {} PROVE Quiet
BY DEF IsABag, BagToSet, EmptyBag, SetToBag, Quiet

-----------------------------------------------------------------------------
(* Types.                                                                  *)

Address == Nat \X Nat
Row == [id : Nat, address : Address, owner : Persons \cup {Nobody}, status : AddressStatus, ox : Nat]
Fields == {"kind", "p", "pc", "user", "school", "removed", "todo", "row", "ox", "mail", "seen", "after"}

\* The number in a row that failed is that of the rows before it.
Numbered(address) == address[1] = 0 => address[2] < Len(emails)

DbOK ==
    /\ db \in [Persons -> [name : Nat \ {0}, kontexte : SUBSET Kontexte, gone : BOOLEAN]]
    /\ kc \in [Persons -> Int]
    /\ \A p \in Persons : db[p].name <= 1 + events /\ kc[p] \in -1 .. db[p].name
EmailsOK ==
    /\ emails \in Seq(Row) /\ updated \in [DOMAIN emails -> Nat \ {0}]
    /\ \A i \in DOMAIN emails :
           /\ emails[i].id = i /\ emails[i].ox <= Len(ox) /\ Numbered(emails[i].address)
           /\ \A j \in DOMAIN emails : i # j => emails[i].address # emails[j].address
OxUser == [username : (Persons \cup {Nobody}) \X Nat, primary : Address, groups : SUBSET oxGroups]
OxOK == ox \in Seq(OxUser)
CountsOK ==
    /\ failures \in 0 .. MaxFailures /\ overlaps \in 0 .. MaxOverlaps /\ events \in 0 .. MaxEvents

RowOK(r) ==
    /\ r \in Row /\ r.id <= Len(emails) /\ r.ox <= Len(ox)
    /\ r.owner \in Persons /\ Numbered(r.address)

\* Where the handlers of an event stand, and what they have at hand there.
PcOK(h) ==
    \/ h.kind = "person" /\ h.pc \in {"start", "disable", "school", "address", "check", "write"}
    \/ h.kind = "renamed" /\ h.pc \in {"start", "retire", "address", "check", "write"}
    \/ h.kind = "create" /\ h.pc \in {"start", "exists", "user", "check", "write", "failed",
                                      "group", "createGroup", "add"}
    \/ h.kind \in {"change", "changeDisabled"} /\ h.pc \in {"start", "user", "failed"}
    \/ h.kind = "exists" /\ h.pc \in {"start", "group", "createGroup", "add"}
    \/ h.kind = "metadata" /\ h.pc \in {"start", "check", "write"}
    \/ h.kind = "disabledOx" /\ h.pc \in {"start", "write"}
    \/ h.kind = "oxDeleted" /\ h.pc \in {"start", "leave", "free"}
    \/ h.kind \in {"oxUpdated", "oxDisabled"} /\ h.pc \in {"start", "leave"}
    \/ h.kind \in {"kcChanged", "kcDisabled", "deleted", "deleteRow"} /\ h.pc = "start"
Listing == {"person", "oxUpdated", "oxDisabled", "oxDeleted"}
WithRow(h) ==
    \/ h.pc \in {"retire", "check", "write", "exists", "failed"}
    \/ h.kind \in {"create", "change", "changeDisabled"} /\ h.pc # "start"
HandlerOK(h) ==
    /\ DOMAIN h = Fields /\ PcOK(h)
    /\ h.p \in Persons /\ h.user \in Nat \ {0} /\ h.removed \subseteq Kontexte
    /\ h.ox \in Nat /\ h.ox <= Len(ox)
    /\ h.mail \in Address /\ (h.mail # <<0, 0>> => Numbered(h.mail))
    /\ h.seen \in [DOMAIN h.seen -> Nat] /\ DOMAIN h.seen \subseteq DOMAIN emails
    /\ WithRow(h) => RowOK(h.row)
    /\ h.kind = "person" /\ h.pc = "disable" => \A r \in h.todo : RowOK(r)
    /\ h.kind \notin Listing => h.todo = {}
    /\ h.pc = "add" => h.school \in oxGroups
HandlersOK == IsABag(handlers) /\ \A h \in BagToSet(handlers) : HandlerOK(h)

EmailTypeInv == CountsOK /\ DbOK /\ EmailsOK /\ OxOK /\ HandlersOK

LEMMA TypeInvImplies == ASSUME EmailAssumption, EmailTypeInv PROVE EmailTypeOK
<1>1. \A i \in DOMAIN emails : emails[i] \in Row
  BY DEF EmailTypeInv, EmailsOK
<1>2. \A i \in DOMAIN ox : ox[i] \in OxUser
  BY DEF EmailTypeInv, OxOK
<1>3. Len(ox) \in Nat
  BY DEF EmailTypeInv, OxOK
<1>4. \A p \in Persons : db[p] \in [name : Nat \ {0}, kontexte : SUBSET Kontexte, gone : BOOLEAN]
  BY DEF EmailTypeInv, DbOK
<1>5. \A p \in Persons : db[p].name \in 1 .. 1 + events /\ db[p].kontexte \subseteq Kontexte
  BY <1>4 DEF EmailTypeInv, DbOK, CountsOK, EmailAssumption
<1>6. \A i \in DOMAIN emails :
           /\ emails[i].status \in AddressStatus /\ emails[i].owner \in Persons \cup {Nobody}
           /\ emails[i].id = i /\ emails[i].ox \in 0 .. Len(ox)
           /\ \A j \in DOMAIN emails : i # j => emails[i].address # emails[j].address
  BY <1>1, <1>3 DEF EmailTypeInv, EmailsOK, Row
<1>7. \A i \in DOMAIN ox : ox[i].groups \subseteq oxGroups
  BY <1>2 DEF OxUser
<1>8. \A p \in Persons : kc[p] \in -1 .. db[p].name
  BY DEF EmailTypeInv, DbOK
<1> QED
  BY <1>5, <1>6, <1>7, <1>8 DEF EmailTypeOK, EmailTypeInv, CountsOK, HandlersOK

-----------------------------------------------------------------------------
(* The operators of the model.                                             *)

LEMMA NewestIsMember ==
    ASSUME EmailsOK, NEW ids, ids \subseteq DOMAIN emails, ids # {}
    PROVE  Newest(ids) \in ids /\ \A j \in ids : updated[j] <= updated[Newest(ids)]
<1> DEFINE n == Len(emails)
           f == [i \in 1 .. n |-> -updated[i]]
<1>1. n \in Nat /\ DOMAIN emails = 1 .. n
  BY DEF EmailsOK
<1>2. \A i \in 1 .. n : updated[i] \in Nat
  BY <1>1 DEF EmailsOK
<1>3. f \in [1 .. n -> Int] /\ \A i \in 1 .. n : f[i] = -updated[i]
  BY <1>2
<1> HIDE DEF f, n
<1>4. PICK i \in ids : \A j \in ids : f[i] <= f[j]
  BY <1>1, <1>3, LeastOfRange
<1>5. \A j \in ids : updated[j] <= updated[i]
  BY <1>1, <1>2, <1>3, <1>4
<1> QED
  BY <1>4, <1>5 DEF Newest

LEMMA FirstIsMember ==
    ASSUME EmailsOK, NEW h, HandlerOK(h), NEW ids, ids \subseteq DOMAIN emails, ids # {}
    PROVE  First(h, ids) \in ids /\ \A j \in ids : Place(h, First(h, ids)) <= Place(h, j)
<1> DEFINE n == Len(emails)
           f == [i \in 1 .. n |-> Place(h, i)]
<1>1. n \in Nat /\ DOMAIN emails = 1 .. n
  BY DEF EmailsOK
<1>2. \A i \in 1 .. n : Place(h, i) \in Int
  BY <1>1 DEF HandlerOK, Place
<1>3. f \in [1 .. n -> Int] /\ \A i \in 1 .. n : f[i] = Place(h, i)
  BY <1>2
<1> HIDE DEF f, n
<1>4. PICK i \in ids : \A j \in ids : f[i] <= f[j]
  BY <1>1, <1>3, LeastOfRange
<1>5. \A j \in ids : Place(h, i) <= Place(h, j)
  BY <1>1, <1>3, <1>4
<1> QED
  BY <1>4, <1>5 DEF First

\* What is written is the newest.
LEMMA AfterIsLatest ==
    ASSUME EmailsOK, NEW ids, ids \subseteq DOMAIN emails
    PROVE  After(ids) \in Nat \ {0} /\ \A i \in ids : updated[i] < After(ids)
<1> DEFINE S == {0} \cup {updated[i] : i \in ids}
<1>1. \A i \in ids : updated[i] \in Nat
  BY DEF EmailsOK
<1>2. S \subseteq Nat
  BY <1>1
<1>3. \E m \in S : \A x \in S : x <= m
  <2>1. CASE ids = {}
    <3>1. S = {0}
      BY <2>1
    <3> QED
      BY <3>1
  <2>2. CASE ids # {}
    <3>1. Newest(ids) \in ids /\ \A j \in ids : updated[j] <= updated[Newest(ids)]
      BY <2>2, NewestIsMember
    <3>2. updated[Newest(ids)] \in S
      BY <3>1
    <3> QED
      BY <3>1, <3>2, <1>1
  <2> QED
    BY <2>1, <2>2
<1>4. Max(S) \in S /\ \A x \in S : x <= Max(S)
  <2> HIDE DEF S
  <2> QED
    BY <1>3, <1>2 DEF Max
<1>5. \A i \in ids : updated[i] \in S
  OBVIOUS
<1>6. After(ids) = 1 + Max(S)
  BY DEF After
<1> HIDE DEF S
<1>7. Max(S) \in Nat
  BY <1>2, <1>4
<1> QED
  BY <1>4, <1>5, <1>6, <1>7, <1>1

\* There are fewer rows than numbers, so one is free.
LEMMA FreeAddressIsFree ==
    ASSUME EmailsOK, NEW name \in Nat \ {0}
    PROVE  /\ FreeAddress(name) \in Address /\ FreeAddress(name)[1] = name
           /\ \A i \in DOMAIN emails : emails[i].address # FreeAddress(name)
<1> DEFINE n == Len(emails)
           free == {m \in 0 .. n : \A i \in DOMAIN emails : emails[i].address # <<name, m>>}
<1>1. n \in Nat /\ DOMAIN emails = 1 .. n
  BY DEF EmailsOK
<1>2. free # {}
  <2> SUFFICES ASSUME \A m \in 0 .. n : \E i \in 1 .. n : emails[i].address = <<name, m>> PROVE FALSE
    BY <1>1
  <2> DEFINE holder == [m \in 0 .. n |-> CHOOSE i \in 1 .. n : emails[i].address = <<name, m>>]
  <2>1. \A m \in 0 .. n : holder[m] \in 1 .. n /\ emails[holder[m]].address = <<name, m>>
    OBVIOUS
  <2>2. holder \in [0 .. n -> 1 .. n]
    BY <2>1
  <2>3. \A m, k \in 0 .. n : holder[m] = holder[k] => m = k
    <3> SUFFICES ASSUME NEW m \in 0 .. n, NEW k \in 0 .. n, holder[m] = holder[k] PROVE m = k
      OBVIOUS
    <3>1. <<name, m>> = <<name, k>>
      BY <2>1
    <3> QED
      BY <3>1
  <2> HIDE DEF holder
  <2>4. IsFiniteSet(0 .. n) /\ IsFiniteSet(1 .. n) /\ Cardinality(0 .. n) = n + 1
    BY <1>1, FS_Interval
  <2>5. Cardinality(1 .. n) = n
    <3>1. Cardinality(1 .. n) = IF 1 > n THEN 0 ELSE n - 1 + 1
      BY <1>1, FS_Interval
    <3> QED
      BY <3>1, <1>1
  <2> HIDE DEF n
  <2>6. holder \in Injection(0 .. n, 1 .. n)
    BY <2>2, <2>3 DEF Injection, IsInjective
  <2>7. Cardinality(0 .. n) <= Cardinality(1 .. n)
    BY <2>4, <2>6, FS_Injection
  <2> QED
    BY <1>1, <2>4, <2>5, <2>7
<1>3. free \subseteq Nat
  BY <1>1
<1>4. Min(free) \in free
  <2> HIDE DEF free
  <2>1. \E x \in free : \A y \in free : x <= y
    BY <1>2, <1>3, LeastNumber
  <2> QED
    BY <2>1 DEF Min
<1>5. FreeAddress(name) = <<name, Min(free)>>
  BY DEF FreeAddress
<1>6. PICK m : m = Min(free)
  OBVIOUS
<1>7. m \in Nat /\ m \in free
  BY <1>3, <1>4, <1>6
<1>8. FreeAddress(name) = <<name, m>> /\ \A i \in DOMAIN emails : emails[i].address # <<name, m>>
  BY <1>5, <1>6, <1>7
<1>9. <<name, m>> \in Address /\ <<name, m>>[1] = name
  BY <1>7 DEF Address
<1> QED
  BY <1>8, <1>9


LEMMA EmailInitTyped == ASSUME EmailAssumption, EmailInit PROVE EmailTypeInv
<1>1. PICK has \in [Persons -> SUBSET Kontexte] :
         LET served == {p \in Persons : ServingOf(has[p]) # {}}
             numbers == 1 .. Cardinality(served)
         IN  \E person \in Bijection(numbers, served) :
                 /\ db = [p \in Persons |-> [name |-> 1, kontexte |-> has[p], gone |-> FALSE]]
                 /\ emails = [i \in numbers |->
                        [id |-> i, address |-> <<1, i - 1>>, owner |-> person[i],
                         status |-> "ENABLED", ox |-> i]]
                 /\ updated = [i \in numbers |-> i]
                 /\ ox = [i \in numbers |->
                        [username |-> <<person[i], 1>>, primary |-> <<1, i - 1>>,
                         groups |-> {k.school : k \in ServingOf(has[person[i]])}]]
                 /\ kc = [p \in Persons |-> IF p \in served THEN 1 ELSE 0]
  BY Zenon DEF EmailInit
<1> DEFINE served == {p \in Persons : ServingOf(has[p]) # {}}
           n == Cardinality(served)
<1>2. PICK person \in Bijection(1 .. n, served) :
                 /\ db = [p \in Persons |-> [name |-> 1, kontexte |-> has[p], gone |-> FALSE]]
                 /\ emails = [i \in 1 .. n |->
                        [id |-> i, address |-> <<1, i - 1>>, owner |-> person[i],
                         status |-> "ENABLED", ox |-> i]]
                 /\ updated = [i \in 1 .. n |-> i]
                 /\ ox = [i \in 1 .. n |->
                        [username |-> <<person[i], 1>>, primary |-> <<1, i - 1>>,
                         groups |-> {k.school : k \in ServingOf(has[person[i]])}]]
                 /\ kc = [p \in Persons |-> IF p \in served THEN 1 ELSE 0]
  BY <1>1, Zenon
<1>3. n \in Nat
  <2>1. IsFiniteSet(served)
    BY FS_Subset DEF EmailAssumption
  <2> HIDE DEF served
  <2> QED
    BY <2>1, FS_CardinalityType
<1>4. \A i \in 1 .. n : person[i] \in Persons
  BY DEF Bijection, Injection
<1> HIDE DEF n
<1>5. oxGroups \in {g \in SUBSET OxSchools : \A i \in DOMAIN ox : ox[i].groups \subseteq g}
  BY DEF EmailInit
<1>6. events = 0 /\ failures = 0 /\ overlaps = 0 /\ handlers = EmptyBag
  BY DEF EmailInit
<1>7. CountsOK
  BY <1>6 DEF CountsOK, EmailAssumption
<1>8. DbOK
  <2>1. db \in [Persons -> [name : Nat \ {0}, kontexte : SUBSET Kontexte, gone : BOOLEAN]]
    BY <1>2
  <2>2. \A p \in Persons : kc[p] \in {0, 1} /\ db[p].name = 1
    BY <1>2
  <2>3. kc \in [Persons -> Int]
    BY <1>2
  <2> QED
    BY <2>1, <2>2, <2>3, <1>6 DEF DbOK
<1>9. DOMAIN emails = 1 .. n /\ Len(emails) = n /\ DOMAIN ox = 1 .. n /\ Len(ox) = n
  BY <1>2, <1>3
<1>10. \A i \in 1 .. n : /\ emails[i].id = i /\ emails[i].ox = i /\ emails[i].address = <<1, i - 1>>
                        /\ emails[i].owner \in Persons /\ emails[i].status = "ENABLED"
                        /\ i - 1 \in Nat
  BY <1>2, <1>3, <1>4
<1>11. EmailsOK
  <2>1. \A i \in 1 .. n : emails[i] \in Row
    <3> SUFFICES ASSUME NEW i \in 1 .. n PROVE emails[i] \in Row
      OBVIOUS
    <3>1. emails[i] = [id |-> i, address |-> <<1, i - 1>>, owner |-> person[i],
                       status |-> "ENABLED", ox |-> i]
      BY <1>2
    <3>2. i \in Nat /\ <<1, i - 1>> \in Address /\ person[i] \in Persons
      BY <1>3, <1>4, <1>10 DEF Address
    <3> QED
      BY <3>1, <3>2 DEF Row, AddressStatus
  <2>2. emails \in Seq(Row)
    <3>1. emails \in [1 .. n -> Row]
      BY <1>2, <2>1
    <3> QED
      BY <3>1, <1>3
  <2>3. updated \in [DOMAIN emails -> Nat \ {0}]
    BY <1>2, <1>3, <1>9
  <2>4. \A i \in 1 .. n : emails[i].id = i /\ emails[i].ox <= Len(ox) /\ Numbered(emails[i].address)
    BY <1>3, <1>9, <1>10 DEF Numbered
  <2>5. \A i, j \in 1 .. n : i # j => emails[i].address # emails[j].address
    <3> SUFFICES ASSUME NEW i \in 1 .. n, NEW j \in 1 .. n, emails[i].address = emails[j].address PROVE i = j
      OBVIOUS
    <3>1. <<1, i - 1>> = <<1, j - 1>>
      BY <1>10
    <3>2. i - 1 = j - 1
      BY <3>1
    <3> QED
      BY <3>2, <1>3
  <2> QED
    BY <2>2, <2>3, <2>4, <2>5, <1>9 DEF EmailsOK
<1>12. OxOK
  <2>1. \A i \in 1 .. n : ox[i] \in OxUser
    <3> SUFFICES ASSUME NEW i \in 1 .. n PROVE ox[i] \in OxUser
      OBVIOUS
    <3>1. ox[i] = [username |-> <<person[i], 1>>, primary |-> <<1, i - 1>>,
                   groups |-> {k.school : k \in ServingOf(has[person[i]])}]
      BY <1>2
    <3>2. ox[i].groups \in SUBSET oxGroups
      BY <1>5, <1>9
    <3>3. <<person[i], 1>> \in (Persons \cup {Nobody}) \X Nat /\ <<1, i - 1>> \in Address
      BY <1>4, <1>10 DEF Address
    <3> QED
      BY <3>1, <3>2, <3>3 DEF OxUser
  <2>2. ox \in [1 .. n -> OxUser]
    BY <1>2, <2>1
  <2> QED
    BY <2>2, <1>3 DEF OxOK
<1>13. HandlersOK
  BY <1>6, NobodyQuiet DEF HandlersOK
<1> QED
  BY <1>7, <1>8, <1>11, <1>12, <1>13 DEF EmailTypeInv

\* The tables and systems only grow.
Grown == Len(emails) <= Len(emails') /\ Len(ox) <= Len(ox') /\ oxGroups \subseteq oxGroups'

LEMMA StaysOK ==
    ASSUME EmailsOK, EmailsOK', OxOK, OxOK', Grown, NEW h, HandlerOK(h) PROVE HandlerOK(h)'
<1>1. Len(emails) \in Nat /\ Len(emails') \in Nat /\ Len(ox) \in Nat /\ Len(ox') \in Nat
  BY DEF EmailsOK, OxOK
<1>2. DOMAIN emails = 1 .. Len(emails) /\ DOMAIN emails' = 1 .. Len(emails')
  BY DEF EmailsOK
<1>3. DOMAIN emails \subseteq DOMAIN emails'
  BY <1>1, <1>2 DEF Grown
<1>4. \A a \in Address : Numbered(a) => Numbered(a)'
  BY <1>1 DEF Grown, Numbered, Address
<1>5. \A r : RowOK(r) => RowOK(r)'
  <2> SUFFICES ASSUME NEW r, RowOK(r) PROVE RowOK(r)'
    OBVIOUS
  <2>1. r \in Row /\ r.id \in Nat /\ r.ox \in Nat /\ r.address \in Address
    BY DEF RowOK, Row
  <2> QED
    BY <2>1, <1>1, <1>4 DEF RowOK, Grown, Row
<1>6. h.ox <= Len(ox')
  BY <1>1 DEF HandlerOK, Grown
<1>7. h.mail # <<0, 0>> => Numbered(h.mail)'
  BY <1>4 DEF HandlerOK
<1>8. DOMAIN h.seen \subseteq DOMAIN emails'
  BY <1>3 DEF HandlerOK
<1>9. WithRow(h) => RowOK(h.row)'
  BY <1>5 DEF HandlerOK
<1>10. h.kind = "person" /\ h.pc = "disable" => \A r \in h.todo : RowOK(r)'
  BY <1>5 DEF HandlerOK
<1>11. h.pc = "add" => h.school \in oxGroups'
  BY DEF HandlerOK, Grown
<1> QED
  BY <1>6, <1>7, <1>8, <1>9, <1>10, <1>11 DEF HandlerOK, PcOK, WithRow

LEMMA HandlerGoesOn ==
    ASSUME EmailTypeInv, NEW h \in BagToSet(handlers), NEW next, Become(h, next),
           CountsOK', DbOK', EmailsOK', OxOK', Grown, \A g \in next : HandlerOK(g)'
    PROVE  EmailTypeInv'
<1>1. IsABag(handlers') /\ BagToSet(handlers') \subseteq BagToSet(handlers) \cup next
  BY BagChanged DEF EmailTypeInv, HandlersOK
<1>2. \A g \in BagToSet(handlers) : HandlerOK(g)'
  BY StaysOK DEF EmailTypeInv, HandlersOK
<1>3. HandlersOK'
  BY <1>1, <1>2 DEF HandlersOK
<1> QED
  BY <1>3 DEF EmailTypeInv

\* A step that changes only the handlers.
LEMMA OnlyGoesOn ==
    ASSUME EmailTypeInv, NEW h \in BagToSet(handlers), NEW next, Become(h, next),
           CountsOK', \A g \in next : HandlerOK(g),
           UNCHANGED <<db, serving, events, overlaps, table, OxData, kc>>
    PROVE  EmailTypeInv'
<1>1. UNCHANGED <<db, events, emails, updated, ox, oxGroups, kc>>
  BY DEF table, OxData
<1>2. DbOK' /\ EmailsOK' /\ OxOK'
  BY <1>1 DEF EmailTypeInv, DbOK, EmailsOK, OxOK, OxUser, Numbered
<1>3. Grown
  BY <1>1 DEF EmailTypeInv, EmailsOK, OxOK, Grown
<1>4. \A g \in next : HandlerOK(g)'
  BY <1>2, <1>3, StaysOK DEF EmailTypeInv
<1> QED
  BY <1>2, <1>3, <1>4, HandlerGoesOn

LEMMA CountsKept ==
    ASSUME EmailAssumption, CountsOK, UNCHANGED <<events, overlaps>>, Fine \/ Trouble PROVE CountsOK'
BY DEF CountsOK, Fine, Trouble, EmailAssumption


-----------------------------------------------------------------------------
(* Every step leaves what is typed typed.                                  *)

LEMMA RowTyped ==
    ASSUME EmailsOK, NEW i \in DOMAIN emails, emails[i].owner \in Persons, NEW status \in AddressStatus
    PROVE  RowOK(emails[i]) /\ RowOK([emails[i] EXCEPT !.status = status])
<1>1. emails[i] \in Row /\ i \in Nat /\ i <= Len(emails) /\ Len(emails) \in Nat
  BY DEF EmailsOK
<1>2. RowOK(emails[i])
  BY <1>1 DEF EmailsOK, RowOK
<1> QED
  BY <1>1, <1>2 DEF RowOK, Row

LEMMA OwnRows ==
    ASSUME EmailsOK, NEW p, NEW status
    PROVE  /\ RowsOf(p) \subseteq DOMAIN emails /\ WithStatus(p, status) \subseteq RowsOf(p)
           /\ \A i \in RowsOf(p) : emails[i].owner = p
           /\ \A i \in WithStatus(p, status) : emails[i].status = status
BY DEF RowsOf, WithStatus

LEMMA SubTyped ==
    ASSUME NEW h, HandlerOK(h),
           NEW kind \in {"exists", "create", "change", "changeDisabled", "kcChanged", "metadata",
                         "disabledOx", "oxDisabled", "kcDisabled"}
    PROVE  HandlerOK(Sub(h, kind))
<1> DEFINE g == Sub(h, kind)
<1>1. /\ DOMAIN g = Fields /\ g.kind = kind /\ g.p = h.p /\ g.pc = "start" /\ g.user = h.user
      /\ g.removed = {} /\ g.todo = {} /\ g.ox = h.ox /\ g.mail = h.mail /\ g.seen = h.seen
  BY DEF HandlerOK, Fields, Sub, Handler
<1> HIDE DEF g
<1>2. PcOK(g) /\ ~WithRow(g)
  BY <1>1 DEF PcOK, WithRow
<1>3. HandlerOK(g)
  BY <1>1, <1>2 DEF HandlerOK
<1> QED
  BY <1>3 DEF g

LEMMA NextSchoolTyped ==
    ASSUME NEW h, HandlerOK(h), h.kind \in {"person", "renamed", "create", "metadata", "disabledOx"},
           NEW g \in NextSchool(h)
    PROVE  HandlerOK(g) /\ g.kind = "person"
<1>1. g = [h EXCEPT !.pc = "school", !.row = NoRow] /\ h.todo # {}
  BY DEF NextSchool
<1>2. /\ DOMAIN g = Fields /\ g.kind = h.kind /\ g.p = h.p /\ g.pc = "school" /\ g.user = h.user
      /\ g.removed = h.removed /\ g.todo = h.todo /\ g.ox = h.ox /\ g.mail = h.mail /\ g.seen = h.seen
  BY <1>1 DEF HandlerOK, Fields
<1>3. h.kind = "person"
  BY <1>1 DEF HandlerOK, Listing
<1>4. PcOK(g) /\ ~WithRow(g)
  BY <1>2, <1>3 DEF PcOK, WithRow
<1> QED
  BY <1>2, <1>3, <1>4 DEF HandlerOK, Listing

\* What a handler of a type invariant's state is.
LEMMA Typed ==
    ASSUME EmailTypeInv, NEW h \in BagToSet(handlers)
    PROVE  HandlerOK(h) /\ h.p \in Persons /\ EmailsOK /\ OxOK /\ CountsOK /\ DbOK
           /\ db[h.p].name \in Nat \ {0} /\ db[h.p].kontexte \subseteq Kontexte
<1>1. HandlerOK(h) /\ h.p \in Persons
  BY DEF EmailTypeInv, HandlersOK, HandlerOK
<1>2. db[h.p] \in [name : Nat \ {0}, kontexte : SUBSET Kontexte, gone : BOOLEAN]
  BY <1>1 DEF EmailTypeInv, DbOK
<1> QED
  BY <1>1, <1>2 DEF EmailTypeInv

LEMMA HandlePersonTyped ==
    ASSUME EmailAssumption, EmailTypeInv, NEW h \in BagToSet(handlers), HandlePerson(h)
    PROVE  EmailTypeInv'
<1>1. HandlerOK(h) /\ EmailsOK /\ CountsOK'
  BY Typed, CountsKept DEF HandlePerson
<1>2. h.kind = "person" /\ h.pc = "start" /\ h.p \in Persons
  BY <1>1 DEF HandlePerson, HandlerOK
<1>3. ASSUME NEW rest, Become(h, {[h EXCEPT !.pc = "school", !.removed = {}, !.todo = rest]})
      PROVE  EmailTypeInv'
  <2> DEFINE g == [h EXCEPT !.pc = "school", !.removed = {}, !.todo = rest]
  <2>1. /\ DOMAIN g = Fields /\ g.kind = h.kind /\ g.p = h.p /\ g.pc = "school" /\ g.user = h.user
        /\ g.removed = {} /\ g.ox = h.ox /\ g.mail = h.mail /\ g.seen = h.seen
    BY <1>1 DEF HandlerOK, Fields
  <2> HIDE DEF g
  <2>2. HandlerOK(g)
    BY <2>1, <1>1, <1>2 DEF HandlerOK, PcOK, WithRow, Listing
  <2>3. Become(h, {g})
    BY <1>3 DEF g
  <2> QED
    BY <2>2, <2>3, <1>1, OnlyGoesOn DEF HandlePerson
<1>4. CASE End(h)
  BY <1>4, <1>1, OnlyGoesOn DEF HandlePerson, End
<1> DEFINE left == {i \in RowsOf(h.p) : emails[i].status # "DISABLED"}
           rows == {[emails[i] EXCEPT !.status = "DISABLED"] : i \in left}
<1>5. CASE Become(h, {[h EXCEPT !.pc = "disable", !.removed = {}, !.todo = rows]})
  <2> DEFINE g == [h EXCEPT !.pc = "disable", !.removed = {}, !.todo = rows]
  <2>1. \A r \in rows : RowOK(r)
    <3> SUFFICES ASSUME NEW i \in left PROVE RowOK([emails[i] EXCEPT !.status = "DISABLED"])
      OBVIOUS
    <3>1. i \in DOMAIN emails /\ emails[i].owner \in Persons
      BY <1>1, <1>2, OwnRows
    <3>2. "DISABLED" \in AddressStatus
      BY DEF AddressStatus
    <3> QED
      BY <3>1, <3>2, <1>1, RowTyped
  <2> HIDE DEF rows
  <2>2. /\ DOMAIN g = Fields /\ g.kind = h.kind /\ g.p = h.p /\ g.pc = "disable" /\ g.user = h.user
        /\ g.removed = {} /\ g.ox = h.ox /\ g.mail = h.mail /\ g.seen = h.seen /\ g.todo = rows
    BY <1>1 DEF HandlerOK, Fields
  <2> HIDE DEF g
  <2>3. HandlerOK(g)
    BY <2>1, <2>2, <1>1, <1>2 DEF HandlerOK, PcOK, WithRow, Listing
  <2>4. Become(h, {g})
    BY <1>5 DEF g
  <2> QED
    BY <2>3, <2>4, <1>1, OnlyGoesOn DEF HandlePerson
<1> QED
  BY <1>3, <1>4, <1>5 DEF HandlePerson

LEMMA CreateOrEnableTyped ==
    ASSUME EmailAssumption, EmailTypeInv, NEW h \in BagToSet(handlers), CreateOrEnable(h)
    PROVE  EmailTypeInv'
<1>1. HandlerOK(h) /\ EmailsOK /\ CountsOK' /\ UNCHANGED <<Outside, table, OxData, kc>>
  BY Typed, CountsKept DEF CreateOrEnable, Outside
<1>2. PICK s \in h.todo :
        LET g == [h EXCEPT !.todo = @ \ {s}, !.school = s, !.after = "generated"]
            rows == RowsOf(h.p)
            usable == {i \in rows : emails[i].status \in {"ENABLED", "DISABLED"}}
            newest == emails[Newest(usable)]
            told == IF rows = {} THEN {} ELSE {Sub(g, "exists")}
        IN  /\ h.kind = "person" /\ h.pc = "school"
            /\ \/ /\ db[h.p].gone
                  /\ Become(h, NextSchool(g))
               \/ /\ ~db[h.p].gone /\ usable = {}
                  /\ Become(h, told \cup {[g EXCEPT !.pc = "address"]})
               \/ /\ ~db[h.p].gone /\ usable # {} /\ newest.status = "ENABLED"
                  /\ Become(h, told \cup NextSchool(g))
               \/ /\ ~db[h.p].gone /\ usable # {} /\ newest.status = "DISABLED"
                  /\ Become(h, told \cup {[g EXCEPT !.pc = "check",
                                     !.row = [newest EXCEPT !.status = "ENABLED"]]})
  BY Zenon DEF CreateOrEnable
<1> DEFINE g == [h EXCEPT !.todo = @ \ {s}, !.school = s, !.after = "generated"]
           rows == RowsOf(h.p)
           usable == {i \in rows : emails[i].status \in {"ENABLED", "DISABLED"}}
           newest == emails[Newest(usable)]
           told == IF rows = {} THEN {} ELSE {Sub(g, "exists")}
           a == [g EXCEPT !.pc = "address"]
           r == [newest EXCEPT !.status = "ENABLED"]
           c == [g EXCEPT !.pc = "check", !.row = r]
<1>3. h.kind = "person" /\ h.pc = "school"
  BY <1>2
<1>4. HandlerOK(g) /\ g.kind = "person"
  <2>1. /\ DOMAIN g = Fields /\ g.kind = h.kind /\ g.p = h.p /\ g.pc = h.pc /\ g.user = h.user /\ g.row = h.row
        /\ g.removed = h.removed /\ g.ox = h.ox /\ g.mail = h.mail /\ g.seen = h.seen
    BY <1>1 DEF HandlerOK, Fields
  <2> HIDE DEF g
  <2> QED
    BY <2>1, <1>1, <1>3 DEF HandlerOK, PcOK, WithRow, Listing
<1>5. g.p = h.p
  BY <1>1 DEF HandlerOK, Fields
<1>6. Become(h, NextSchool(g)) \/ Become(h, told \cup {a}) \/ Become(h, told \cup NextSchool(g))
      \/ (usable # {} /\ Become(h, told \cup {c}))
  BY <1>2, Zenon
<1> HIDE DEF g
<1>7. \A x \in NextSchool(g) : HandlerOK(x)
  BY <1>4, NextSchoolTyped
<1>8. \A x \in told : HandlerOK(x)
  BY <1>4, SubTyped
<1>9. HandlerOK(a)
  <2>1. /\ DOMAIN a = Fields /\ a.kind = "person" /\ a.p = g.p /\ a.pc = "address" /\ a.user = g.user
        /\ a.removed = g.removed /\ a.ox = g.ox /\ a.mail = g.mail /\ a.seen = g.seen
    BY <1>4 DEF HandlerOK, Fields
  <2> HIDE DEF a
  <2> QED
    BY <2>1, <1>4 DEF HandlerOK, PcOK, WithRow, Listing
<1>10. usable # {} => HandlerOK(c)
  <2> SUFFICES ASSUME usable # {} PROVE HandlerOK(c)
    OBVIOUS
  <2>1. Newest(usable) \in usable /\ usable \subseteq DOMAIN emails /\ \A i \in usable : emails[i].owner = h.p
    <3>1. usable \subseteq DOMAIN emails /\ \A i \in usable : emails[i].owner = h.p
      BY <1>1, OwnRows
    <3> HIDE DEF usable
    <3> QED
      BY <3>1, <1>1, NewestIsMember
  <2>2. RowOK(r)
    <3> HIDE DEF usable
    <3> QED
      BY <2>1, <1>1, RowTyped DEF AddressStatus, HandlerOK
  <2> HIDE DEF r
  <2>3. /\ DOMAIN c = Fields /\ c.kind = "person" /\ c.p = g.p /\ c.pc = "check" /\ c.user = g.user /\ c.row = r
        /\ c.removed = g.removed /\ c.ox = g.ox /\ c.mail = g.mail /\ c.seen = g.seen
    BY <1>4 DEF HandlerOK, Fields
  <2> HIDE DEF c
  <2> QED
    BY <2>2, <2>3, <1>4 DEF HandlerOK, PcOK, WithRow, Listing
<1> HIDE DEF told, a, c, usable
<1>11. PICK next : Become(h, next) /\ \A x \in next : HandlerOK(x)
  BY <1>6, <1>7, <1>8, <1>9, <1>10
<1> QED
  BY <1>1, <1>11, OnlyGoesOn DEF Outside


LEMMA HandleRenamedTyped ==
    ASSUME EmailAssumption, EmailTypeInv, NEW h \in BagToSet(handlers), HandleRenamed(h)
    PROVE  EmailTypeInv'
<1>1. HandlerOK(h) /\ EmailsOK /\ CountsOK' /\ UNCHANGED <<Outside, table, OxData, kc>>
  BY Typed, CountsKept DEF HandleRenamed, Outside
<1>2. h.kind = "renamed" /\ h.pc = "start" /\ h.p \in Persons
  BY <1>1 DEF HandleRenamed, HandlerOK
<1>3. CASE End(h)
  BY <1>3, <1>1, OnlyGoesOn DEF Outside, End
<1>4. ASSUME NEW school, NEW after, NEW g, Become(h, {g}),
             g \in {[h EXCEPT !.pc = "address", !.school = school, !.after = after],
                    [h EXCEPT !.pc = "address", !.after = after]}
      PROVE  EmailTypeInv'
  <2>1. /\ DOMAIN g = Fields /\ g.kind = h.kind /\ g.p = h.p /\ g.pc = "address" /\ g.user = h.user
        /\ g.removed = h.removed /\ g.ox = h.ox /\ g.mail = h.mail /\ g.seen = h.seen /\ g.todo = h.todo
    BY <1>1, <1>4 DEF HandlerOK, Fields
  <2>2. HandlerOK(g)
    BY <2>1, <1>1, <1>2 DEF HandlerOK, PcOK, WithRow, Listing
  <2> QED
    BY <2>2, <1>4, <1>1, OnlyGoesOn DEF Outside
<1>5. ASSUME NEW school, NEW i \in WithStatus(h.p, "ENABLED"),
             Become(h, {[h EXCEPT !.pc = "retire", !.school = school, !.after = "changed",
                                  !.row = [emails[i] EXCEPT !.status = "DISABLED"]]})
      PROVE  EmailTypeInv'
  <2> DEFINE r == [emails[i] EXCEPT !.status = "DISABLED"]
             g == [h EXCEPT !.pc = "retire", !.school = school, !.after = "changed", !.row = r]
  <2>1. RowOK(r)
    <3>1. i \in DOMAIN emails /\ emails[i].owner \in Persons
      BY <1>1, <1>2, OwnRows
    <3> QED
      BY <3>1, <1>1, RowTyped DEF AddressStatus
  <2> HIDE DEF r
  <2>2. /\ DOMAIN g = Fields /\ g.kind = h.kind /\ g.p = h.p /\ g.pc = "retire" /\ g.user = h.user /\ g.row = r
        /\ g.removed = h.removed /\ g.ox = h.ox /\ g.mail = h.mail /\ g.seen = h.seen /\ g.todo = h.todo
    BY <1>1 DEF HandlerOK, Fields
  <2>3. Become(h, {g})
    BY <1>5 DEF r
  <2> HIDE DEF g
  <2>4. HandlerOK(g)
    BY <2>1, <2>2, <1>1, <1>2 DEF HandlerOK, PcOK, WithRow, Listing
  <2> QED
    BY <2>3, <2>4, <1>1, OnlyGoesOn DEF Outside
<1>6. \/ \E k \in ServingOf(db[h.p].kontexte) : \E i \in WithStatus(h.p, "ENABLED") :
             Become(h, {[h EXCEPT !.pc = "retire", !.school = k.school, !.after = "changed",
                                  !.row = [emails[i] EXCEPT !.status = "DISABLED"]]})
      \/ \E k \in ServingOf(db[h.p].kontexte) :
             Become(h, {[h EXCEPT !.pc = "address", !.school = k.school, !.after = "generated"]})
      \/ End(h)
      \/ Become(h, {[h EXCEPT !.pc = "address", !.after = "disabled"]})
  BY Zenon DEF HandleRenamed
<1>7. ASSUME NEW k, Become(h, {[h EXCEPT !.pc = "address", !.school = k.school, !.after = "generated"]})
      PROVE  EmailTypeInv'
  BY <1>4, <1>7
<1>8. CASE Become(h, {[h EXCEPT !.pc = "address", !.after = "disabled"]})
  BY <1>4, <1>8
<1> QED
  BY <1>3, <1>5, <1>6, <1>7, <1>8

LEMMA CheckTyped ==
    ASSUME EmailAssumption, EmailTypeInv, NEW h \in BagToSet(handlers), Check(h)
    PROVE  EmailTypeInv'
<1>1. HandlerOK(h) /\ EmailsOK /\ CountsOK' /\ UNCHANGED <<Outside, table, OxData, kc>> /\ h.pc = "check"
  BY Typed, CountsKept DEF Check, Outside
<1>2. h.kind \in {"person", "renamed", "create", "metadata"}
  BY <1>1 DEF HandlerOK, PcOK
<1>3. CASE Goto(h, "write")
  <2> DEFINE g == [h EXCEPT !.pc = "write"]
  <2>1. /\ DOMAIN g = Fields /\ g.kind = h.kind /\ g.p = h.p /\ g.pc = "write" /\ g.user = h.user /\ g.row = h.row
        /\ g.removed = h.removed /\ g.ox = h.ox /\ g.mail = h.mail /\ g.seen = h.seen /\ g.todo = h.todo
    BY <1>1 DEF HandlerOK, Fields
  <2>2. Become(h, {g})
    BY <1>3 DEF Goto
  <2> HIDE DEF g
  <2>3. HandlerOK(g)
    BY <2>1, <1>1, <1>2 DEF HandlerOK, PcOK, WithRow, Listing
  <2> QED
    BY <2>2, <2>3, <1>1, OnlyGoesOn DEF Outside
<1>4. CASE h.kind = "create" /\ Goto(h, "failed")
  <2> DEFINE g == [h EXCEPT !.pc = "failed"]
  <2>1. /\ DOMAIN g = Fields /\ g.kind = h.kind /\ g.p = h.p /\ g.pc = "failed" /\ g.user = h.user /\ g.row = h.row
        /\ g.removed = h.removed /\ g.ox = h.ox /\ g.mail = h.mail /\ g.seen = h.seen /\ g.todo = h.todo
    BY <1>1 DEF HandlerOK, Fields
  <2>2. Become(h, {g})
    BY <1>4 DEF Goto
  <2> HIDE DEF g
  <2>3. HandlerOK(g)
    BY <2>1, <1>1, <1>4 DEF HandlerOK, PcOK, WithRow, Listing
  <2> QED
    BY <2>2, <2>3, <1>1, OnlyGoesOn DEF Outside
<1>5. CASE Become(h, NextSchool(h))
  <2>1. \A g \in NextSchool(h) : HandlerOK(g)
    BY <1>1, <1>2, NextSchoolTyped
  <2> QED
    BY <2>1, <1>5, <1>1, OnlyGoesOn DEF Outside
<1> QED
  BY <1>3, <1>4, <1>5 DEF Check

\* A handler that goes on with a row that it has read, or with none.
LEMMA ReadsTyped ==
    ASSUME EmailTypeInv, NEW h \in BagToSet(handlers), NEW g, Become(h, {g}), CountsOK',
           UNCHANGED <<Outside, table, OxData, kc>>,
           DOMAIN g = Fields, g.kind = h.kind, g.p = h.p, PcOK(g), g.user \in Nat \ {0},
           g.ox \in Nat, g.ox <= Len(ox), g.mail \in Address, g.mail # <<0, 0>> => Numbered(g.mail),
           g.removed \subseteq Kontexte, g.seen = h.seen, g.pc \notin {"disable", "add"},
           WithRow(g) => RowOK(g.row), g.kind \notin Listing => g.todo = {}
    PROVE  EmailTypeInv'
<1>1. HandlerOK(h)
  BY Typed
<1>2. HandlerOK(g)
  BY <1>1 DEF HandlerOK
<1> QED
  BY <1>2, OnlyGoesOn DEF Outside

LEMMA EnableTyped ==
    ASSUME EmailAssumption, EmailTypeInv, NEW h \in BagToSet(handlers), Enable(h)
    PROVE  EmailTypeInv'
<1>1. HandlerOK(h) /\ EmailsOK /\ OxOK /\ CountsOK' /\ UNCHANGED <<Outside, table, OxData, kc>>
  BY Typed, CountsKept DEF Enable, Outside
<1>2. h.kind = "metadata" /\ h.pc = "start" /\ h.p \in Persons
  BY <1>1 DEF Enable, HandlerOK
<1>3. CASE End(h)
  BY <1>3, <1>1, OnlyGoesOn DEF Outside, End
<1> DEFINE i == Newest(WithStatus(h.p, "REQUESTED"))
           r == [emails[i] EXCEPT !.address = h.mail, !.status = "ENABLED", !.ox = h.ox]
           g == [h EXCEPT !.pc = "check", !.row = r]
<1>4. CASE IsRequested(h.p) /\ Become(h, {g})
  <2>1. i \in WithStatus(h.p, "REQUESTED") /\ i \in DOMAIN emails /\ emails[i].owner = h.p
    <3>1. WithStatus(h.p, "REQUESTED") \subseteq DOMAIN emails
      BY <1>1, OwnRows
    <3> QED
      BY <3>1, <1>1, <1>4, NewestIsMember, OwnRows DEF IsRequested
  <2> HIDE DEF i
  <2>2. RowOK(emails[i])
    BY <2>1, <1>1, <1>2, RowTyped DEF AddressStatus
  <2>3. emails[i] \in Row /\ Len(emails) \in Nat /\ i \in 1 .. Len(emails)
    BY <2>1, <1>1 DEF EmailsOK
  <2>4. h.mail \in Address /\ Numbered(h.mail)
    <3>1. CASE h.mail = <<0, 0>>
      BY <3>1, <2>3 DEF Numbered, Address
    <3>2. CASE h.mail # <<0, 0>>
      BY <3>2, <1>1 DEF HandlerOK
    <3> QED
      BY <3>1, <3>2, <1>1 DEF HandlerOK
  <2>5. RowOK(r)
    <3>1. r \in Row
      BY <2>3, <2>4, <1>1 DEF Row, AddressStatus, HandlerOK
    <3>2. r.id = emails[i].id /\ r.ox = h.ox /\ r.owner = emails[i].owner /\ r.address = h.mail
      BY <2>3 DEF Row
    <3> HIDE DEF r
    <3> QED
      BY <3>1, <3>2, <2>2, <2>4, <1>1 DEF RowOK, HandlerOK
  <2> HIDE DEF r
  <2>6. /\ DOMAIN g = Fields /\ g.kind = h.kind /\ g.p = h.p /\ g.pc = "check" /\ g.user = h.user /\ g.row = r
        /\ g.removed = h.removed /\ g.ox = h.ox /\ g.mail = h.mail /\ g.seen = h.seen /\ g.todo = h.todo
    BY <1>1 DEF HandlerOK, Fields
  <2>7. Become(h, {g})
    BY <1>4
  <2> HIDE DEF g
  <2>8. PcOK(g)
    BY <2>6, <1>2 DEF PcOK
  <2> QED
    BY <2>5, <2>6, <2>7, <2>8, <1>1, ReadsTyped DEF HandlerOK
<1>5. End(h) \/ (IsRequested(h.p) /\ Become(h, {g}))
  BY Zenon DEF Enable, Requested
<1> QED
  BY <1>3, <1>4, <1>5

LEMMA EnableDisabledTyped ==
    ASSUME EmailAssumption, EmailTypeInv, NEW h \in BagToSet(handlers), EnableDisabled(h)
    PROVE  EmailTypeInv'
<1>1. HandlerOK(h) /\ EmailsOK /\ OxOK /\ CountsOK' /\ UNCHANGED <<Outside, table, OxData, kc>>
  BY Typed, CountsKept DEF EnableDisabled, Outside
<1>2. h.kind = "disabledOx" /\ h.pc = "start" /\ h.p \in Persons
  BY <1>1 DEF EnableDisabled, HandlerOK
<1>3. CASE End(h)
  BY <1>3, <1>1, OnlyGoesOn DEF Outside, End
<1> DEFINE i == Newest(WithStatus(h.p, "REQUESTED"))
           r == [emails[i] EXCEPT !.status = "DISABLED", !.ox = h.ox]
           g == [h EXCEPT !.pc = "write", !.row = r]
<1>4. CASE IsRequested(h.p) /\ Become(h, {g})
  <2>1. i \in WithStatus(h.p, "REQUESTED") /\ i \in DOMAIN emails /\ emails[i].owner = h.p
    <3>1. WithStatus(h.p, "REQUESTED") \subseteq DOMAIN emails
      BY <1>1, OwnRows
    <3> QED
      BY <3>1, <1>1, <1>4, NewestIsMember, OwnRows DEF IsRequested
  <2> HIDE DEF i
  <2>2. RowOK(emails[i])
    BY <2>1, <1>1, <1>2, RowTyped DEF AddressStatus
  <2>3. emails[i] \in Row
    BY <2>1, <1>1 DEF EmailsOK
  <2>4. RowOK(r)
    <3>1. r \in Row
      BY <2>3, <1>1 DEF Row, AddressStatus, HandlerOK
    <3>2. r.id = emails[i].id /\ r.ox = h.ox /\ r.owner = emails[i].owner /\ r.address = emails[i].address
      BY <2>3 DEF Row
    <3> HIDE DEF r
    <3> QED
      BY <3>1, <3>2, <2>2, <1>1 DEF RowOK, HandlerOK
  <2> HIDE DEF r
  <2>5. /\ DOMAIN g = Fields /\ g.kind = h.kind /\ g.p = h.p /\ g.pc = "write" /\ g.user = h.user /\ g.row = r
        /\ g.removed = h.removed /\ g.ox = h.ox /\ g.mail = h.mail /\ g.seen = h.seen /\ g.todo = h.todo
    BY <1>1 DEF HandlerOK, Fields
  <2>6. Become(h, {g})
    BY <1>4
  <2> HIDE DEF g
  <2>7. PcOK(g)
    BY <2>5, <1>2 DEF PcOK
  <2> QED
    BY <2>4, <2>5, <2>6, <2>7, <1>1, ReadsTyped DEF HandlerOK
<1>5. End(h) \/ (IsRequested(h.p) /\ Become(h, {g}))
  BY Zenon DEF EnableDisabled, Requested
<1> QED
  BY <1>3, <1>4, <1>5


LEMMA CollectionsTyped ==
    ASSUME EmailsOK, OxOK, NEW h, HandlerOK(h), NEW ids, ids \subseteq DOMAIN emails
    PROVE  /\ OxUserId(h, ids) \in Nat /\ OxUserId(h, ids) <= Len(ox)
           /\ MailOf(h, ids) \in Address /\ (MailOf(h, ids) # <<0, 0>> => Numbered(MailOf(h, ids)))
<1>1. \A i \in DOMAIN emails : /\ emails[i].ox \in Nat /\ emails[i].ox <= Len(ox)
                               /\ emails[i].address \in Address /\ Numbered(emails[i].address)
  <2>1. \A i \in DOMAIN emails : emails[i] \in Row
    BY DEF EmailsOK
  <2> QED
    BY <2>1 DEF EmailsOK, Row
<1>2. Len(ox) \in Nat
  BY DEF OxOK
<1>3. \A S : S \subseteq ids /\ S # {} => First(h, S) \in DOMAIN emails
  BY FirstIsMember
<1> DEFINE good == {i \in ids : emails[i].status # "FAILED"}
           enabled == {i \in ids : emails[i].status = "ENABLED"}
<1>4. OxUserId(h, ids) = IF good = {} THEN 0 ELSE emails[First(h, good)].ox
  BY DEF OxUserId
<1>5. OxUserId(h, ids) \in Nat /\ OxUserId(h, ids) <= Len(ox)
  <2>1. good \subseteq ids
    OBVIOUS
  <2> HIDE DEF good
  <2>2. CASE good = {}
    BY <2>2, <1>2, <1>4
  <2>3. CASE good # {}
    BY <2>1, <2>3, <1>1, <1>3, <1>4
  <2> QED
    BY <2>2, <2>3
<1>6. /\ enabled # {} => MailOf(h, ids) = emails[First(h, enabled)].address
      /\ enabled = {} /\ ids # {} => MailOf(h, ids) = emails[First(h, ids)].address
      /\ enabled = {} /\ ids = {} => MailOf(h, ids) = <<0, 0>>
  BY DEF MailOf
<1>7. enabled \subseteq ids
  OBVIOUS
<1> HIDE DEF enabled
<1>8. CASE enabled # {}
  BY <1>1, <1>3, <1>5, <1>6, <1>7, <1>8
<1>9. CASE enabled = {} /\ ids # {}
  BY <1>1, <1>3, <1>5, <1>6, <1>9
<1>10. CASE enabled = {} /\ ids = {}
  <2>1. MailOf(h, ids) \in Address
    BY <1>6, <1>10 DEF Address
  <2> QED
    BY <2>1, <1>5, <1>6, <1>10
<1> QED
  BY <1>8, <1>9, <1>10

LEMMA CollectionsAreRows ==
    ASSUME EmailsOK, NEW h, HandlerOK(h), NEW ids \in Collections(h) PROVE ids \subseteq DOMAIN emails
BY DEF Collections, HandlerOK, RowsOf

LEMMA FindRequestedTyped ==
    ASSUME EmailAssumption, EmailTypeInv, NEW h \in BagToSet(handlers), FindRequested(h)
    PROVE  EmailTypeInv'
<1>1. HandlerOK(h) /\ EmailsOK /\ OxOK /\ CountsOK' /\ UNCHANGED <<Outside, table, OxData, kc>>
      /\ db[h.p].name \in Nat \ {0} /\ h.p \in Persons
  BY Typed, CountsKept DEF FindRequested, Outside
<1>2. h.kind \in {"create", "change", "changeDisabled"} /\ h.pc = "start"
  BY DEF FindRequested
<1>3. CASE End(h)
  BY <1>3, <1>1, OnlyGoesOn DEF Outside, End
<1> DEFINE i == Newest(WithStatus(h.p, "REQUESTED"))
<1>4. ASSUME NEW ids \in Collections(h), IsRequested(h.p), NEW g, Become(h, {g}),
             g = [h EXCEPT !.row = Requested(h.p), !.user = db[h.p].name,
                       !.pc = IF h.kind = "create" THEN "exists" ELSE "user",
                       !.ox = IF h.kind = "create" THEN 0 ELSE OxUserId(h, ids)]
      PROVE  EmailTypeInv'
  <2>1. i \in WithStatus(h.p, "REQUESTED") /\ i \in DOMAIN emails /\ emails[i].owner = h.p
    <3>1. WithStatus(h.p, "REQUESTED") \subseteq DOMAIN emails
      BY <1>1, OwnRows
    <3> QED
      BY <3>1, <1>1, <1>4, NewestIsMember, OwnRows DEF IsRequested
  <2> HIDE DEF i
  <2>2. RowOK(emails[i])
    BY <2>1, <1>1, <1>2, RowTyped DEF AddressStatus
  <2>3. OxUserId(h, ids) \in Nat /\ OxUserId(h, ids) <= Len(ox) /\ 0 <= Len(ox)
    <3>1. ids \subseteq DOMAIN emails
      BY <1>1, CollectionsAreRows
    <3> QED
      BY <3>1, <1>1, CollectionsTyped DEF OxOK
  <2>4. /\ DOMAIN g = Fields /\ g.kind = h.kind /\ g.p = h.p /\ g.row = Requested(h.p) /\ g.user = db[h.p].name
        /\ g.pc = IF h.kind = "create" THEN "exists" ELSE "user"
        /\ g.ox = IF h.kind = "create" THEN 0 ELSE OxUserId(h, ids)
        /\ g.removed = h.removed /\ g.mail = h.mail /\ g.seen = h.seen /\ g.todo = h.todo
    BY <1>1, <1>4 DEF HandlerOK, Fields
  <2>5. RowOK(g.row)
    BY <2>2, <2>4 DEF Requested, i
  <2>6. PcOK(g) /\ g.ox \in Nat /\ g.ox <= Len(ox)
    BY <2>3, <2>4, <1>2 DEF PcOK
  <2>7. g.pc \notin {"disable", "add"}
    BY <2>4
  <2> QED
    BY <2>4, <2>5, <2>6, <2>7, <1>1, <1>4, ReadsTyped DEF HandlerOK
<1>5. PICK ids \in Collections(h) :
           LET user == OxUserId(h, ids)
               goes == /\ ~db[h.p].gone /\ IsRequested(h.p)
                       /\ h.kind = "create" \/ user # 0
           IN  IF goes
               THEN Become(h, {[h EXCEPT !.row = Requested(h.p), !.user = db[h.p].name,
                       !.pc = IF h.kind = "create" THEN "exists" ELSE "user",
                       !.ox = IF h.kind = "create" THEN 0 ELSE user]})
               ELSE End(h)
  BY Zenon DEF FindRequested
<1> QED
  BY <1>3, <1>4, <1>5

LEMMA ExistsUserTyped ==
    ASSUME EmailAssumption, EmailTypeInv, NEW h \in BagToSet(handlers), ExistsUser(h)
    PROVE  EmailTypeInv'
<1>1. HandlerOK(h) /\ CountsOK' /\ UNCHANGED <<Outside, table, OxData, kc>> /\ h.pc = "exists"
  BY Typed, CountsKept DEF ExistsUser, Outside
<1>2. h.kind = "create"
  BY <1>1 DEF HandlerOK, PcOK
<1>3. CASE End(h)
  BY <1>3, <1>1, OnlyGoesOn DEF Outside, End
<1>4. CASE Goto(h, "user")
  <2> DEFINE g == [h EXCEPT !.pc = "user"]
  <2>1. /\ DOMAIN g = Fields /\ g.kind = h.kind /\ g.p = h.p /\ g.pc = "user" /\ g.user = h.user /\ g.row = h.row
        /\ g.removed = h.removed /\ g.ox = h.ox /\ g.mail = h.mail /\ g.seen = h.seen /\ g.todo = h.todo
    BY <1>1 DEF HandlerOK, Fields
  <2>2. Become(h, {g})
    BY <1>4 DEF Goto
  <2> HIDE DEF g
  <2>3. PcOK(g) /\ WithRow(h)
    BY <2>1, <1>1, <1>2 DEF PcOK, WithRow
  <2> QED
    BY <2>1, <2>2, <2>3, <1>1, ReadsTyped DEF HandlerOK
<1> QED
  BY <1>3, <1>4 DEF ExistsUser

LEMMA AlreadyExistsTyped ==
    ASSUME EmailAssumption, EmailTypeInv, NEW h \in BagToSet(handlers), AlreadyExists(h)
    PROVE  EmailTypeInv'
<1>1. HandlerOK(h) /\ EmailsOK /\ OxOK /\ CountsOK' /\ UNCHANGED <<Outside, table, OxData, kc>>
      /\ db[h.p].name \in Nat \ {0} /\ h.p \in Persons
  BY Typed, CountsKept DEF AlreadyExists, Outside
<1>2. h.kind = "exists" /\ h.pc = "start"
  BY DEF AlreadyExists
<1>3. CASE End(h)
  BY <1>3, <1>1, OnlyGoesOn DEF Outside, End
<1>4. ASSUME NEW ids \in Collections(h), NEW g, Become(h, {g}),
             g = [h EXCEPT !.pc = "group", !.ox = OxUserId(h, ids),
                           !.mail = MailOf(h, ids), !.user = db[h.p].name]
      PROVE  EmailTypeInv'
  <2>1. /\ OxUserId(h, ids) \in Nat /\ OxUserId(h, ids) <= Len(ox)
        /\ MailOf(h, ids) \in Address /\ (MailOf(h, ids) # <<0, 0>> => Numbered(MailOf(h, ids)))
    <3>1. ids \subseteq DOMAIN emails
      BY <1>1, CollectionsAreRows
    <3> QED
      BY <3>1, <1>1, CollectionsTyped
  <2>2. /\ DOMAIN g = Fields /\ g.kind = h.kind /\ g.p = h.p /\ g.user = db[h.p].name
        /\ g.pc = "group" /\ g.ox = OxUserId(h, ids) /\ g.mail = MailOf(h, ids)
        /\ g.removed = h.removed /\ g.seen = h.seen /\ g.todo = h.todo
    BY <1>1, <1>4 DEF HandlerOK, Fields
  <2>3. PcOK(g) /\ ~WithRow(g)
    BY <2>2, <1>2 DEF PcOK, WithRow
  <2>4. g.ox \in Nat /\ g.ox <= Len(ox) /\ g.mail \in Address /\ (g.mail # <<0, 0>> => Numbered(g.mail))
    BY <2>1, <2>2
  <2>5. g.kind \notin Listing => g.todo = {}
    BY <2>2, <1>1 DEF HandlerOK
  <2> QED
    BY <2>2, <2>3, <2>4, <2>5, <1>1, <1>4, ReadsTyped DEF HandlerOK
<1>5. PICK ids \in Collections(h) :
           IF db[h.p].gone \/ OxUserId(h, ids) = 0 THEN End(h)
           ELSE Become(h, {[h EXCEPT !.pc = "group", !.ox = OxUserId(h, ids),
                                     !.mail = MailOf(h, ids), !.user = db[h.p].name]})
  BY Zenon DEF AlreadyExists
<1> QED
  BY <1>3, <1>4, <1>5

\* What a handler in a group's steps becomes.
LEMMA GroupStepTyped ==
    ASSUME NEW h, HandlerOK(h), h.pc \in {"group", "createGroup", "add"},
           NEW place \in {"createGroup", "add", "failed"}, place = "add" => h.school \in oxGroups,
           place = "failed" => h.kind = "create"
    PROVE  HandlerOK([h EXCEPT !.pc = place])
<1> DEFINE g == [h EXCEPT !.pc = place]
<1>1. /\ DOMAIN g = Fields /\ g.kind = h.kind /\ g.p = h.p /\ g.pc = place /\ g.user = h.user /\ g.row = h.row
      /\ g.removed = h.removed /\ g.ox = h.ox /\ g.mail = h.mail /\ g.seen = h.seen /\ g.todo = h.todo
      /\ g.school = h.school
  BY DEF HandlerOK, Fields
<1> HIDE DEF g
<1>2. h.kind \in {"create", "exists"}
  BY DEF HandlerOK, PcOK
<1>3. PcOK(g) /\ (WithRow(g) => WithRow(h))
  BY <1>1, <1>2 DEF PcOK, WithRow
<1>4. HandlerOK(g)
  BY <1>1, <1>2, <1>3 DEF HandlerOK
<1> QED
  BY <1>4 DEF g

\* How a handler gives up.
LEMMA GivesTyped ==
    ASSUME NEW h, HandlerOK(h), h.pc \in {"group", "createGroup", "add"}, Gives(h)
    PROVE  \E next : Become(h, next) /\ \A g \in next : HandlerOK(g)
<1>1. CASE h.kind = "create"
  <2>1. Become(h, {[h EXCEPT !.pc = "failed"]})
    BY <1>1 DEF Gives, Goto
  <2>2. HandlerOK([h EXCEPT !.pc = "failed"])
    BY <1>1, GroupStepTyped
  <2> QED
    BY <2>1, <2>2
<1>2. CASE h.kind # "create"
  BY <1>2 DEF Gives, End
<1> QED
  BY <1>1, <1>2

LEMMA FindGroupTyped ==
    ASSUME EmailAssumption, EmailTypeInv, NEW h \in BagToSet(handlers), FindGroup(h)
    PROVE  EmailTypeInv'
<1>1. HandlerOK(h) /\ CountsOK' /\ UNCHANGED <<Outside, table, OxData, kc>> /\ h.pc = "group"
  BY Typed, CountsKept DEF FindGroup, Outside
<1>2. CASE h.school \in oxGroups /\ Goto(h, "add")
  <2>1. HandlerOK([h EXCEPT !.pc = "add"])
    BY <1>1, <1>2, GroupStepTyped
  <2> QED
    BY <2>1, <1>1, <1>2, OnlyGoesOn DEF Outside, Goto
<1>3. CASE Goto(h, "createGroup")
  <2>1. HandlerOK([h EXCEPT !.pc = "createGroup"])
    BY <1>1, GroupStepTyped
  <2> QED
    BY <2>1, <1>1, <1>3, OnlyGoesOn DEF Outside, Goto
<1>4. CASE Gives(h)
  <2>1. PICK next : Become(h, next) /\ \A g \in next : HandlerOK(g)
    BY <1>1, <1>4, GivesTyped
  <2> QED
    BY <2>1, <1>1, OnlyGoesOn DEF Outside
<1> QED
  BY <1>2, <1>3, <1>4 DEF FindGroup

\* A handler that takes a user out of its groups, and one that frees its name.
LEMMA LeaveTyped ==
    ASSUME NEW h, HandlerOK(h), h.kind \in {"oxUpdated", "oxDisabled", "oxDeleted"}, OxOK,
           NEW user \in Nat, user <= Len(ox), NEW rest
    PROVE  /\ HandlerOK([h EXCEPT !.pc = "leave", !.ox = user, !.todo = rest])
           /\ HandlerOK([h EXCEPT !.pc = "leave", !.ox = user, !.removed = {}, !.todo = rest])
           /\ h.kind = "oxDeleted" => HandlerOK([h EXCEPT !.pc = "free", !.ox = user])
<1>1. ASSUME NEW g, NEW place \in {"leave", "free"}, g.pc = place, place = "free" => h.kind = "oxDeleted",
             DOMAIN g = Fields, g.kind = h.kind, g.p = h.p, g.user = h.user, g.ox = user,
             g.removed \in {h.removed, {}}, g.mail = h.mail, g.seen = h.seen
      PROVE  HandlerOK(g)
  <2>1. PcOK(g) /\ ~WithRow(g) /\ g.kind \in Listing
    BY <1>1 DEF PcOK, WithRow, Listing
  <2> QED
    BY <1>1, <2>1 DEF HandlerOK
<1>2. HandlerOK([h EXCEPT !.pc = "leave", !.ox = user, !.todo = rest])
  <2> DEFINE g == [h EXCEPT !.pc = "leave", !.ox = user, !.todo = rest]
  <2>1. /\ DOMAIN g = Fields /\ g.kind = h.kind /\ g.p = h.p /\ g.user = h.user /\ g.ox = user
        /\ g.removed = h.removed /\ g.mail = h.mail /\ g.seen = h.seen /\ g.pc = "leave"
    BY DEF HandlerOK, Fields
  <2> HIDE DEF g
  <2>2. HandlerOK(g)
    BY <2>1, <1>1
  <2> QED
    BY <2>2 DEF g
<1>3. HandlerOK([h EXCEPT !.pc = "leave", !.ox = user, !.removed = {}, !.todo = rest])
  <2> DEFINE g == [h EXCEPT !.pc = "leave", !.ox = user, !.removed = {}, !.todo = rest]
  <2>1. /\ DOMAIN g = Fields /\ g.kind = h.kind /\ g.p = h.p /\ g.user = h.user /\ g.ox = user
        /\ g.removed = {} /\ g.mail = h.mail /\ g.seen = h.seen /\ g.pc = "leave"
    BY DEF HandlerOK, Fields
  <2> HIDE DEF g
  <2>2. HandlerOK(g)
    BY <2>1, <1>1
  <2> QED
    BY <2>2 DEF g
<1>4. ASSUME h.kind = "oxDeleted" PROVE HandlerOK([h EXCEPT !.pc = "free", !.ox = user])
  <2> DEFINE g == [h EXCEPT !.pc = "free", !.ox = user]
  <2>1. /\ DOMAIN g = Fields /\ g.kind = h.kind /\ g.p = h.p /\ g.user = h.user /\ g.ox = user
        /\ g.removed = h.removed /\ g.mail = h.mail /\ g.seen = h.seen /\ g.pc = "free"
    BY DEF HandlerOK, Fields
  <2> HIDE DEF g
  <2>2. HandlerOK(g)
    BY <2>1, <1>1, <1>4
  <2> QED
    BY <2>2 DEF g
<1> QED
  BY <1>2, <1>3, <1>4

LEMMA LeaveRemovedTyped ==
    ASSUME EmailAssumption, EmailTypeInv, NEW h \in BagToSet(handlers), LeaveRemoved(h)
    PROVE  EmailTypeInv'
<1>1. HandlerOK(h) /\ EmailsOK /\ OxOK /\ CountsOK' /\ UNCHANGED <<Outside, table, OxData, kc>>
      /\ h.kind = "oxUpdated"
  BY Typed, CountsKept DEF LeaveRemoved, Outside
<1>2. PICK ids \in Collections(h) :
           IF db[h.p].gone \/ OxUserId(h, ids) = 0 \/ h.removed = {} THEN End(h)
           ELSE Become(h, {[h EXCEPT !.pc = "leave", !.ox = OxUserId(h, ids), !.removed = {},
                                     !.todo = {k.school : k \in h.removed}]})
  BY Zenon DEF LeaveRemoved
<1>3. CASE End(h)
  BY <1>3, <1>1, OnlyGoesOn DEF Outside, End
<1>4. OxUserId(h, ids) \in Nat /\ OxUserId(h, ids) <= Len(ox)
  <2>1. ids \subseteq DOMAIN emails
    BY <1>1, CollectionsAreRows
  <2> QED
    BY <2>1, <1>1, CollectionsTyped
<1>5. ASSUME NEW g, Become(h, {g}),
             g = [h EXCEPT !.pc = "leave", !.ox = OxUserId(h, ids), !.removed = {},
                           !.todo = {k.school : k \in h.removed}]
      PROVE  EmailTypeInv'
  <2>1. HandlerOK(g)
    BY <1>1, <1>4, <1>5, LeaveTyped
  <2>2. Become(h, {g})
    BY <1>5
  <2> QED
    BY <2>1, <2>2, <1>1, OnlyGoesOn DEF Outside
<1> QED
  BY <1>2, <1>3, <1>5

LEMMA LeaveAllTyped ==
    ASSUME EmailTypeInv, NEW h \in BagToSet(handlers), h.kind \in {"oxDisabled", "oxDeleted"},
           NEW user \in Nat, user <= Len(ox), NEW then, LeaveAll(h, user, then), CountsOK',
           UNCHANGED <<Outside, table, OxData, kc>>, \A g \in then : HandlerOK(g)
    PROVE  EmailTypeInv'
<1>1. HandlerOK(h) /\ OxOK
  BY Typed
<1>2. CASE Become(h, then)
  BY <1>2, OnlyGoesOn DEF Outside
<1>3. ASSUME NEW g, Become(h, {g}), g = [h EXCEPT !.pc = "leave", !.ox = user, !.todo = ox[user].groups]
      PROVE  EmailTypeInv'
  <2>1. HandlerOK(g)
    BY <1>1, <1>3, LeaveTyped
  <2> QED
    BY <2>1, <1>3, OnlyGoesOn DEF Outside
<1> QED
  BY <1>2, <1>3 DEF LeaveAll

LEMMA LeaveDisabledTyped ==
    ASSUME EmailAssumption, EmailTypeInv, NEW h \in BagToSet(handlers), LeaveDisabled(h)
    PROVE  EmailTypeInv'
<1>1. PICK ids \in Collections(h) :
           IF db[h.p].gone \/ OxUserId(h, ids) = 0 THEN End(h) /\ Fine
           ELSE LeaveAll(h, OxUserId(h, ids), {})
  BY Zenon DEF LeaveDisabled
<1>2. HandlerOK(h) /\ EmailsOK /\ OxOK /\ CountsOK' /\ UNCHANGED <<Outside, table, OxData, kc>>
      /\ h.kind = "oxDisabled"
  <2>1. UNCHANGED <<Outside, table, OxData, kc>> /\ h.kind = "oxDisabled"
    BY DEF LeaveDisabled
  <2>2. Fine \/ Trouble
    BY <1>1 DEF LeaveAll
  <2> QED
    BY <2>1, <2>2, Typed, CountsKept DEF Outside
<1>3. CASE End(h)
  BY <1>2, <1>3, OnlyGoesOn DEF Outside, End
<1>4. CASE LeaveAll(h, OxUserId(h, ids), {})
  <2>1. OxUserId(h, ids) \in Nat /\ OxUserId(h, ids) <= Len(ox)
    <3>1. ids \subseteq DOMAIN emails
      BY <1>2, CollectionsAreRows
    <3> QED
      BY <3>1, <1>2, CollectionsTyped
  <2> QED
    BY <2>1, <1>2, <1>4, LeaveAllTyped
<1> QED
  BY <1>1, <1>3, <1>4

LEMMA LeaveDeletedTyped ==
    ASSUME EmailAssumption, EmailTypeInv, NEW h \in BagToSet(handlers), LeaveDeleted(h)
    PROVE  EmailTypeInv'
<1> DEFINE found == {i \in DOMAIN emails : /\ emails[i].address = h.mail
                                           /\ emails[i].owner # Nobody /\ emails[i].ox # 0}
<1>0. \/ End(h) /\ Fine
      \/ \E i \in found : LeaveAll(h, emails[i].ox, {[h EXCEPT !.pc = "free", !.ox = emails[i].ox]})
  BY DEF LeaveDeleted
<1>1. UNCHANGED <<Outside, table, OxData, kc>> /\ h.kind = "oxDeleted"
  BY DEF LeaveDeleted
<1>2. HandlerOK(h) /\ EmailsOK /\ OxOK /\ CountsOK'
  <2>1. Fine \/ Trouble
    BY <1>0 DEF LeaveAll
  <2> QED
    BY <1>1, <2>1, Typed, CountsKept DEF Outside
<1>3. CASE End(h)
  BY <1>1, <1>2, <1>3, OnlyGoesOn DEF Outside, End
<1>4. ASSUME NEW i \in found, LeaveAll(h, emails[i].ox, {[h EXCEPT !.pc = "free", !.ox = emails[i].ox]})
      PROVE  EmailTypeInv'
  <2>1. emails[i].ox \in Nat /\ emails[i].ox <= Len(ox)
    <3>1. i \in DOMAIN emails /\ emails[i] \in Row
      BY <1>2 DEF EmailsOK
    <3> QED
      BY <3>1, <1>2 DEF EmailsOK, Row
  <2>2. HandlerOK([h EXCEPT !.pc = "free", !.ox = emails[i].ox])
    BY <2>1, <1>1, <1>2, LeaveTyped
  <2>3. \A g \in {[h EXCEPT !.pc = "free", !.ox = emails[i].ox]} : HandlerOK(g)
    BY <2>2
  <2> QED
    BY <2>1, <2>3, <1>1, <1>2, <1>4, LeaveAllTyped
<1> QED
  BY <1>0, <1>3, <1>4


\* A row is written that shares its address with no other.
LEMMA WriteTyped ==
    ASSUME EmailsOK, OxOK, NEW row \in Row, row.id <= Len(emails), row.ox <= Len(ox),
           row.address[1] = 0 => row.address[2] < Len(emails) \/ (row.id = New /\ row.address[2] = Len(emails)),
           \A i \in DOMAIN emails : i # row.id => emails[i].address # row.address,
           Write(row), ox' = ox
    PROVE  EmailsOK' /\ Len(emails) <= Len(emails')
<1>1. Len(emails) \in Nat /\ DOMAIN emails = 1 .. Len(emails) /\ (\A i \in DOMAIN emails : emails[i] \in Row)
      /\ DOMAIN updated = DOMAIN emails /\ emails \in Seq(Row) /\ updated \in Seq(Nat \ {0})
      /\ Len(updated) = Len(emails)
  BY DEF EmailsOK
<1>2. row.id \in Nat /\ row.ox \in Nat /\ row.address \in Address /\ row.address[2] \in Nat
  BY DEF Row, Address
<1>3. CASE row.id = New
  <2> DEFINE r == [row EXCEPT !.id = Len(emails) + 1]
  <2>1. emails' = Append(emails, r) /\ updated' = Append(updated, After(DOMAIN updated))
    BY <1>3 DEF Write
  <2>2. r \in Row /\ r.id = Len(emails) + 1 /\ r.ox = row.ox /\ r.address = row.address
    <3>1. Len(emails) + 1 \in Nat
      BY <1>1
    <3> QED
      BY <3>1 DEF Row
  <2> HIDE DEF r
  <2>3. After(DOMAIN updated) \in Nat \ {0}
    BY <1>1, AfterIsLatest
  <2>4. /\ emails' \in Seq(Row) /\ Len(emails') = Len(emails) + 1
        /\ (\A i \in DOMAIN emails : emails'[i] = emails[i]) /\ emails'[Len(emails) + 1] = r
    BY <1>1, <2>1, <2>2
  <2>5. updated' \in Seq(Nat \ {0}) /\ Len(updated') = Len(emails) + 1
    BY <1>1, <2>1, <2>3
  <2>6. DOMAIN emails' = 1 .. Len(emails) + 1 /\ DOMAIN updated' = 1 .. Len(emails) + 1
    BY <2>4, <2>5
  <2>7. updated' \in [DOMAIN emails' -> Nat \ {0}]
    BY <2>5, <2>6
  <2>8. \A i \in DOMAIN emails : i # row.id
    BY <1>1, <1>3 DEF New
  <2>9. \A i \in DOMAIN emails' : i \in DOMAIN emails \/ i = Len(emails) + 1
    BY <1>1, <2>6
  <2>10. \A i \in DOMAIN emails' : emails'[i].id = i /\ emails'[i].ox <= Len(ox')
    BY <2>9, <2>4, <2>2 DEF EmailsOK
  <2>11. \A i \in DOMAIN emails' : Numbered(emails[i].address)'
    <3>1. \A i \in DOMAIN emails : emails[i].address[2] \in Nat
      BY <1>1 DEF Row, Address
    <3>2. \A i \in DOMAIN emails : emails[i].address[1] = 0 => emails[i].address[2] < Len(emails)
      BY DEF EmailsOK, Numbered
    <3>3. \A i \in DOMAIN emails' : emails'[i].address[1] = 0 => emails'[i].address[2] < Len(emails')
      BY <2>9, <2>4, <2>2, <3>1, <3>2, <1>1, <1>2
    <3> QED
      BY <3>3 DEF Numbered
  <2>12. \A i, j \in DOMAIN emails' : i # j => emails'[i].address # emails'[j].address
    BY <2>9, <2>4, <2>2, <2>8 DEF EmailsOK
  <2> QED
    BY <2>4, <2>7, <2>10, <2>11, <2>12, <1>1 DEF EmailsOK
<1>4. CASE row.id # New /\ row # emails[row.id]
  <2>1. emails' = [emails EXCEPT ![row.id] = row]
        /\ updated' = [updated EXCEPT ![row.id] = After(DOMAIN updated \ {row.id})]
    BY <1>4 DEF Write
  <2>2. After(DOMAIN updated \ {row.id}) \in Nat \ {0}
    BY <1>1, AfterIsLatest
  <2>3. row.id \in DOMAIN emails
    BY <1>1, <1>2, <1>4 DEF New
  <2>4. emails' \in Seq(Row) /\ Len(emails') = Len(emails) /\ DOMAIN emails' = DOMAIN emails
        /\ emails'[row.id] = row /\ \A i \in DOMAIN emails : i # row.id => emails'[i] = emails[i]
    BY <1>1, <2>1, <2>3
  <2>5. updated' \in [DOMAIN emails' -> Nat \ {0}]
    BY <2>1, <2>2, <2>4 DEF EmailsOK
  <2>6. \A i \in DOMAIN emails' : emails'[i].id = i /\ emails'[i].ox <= Len(ox')
    BY <2>4 DEF EmailsOK
  <2>7. \A i \in DOMAIN emails' : Numbered(emails[i].address)'
    BY <2>4, <1>4 DEF EmailsOK, Numbered
  <2>8. \A i, j \in DOMAIN emails' : i # j => emails'[i].address # emails'[j].address
    BY <2>4 DEF EmailsOK
  <2> QED
    BY <2>4, <2>5, <2>6, <2>7, <2>8, <1>1 DEF EmailsOK
<1>5. CASE row.id # New /\ row = emails[row.id]
  <2>1. emails' = emails /\ updated' = updated
    BY <1>5 DEF Write, table
  <2> QED
    BY <2>1, <1>1 DEF EmailsOK, Numbered
<1> QED
  BY <1>3, <1>4, <1>5

\* A step that may write such a row.
LEMMA WritesTyped ==
    ASSUME EmailTypeInv, NEW h \in BagToSet(handlers), NEW next, Become(h, next), CountsOK',
           NEW row, UNCHANGED table \/ (RowOK(row) /\ ~Violates(row) /\ Write(row)),
           \A g \in next : HandlerOK(g), UNCHANGED <<Outside, OxData, kc>>
    PROVE  EmailTypeInv'
<1>1. CASE UNCHANGED table
  BY <1>1, OnlyGoesOn DEF Outside
<1>2. CASE RowOK(row) /\ ~Violates(row) /\ Write(row)
  <2>1. EmailsOK /\ OxOK /\ DbOK /\ ox' = ox /\ oxGroups' = oxGroups /\ UNCHANGED <<db, kc, events>>
    BY DEF EmailTypeInv, OxData, Outside
  <2>2. EmailsOK' /\ Len(emails) <= Len(emails')
    BY <1>2, <2>1, WriteTyped DEF RowOK, Violates, Numbered
  <2>3. OxOK' /\ DbOK'
    BY <2>1 DEF OxOK, OxUser, DbOK
  <2>4. Grown
    BY <2>1, <2>2 DEF Grown, OxOK
  <2>5. \A g \in next : HandlerOK(g)'
    BY <2>1, <2>2, <2>3, <2>4, StaysOK
  <2> QED
    BY <2>2, <2>3, <2>4, <2>5, HandlerGoesOn
<1> QED
  BY <1>1, <1>2

LEMMA DisableOneTyped ==
    ASSUME EmailAssumption, EmailTypeInv, NEW h \in BagToSet(handlers), DisableOne(h)
    PROVE  EmailTypeInv'
<1>1. HandlerOK(h) /\ CountsOK' /\ UNCHANGED <<Outside, OxData, kc>> /\ h.kind = "person" /\ h.pc = "disable"
  BY Typed, CountsKept DEF DisableOne, Outside
<1>2. PICK row \in h.todo :
           LET left == h.todo \ {row}
           IN  /\ IF Violates(row) THEN UNCHANGED table ELSE Write(row)
               /\ Become(h, CASE left # {} -> {[h EXCEPT !.todo = left]}
                              [] left = {} /\ db[h.p].gone -> {}
                              [] OTHER -> {Sub(h, "oxDisabled"), Sub(h, "kcDisabled")})
  BY Zenon DEF DisableOne
<1> DEFINE g == [h EXCEPT !.todo = h.todo \ {row}]
<1>3. RowOK(row)
  BY <1>1 DEF HandlerOK
<1>4. UNCHANGED table \/ (RowOK(row) /\ ~Violates(row) /\ Write(row))
  BY <1>2, <1>3
<1>5. HandlerOK(g)
  <2>1. /\ DOMAIN g = Fields /\ g.kind = h.kind /\ g.p = h.p /\ g.pc = h.pc /\ g.user = h.user /\ g.row = h.row
        /\ g.removed = h.removed /\ g.ox = h.ox /\ g.mail = h.mail /\ g.seen = h.seen /\ g.todo = h.todo \ {row}
        /\ g.school = h.school
    BY <1>1 DEF HandlerOK, Fields
  <2> HIDE DEF g
  <2> QED
    BY <2>1, <1>1 DEF HandlerOK, PcOK, WithRow, Listing
<1>6. HandlerOK(Sub(h, "oxDisabled")) /\ HandlerOK(Sub(h, "kcDisabled"))
  BY <1>1, SubTyped
<1>7. Become(h, {g}) \/ Become(h, {}) \/ Become(h, {Sub(h, "oxDisabled"), Sub(h, "kcDisabled")})
  BY <1>2
<1> HIDE DEF g
<1>8. PICK next : Become(h, next) /\ \A x \in next : HandlerOK(x)
  BY <1>5, <1>6, <1>7
<1> QED
  BY <1>1, <1>4, <1>8, WritesTyped

LEMMA RetireTyped ==
    ASSUME EmailAssumption, EmailTypeInv, NEW h \in BagToSet(handlers), Retire(h)
    PROVE  EmailTypeInv'
<1>1. HandlerOK(h) /\ CountsOK' /\ UNCHANGED <<Outside, OxData, kc>> /\ h.kind = "renamed" /\ h.pc = "retire"
  BY Typed, CountsKept DEF Retire, Outside
<1>2. RowOK(h.row)
  BY <1>1 DEF HandlerOK, WithRow
<1> DEFINE g == [h EXCEPT !.pc = "address", !.row = NoRow]
<1>3. HandlerOK(g)
  <2>1. /\ DOMAIN g = Fields /\ g.kind = h.kind /\ g.p = h.p /\ g.pc = "address" /\ g.user = h.user
        /\ g.removed = h.removed /\ g.ox = h.ox /\ g.mail = h.mail /\ g.seen = h.seen /\ g.todo = h.todo
    BY <1>1 DEF HandlerOK, Fields
  <2> HIDE DEF g
  <2> QED
    BY <2>1, <1>1 DEF HandlerOK, PcOK, WithRow, Listing
<1>4. (UNCHANGED table /\ Become(h, {})) \/ (~Violates(h.row) /\ Write(h.row) /\ Become(h, {g}))
  BY DEF Retire, End
<1> HIDE DEF g
<1>5. \A x \in {g} : HandlerOK(x)
  BY <1>3
<1>6. \A x \in {} : HandlerOK(x)
  OBVIOUS
<1> QED
  BY <1>1, <1>2, <1>4, <1>5, <1>6, WritesTyped

LEMMA SaveTyped ==
    ASSUME EmailAssumption, EmailTypeInv, NEW h \in BagToSet(handlers), Save(h)
    PROVE  EmailTypeInv'
<1>1. HandlerOK(h) /\ CountsOK' /\ UNCHANGED <<Outside, OxData, kc>> /\ h.pc = "write"
  BY Typed, CountsKept DEF Save, Outside
<1>2. RowOK(h.row)
  BY <1>1 DEF HandlerOK, WithRow
<1>3. h.kind \in {"person", "renamed", "create", "metadata", "disabledOx"}
  BY <1>1 DEF HandlerOK, PcOK
<1> DEFINE g == [h EXCEPT !.pc = "group"]
           next == IF h.kind = "create" THEN {g} ELSE NextSchool(h) \cup Published(h)
<1>4. h.kind = "create" => HandlerOK(g)
  <2>1. /\ DOMAIN g = Fields /\ g.kind = h.kind /\ g.p = h.p /\ g.pc = "group" /\ g.user = h.user /\ g.row = h.row
        /\ g.removed = h.removed /\ g.ox = h.ox /\ g.mail = h.mail /\ g.seen = h.seen /\ g.todo = h.todo
    BY <1>1 DEF HandlerOK, Fields
  <2> HIDE DEF g
  <2> QED
    BY <2>1, <1>1, <1>2 DEF HandlerOK, PcOK, WithRow, Listing
<1>5. \A x \in Published(h) : HandlerOK(x)
  <2>1. Published(h) \subseteq {Sub(h, "create"), Sub(h, "change"), Sub(h, "changeDisabled")}
    BY DEF Published
  <2>2. HandlerOK(Sub(h, "create")) /\ HandlerOK(Sub(h, "change")) /\ HandlerOK(Sub(h, "changeDisabled"))
    BY <1>1, SubTyped
  <2> QED
    BY <2>1, <2>2
<1>6. \A x \in NextSchool(h) : HandlerOK(x)
  BY <1>1, <1>3, NextSchoolTyped
<1>7. (UNCHANGED table /\ Become(h, {})) \/ (~Violates(h.row) /\ Write(h.row) /\ Become(h, next))
  BY DEF Save, End
<1> HIDE DEF g
<1>8. \A x \in next : HandlerOK(x)
  BY <1>4, <1>5, <1>6
<1> HIDE DEF next
<1>9. \A x \in {} : HandlerOK(x)
  OBVIOUS
<1> QED
  BY <1>1, <1>2, <1>7, <1>8, <1>9, WritesTyped

LEMMA ChooseAddressTyped ==
    ASSUME EmailAssumption, EmailTypeInv, NEW h \in BagToSet(handlers), ChooseAddress(h)
    PROVE  EmailTypeInv'
<1>1. HandlerOK(h) /\ EmailsOK /\ OxOK /\ DbOK /\ UNCHANGED <<Outside, OxData, kc>> /\ h.pc = "address"
      /\ db[h.p].name \in Nat \ {0} /\ h.p \in Persons /\ CountsOK'
  BY Typed, CountsKept DEF ChooseAddress, Outside
<1>2. h.kind \in {"person", "renamed"}
  BY <1>1 DEF HandlerOK, PcOK
<1>3. \A x \in NextSchool(h) : HandlerOK(x)
  BY <1>1, <1>2, NextSchoolTyped
<1>4. CASE Become(h, NextSchool(h)) /\ UNCHANGED table
  BY <1>1, <1>3, <1>4, OnlyGoesOn DEF Outside
<1> DEFINE r == NewRow(h.p, FreeAddress(db[h.p].name), "REQUESTED")
           g == [h EXCEPT !.pc = "check", !.row = r]
<1>5. CASE Become(h, {g}) /\ UNCHANGED table
  <2>1. FreeAddress(db[h.p].name) \in Address /\ FreeAddress(db[h.p].name)[1] # 0
    BY <1>1, FreeAddressIsFree
  <2>2. Len(emails) \in Nat /\ Len(ox) \in Nat
    BY <1>1 DEF EmailsOK, OxOK
  <2>3. r \in Row /\ r.id = 0 /\ r.ox = 0 /\ r.owner = h.p /\ r.address = FreeAddress(db[h.p].name)
    BY <1>1, <2>1 DEF NewRow, Row, AddressStatus, New
  <2> HIDE DEF r
  <2>4. RowOK(r)
    BY <1>1, <2>1, <2>2, <2>3 DEF RowOK, Numbered
  <2>5. /\ DOMAIN g = Fields /\ g.kind = h.kind /\ g.p = h.p /\ g.pc = "check" /\ g.user = h.user /\ g.row = r
        /\ g.removed = h.removed /\ g.ox = h.ox /\ g.mail = h.mail /\ g.seen = h.seen /\ g.todo = h.todo
    BY <1>1 DEF HandlerOK, Fields
  <2>6. Become(h, {g})
    BY <1>5
  <2> HIDE DEF g
  <2>7. PcOK(g)
    BY <2>5, <1>2 DEF PcOK
  <2> QED
    BY <2>4, <2>5, <2>6, <2>7, <1>1, <1>5, ReadsTyped DEF HandlerOK
<1> DEFINE f == NewRow(h.p, <<0, Len(emails)>>, "FAILED")
<1>6. CASE Write(f) /\ Become(h, NextSchool(h))
  <2>1. Len(emails) \in Nat /\ Len(ox) \in Nat
    BY <1>1 DEF EmailsOK, OxOK
  <2>2. PICK a : a = <<0, Len(emails)>>
    OBVIOUS
  <2>3. a \in Address /\ a[1] = 0 /\ a[2] = Len(emails)
    BY <2>1, <2>2 DEF Address
  <2>4. f \in Row /\ f.id = 0 /\ f.ox = 0 /\ f.address = a
    BY <1>1, <2>2, <2>3 DEF NewRow, Row, AddressStatus, New
  <2>5. \A i \in DOMAIN emails : emails[i].address # a
    <3> SUFFICES ASSUME NEW i \in DOMAIN emails, emails[i].address = a PROVE FALSE
      OBVIOUS
    <3>1. Numbered(a)
      BY <1>1 DEF EmailsOK
    <3> QED
      BY <3>1, <2>1, <2>3 DEF Numbered
  <2> HIDE DEF f
  <2>6. ox' = ox /\ oxGroups' = oxGroups /\ UNCHANGED <<db, kc, events>>
    BY <1>1 DEF Outside, OxData
  <2>7. EmailsOK' /\ Len(emails) <= Len(emails')
    <3>1. f.id <= Len(emails) /\ f.ox <= Len(ox) /\ f.id = New
      BY <2>1, <2>4 DEF New
    <3>2. f.address[1] = 0 => f.address[2] < Len(emails) \/ (f.id = New /\ f.address[2] = Len(emails))
      BY <2>3, <2>4, <3>1
    <3>3. \A i \in DOMAIN emails : i # f.id => emails[i].address # f.address
      BY <2>4, <2>5
    <3> QED
      BY <3>1, <3>2, <3>3, <2>4, <2>6, <1>1, <1>6, WriteTyped
  <2>8. OxOK' /\ DbOK'
    BY <2>6, <1>1 DEF OxOK, OxUser, DbOK
  <2>9. Grown
    BY <2>1, <2>6, <2>7 DEF Grown
  <2>10. \A x \in NextSchool(h) : HandlerOK(x)'
    BY <2>7, <2>8, <2>9, <1>1, <1>3, StaysOK
  <2> QED
    BY <2>7, <2>8, <2>9, <2>10, <1>1, <1>6, HandlerGoesOn
<1>7. \/ Become(h, NextSchool(h)) /\ UNCHANGED table
      \/ Become(h, {g}) /\ UNCHANGED table
      \/ Write(f) /\ Become(h, NextSchool(h))
  BY Zenon DEF ChooseAddress
<1> QED
  BY <1>4, <1>5, <1>6, <1>7

LEMMA DeactivateTyped ==
    ASSUME EmailAssumption, EmailTypeInv, NEW h \in BagToSet(handlers), Deactivate(h)
    PROVE  EmailTypeInv'
<1>1. EmailsOK /\ OxOK /\ DbOK /\ CountsOK' /\ UNCHANGED <<Outside, OxData, kc>> /\ Become(h, {})
  BY Typed, CountsKept DEF Deactivate, Outside, End
<1>2. CASE UNCHANGED table
  BY <1>1, <1>2, OnlyGoesOn DEF Outside
<1>3. ASSUME NEW i \in DOMAIN emails, Write([emails[i] EXCEPT !.status = "DISABLED"])
      PROVE  EmailTypeInv'
  <2> DEFINE r == [emails[i] EXCEPT !.status = "DISABLED"]
  <2>1. emails[i] \in Row /\ emails[i].id = i /\ emails[i].ox <= Len(ox) /\ Numbered(emails[i].address)
        /\ Len(emails) \in Nat /\ i \in 1 .. Len(emails)
    BY <1>1 DEF EmailsOK
  <2>2. r \in Row /\ r.id = i /\ r.ox = emails[i].ox /\ r.address = emails[i].address
    BY <2>1 DEF Row, AddressStatus
  <2> HIDE DEF r
  <2>3. ox' = ox /\ oxGroups' = oxGroups /\ UNCHANGED <<db, kc, events>>
    BY <1>1 DEF Outside, OxData
  <2>4. EmailsOK' /\ Len(emails) <= Len(emails')
    <3>1. Write(r) /\ r.id <= Len(emails) /\ r.ox <= Len(ox)
      BY <1>3, <2>1, <2>2 DEF r
    <3>2. r.address[1] = 0 => r.address[2] < Len(emails)
      BY <2>1, <2>2 DEF Numbered
    <3>3. \A j \in DOMAIN emails : j # r.id => emails[j].address # r.address
      BY <2>2, <1>1 DEF EmailsOK
    <3> QED
      BY <3>1, <3>2, <3>3, <2>2, <2>3, <1>1, WriteTyped
  <2>5. OxOK' /\ DbOK'
    BY <2>3, <1>1 DEF OxOK, OxUser, DbOK
  <2>6. Grown
    BY <2>3, <2>4, <1>1 DEF Grown, OxOK
  <2> QED
    BY <2>4, <2>5, <2>6, <1>1, HandlerGoesOn
<1> QED
  BY <1>2, <1>3 DEF Deactivate

LEMMA MarkFailedTyped ==
    ASSUME EmailAssumption, EmailTypeInv, NEW h \in BagToSet(handlers), MarkFailed(h)
    PROVE  EmailTypeInv'
<1>1. HandlerOK(h) /\ CountsOK' /\ UNCHANGED <<Outside, OxData, kc>> /\ h.pc = "failed" /\ Become(h, {})
  BY Typed, CountsKept DEF MarkFailed, Outside, End
<1> DEFINE r == [h.row EXCEPT !.status = "FAILED"]
<1>2. RowOK(r)
  <2>1. RowOK(h.row)
    BY <1>1 DEF HandlerOK, WithRow
  <2>2. r \in Row /\ r.id = h.row.id /\ r.ox = h.row.ox /\ r.owner = h.row.owner /\ r.address = h.row.address
    BY <2>1 DEF RowOK, Row, AddressStatus
  <2> HIDE DEF r
  <2> QED
    BY <2>1, <2>2 DEF RowOK
<1>3. UNCHANGED table \/ (~Violates(r) /\ Write(r))
  BY DEF MarkFailed
<1> HIDE DEF r
<1> QED
  BY <1>1, <1>2, <1>3, WritesTyped


\* A step that changes the users or groups of OX.
LEMMA OxChangedTyped ==
    ASSUME EmailTypeInv, NEW h \in BagToSet(handlers), NEW next, Become(h, next), CountsOK',
           UNCHANGED <<Outside, table, kc>>, OxOK', Len(ox) <= Len(ox'), oxGroups \subseteq oxGroups',
           \A g \in next : HandlerOK(g) \/ HandlerOK(g)'
    PROVE  EmailTypeInv'
<1>1. EmailsOK /\ OxOK /\ DbOK /\ UNCHANGED <<db, events, emails, updated, kc>>
  BY DEF EmailTypeInv, Outside, table
<1>2. EmailsOK'
  <2>1. Len(ox) \in Nat /\ Len(ox') \in Nat
    BY <1>1 DEF OxOK
  <2>2. \A i \in DOMAIN emails : emails[i].ox \in Nat /\ emails[i].ox <= Len(ox)
    <3>1. \A i \in DOMAIN emails : emails[i] \in Row
      BY <1>1 DEF EmailsOK
    <3> QED
      BY <3>1, <1>1 DEF EmailsOK, Row
  <2>3. \A i \in DOMAIN emails : emails[i].ox <= Len(ox')
    BY <2>1, <2>2
  <2> QED
    BY <1>1, <2>3 DEF EmailsOK, Numbered
<1>3. DbOK'
  BY <1>1 DEF DbOK
<1>4. Grown
  BY <1>1 DEF Grown, EmailsOK
<1>5. \A g \in next : HandlerOK(g)'
  BY <1>1, <1>2, <1>4, StaysOK
<1> QED
  BY <1>2, <1>3, <1>4, <1>5, HandlerGoesOn

\* The users with one more, and with one changed.
LEMMA UserAddedTyped ==
    ASSUME OxOK, NEW user \in OxUser, ox' = Append(ox, user), oxGroups' = oxGroups
    PROVE  OxOK' /\ Len(ox') = Len(ox) + 1 /\ Len(ox) \in Nat
           /\ ox'[Len(ox) + 1] = user /\ \A i \in DOMAIN ox : ox'[i] = ox[i]
BY DEF OxOK, OxUser

LEMMA UserChangedTyped ==
    ASSUME OxOK, NEW n, NEW user, n \in DOMAIN ox => user \in OxUser, ox' = [ox EXCEPT ![n] = user],
           oxGroups' = oxGroups
    PROVE  OxOK' /\ Len(ox') = Len(ox) /\ Len(ox) \in Nat
<1>1. ox \in Seq(OxUser) /\ Len(ox) \in Nat /\ DOMAIN ox = 1 .. Len(ox) /\ \A i \in DOMAIN ox : ox[i] \in OxUser
  BY DEF OxOK
<1>2. ox' \in [1 .. Len(ox) -> OxUser] /\ OxUser' = OxUser
  BY <1>1 DEF OxUser
<1> QED
  BY <1>1, <1>2 DEF OxOK

LEMMA CreateUserTyped ==
    ASSUME EmailAssumption, EmailTypeInv, NEW h \in BagToSet(handlers), CreateUser(h)
    PROVE  EmailTypeInv'
<1>1. HandlerOK(h) /\ OxOK /\ CountsOK' /\ UNCHANGED <<Outside, table, oxGroups, kc>>
      /\ h.kind = "create" /\ h.pc = "user"
  BY Typed, CountsKept DEF CreateUser, Outside
<1>2. RowOK(h.row) /\ h.p \in Persons /\ h.user \in Nat
  BY <1>1 DEF HandlerOK, WithRow
<1>3. Oxuser(h) \in OxUser
  <2>1. h.row.address \in Address
    BY <1>2 DEF RowOK, Row
  <2>2. <<h.p, h.user>> \in (Persons \cup {Nobody}) \X Nat
    BY <1>2
  <2> QED
    BY <2>1, <2>2 DEF Oxuser, OxUser
<1>4. CASE UNCHANGED ox /\ Goto(h, "failed")
  <2> DEFINE g == [h EXCEPT !.pc = "failed"]
  <2>1. /\ DOMAIN g = Fields /\ g.kind = h.kind /\ g.p = h.p /\ g.pc = "failed" /\ g.user = h.user /\ g.row = h.row
        /\ g.removed = h.removed /\ g.ox = h.ox /\ g.mail = h.mail /\ g.seen = h.seen /\ g.todo = h.todo
    BY <1>1 DEF HandlerOK, Fields
  <2>2. Become(h, {g})
    BY <1>4 DEF Goto
  <2> HIDE DEF g
  <2>3. PcOK(g)
    BY <2>1, <1>1 DEF PcOK
  <2>4. UNCHANGED <<Outside, table, OxData, kc>>
    BY <1>1, <1>4 DEF OxData
  <2> QED
    BY <2>1, <2>2, <2>3, <2>4, <1>1, <1>2, ReadsTyped DEF HandlerOK
<1>5. CASE ox' = Append(ox, Oxuser(h)) /\ Goto(h, "failed")
  <2> DEFINE g == [h EXCEPT !.pc = "failed"]
  <2>1. /\ DOMAIN g = Fields /\ g.kind = h.kind /\ g.p = h.p /\ g.pc = "failed" /\ g.user = h.user /\ g.row = h.row
        /\ g.removed = h.removed /\ g.ox = h.ox /\ g.mail = h.mail /\ g.seen = h.seen /\ g.todo = h.todo
    BY <1>1 DEF HandlerOK, Fields
  <2>2. Become(h, {g})
    BY <1>5 DEF Goto
  <2> HIDE DEF g
  <2>3. HandlerOK(g)
    BY <2>1, <1>1, <1>2 DEF HandlerOK, PcOK, Listing
  <2>4. OxOK' /\ Len(ox) <= Len(ox') /\ oxGroups \subseteq oxGroups'
    BY <1>1, <1>3, <1>5, UserAddedTyped
  <2> QED
    BY <2>2, <2>3, <2>4, <1>1, OxChangedTyped
<1>6. ASSUME NEW new, new = Len(ox) + 1, NEW g, g = [h EXCEPT !.pc = "check", !.ox = new, !.row.ox = new],
             ox' = Append(ox, Oxuser(h)), Become(h, {g})
      PROVE  EmailTypeInv'
  <2>1. OxOK' /\ Len(ox) <= Len(ox') /\ oxGroups \subseteq oxGroups' /\ Len(ox') = new /\ new \in Nat
    BY <1>1, <1>3, <1>6, UserAddedTyped
  <2>2. /\ DOMAIN g = Fields /\ g.kind = h.kind /\ g.p = h.p /\ g.pc = "check" /\ g.user = h.user /\ g.ox = new
        /\ g.row = [h.row EXCEPT !.ox = new]
        /\ g.removed = h.removed /\ g.mail = h.mail /\ g.seen = h.seen /\ g.todo = h.todo
    BY <1>1, <1>6 DEF HandlerOK, Fields
  <2>3. Become(h, {g})
    BY <1>6
  <2>4. g.row \in Row /\ g.row.ox = new /\ g.row.id = h.row.id /\ g.row.owner = h.row.owner
        /\ g.row.address = h.row.address
    BY <2>1, <2>2, <1>2 DEF RowOK, Row
  <2>5. Len(emails') = Len(emails)
    BY <1>1 DEF table
  <2>6. RowOK(g.row)'
    <3>1. Numbered(g.row.address)'
      BY <2>4, <2>5, <1>2 DEF RowOK, Numbered
    <3>2. g.row.ox <= Len(ox')
      BY <2>1, <2>4
    <3> QED
      BY <3>1, <3>2, <2>4, <2>5, <1>2 DEF RowOK, Row, Address
  <2>7. PcOK(g) /\ g.ox \in Nat /\ g.ox <= Len(ox')
    BY <2>1, <2>2, <1>1 DEF PcOK
  <2>8. g.mail # <<0, 0>> => Numbered(g.mail)'
    BY <2>2, <2>5, <1>1 DEF HandlerOK, Numbered
  <2>9. DOMAIN g.seen \subseteq DOMAIN emails'
    BY <2>2, <1>1 DEF HandlerOK, table
  <2>10. HandlerOK(g)'
    BY <2>2, <2>6, <2>7, <2>8, <2>9, <1>1 DEF HandlerOK, PcOK, WithRow, Listing
  <2> QED
    BY <2>1, <2>3, <2>10, <1>1, OxChangedTyped
<1>7. \/ UNCHANGED ox /\ Goto(h, "failed")
      \/ ox' = Append(ox, Oxuser(h)) /\ Goto(h, "failed")
      \/ ox' = Append(ox, Oxuser(h))
         /\ Become(h, {[h EXCEPT !.pc = "check", !.ox = Len(ox) + 1, !.row.ox = Len(ox) + 1]})
  BY DEF CreateUser
<1> QED
  BY <1>4, <1>5, <1>6, <1>7

LEMMA ChangeUserTyped ==
    ASSUME EmailAssumption, EmailTypeInv, NEW h \in BagToSet(handlers), ChangeUser(h)
    PROVE  EmailTypeInv'
<1> DEFINE name == <<h.p, h.user>>
           changed == [ox EXCEPT ![h.ox].username = name, ![h.ox].primary = h.row.address]
           told == [h EXCEPT !.mail = h.row.address]
<1>1. HandlerOK(h) /\ OxOK /\ CountsOK' /\ UNCHANGED <<Outside, table, oxGroups, kc>>
      /\ h.kind \in {"change", "changeDisabled"} /\ h.pc = "user"
  BY Typed, CountsKept DEF ChangeUser, Outside
<1>2. RowOK(h.row) /\ h.p \in Persons /\ h.user \in Nat
  BY <1>1 DEF HandlerOK, WithRow
<1>3. h.row.address \in Address /\ Numbered(h.row.address)
  BY <1>2 DEF RowOK, Row
<1>4. ASSUME ox' \in {ox, changed} PROVE OxOK' /\ Len(ox) <= Len(ox') /\ oxGroups \subseteq oxGroups'
  <2>1. CASE ox' = ox
    BY <2>1, <1>1 DEF OxOK, OxUser
  <2>2. CASE ox' = changed
    <3> DEFINE u == [ox[h.ox] EXCEPT !.username = name, !.primary = h.row.address]
    <3>1. name \in (Persons \cup {Nobody}) \X Nat
      BY <1>2
    <3>2. h.ox \in DOMAIN ox => u \in OxUser
      <4> SUFFICES ASSUME h.ox \in DOMAIN ox PROVE u \in OxUser
        OBVIOUS
      <4>1. ox[h.ox] \in OxUser
        BY <1>1 DEF OxOK
      <4> QED
        BY <4>1, <3>1, <1>3 DEF OxUser
    <3>3. ox' = [ox EXCEPT ![h.ox] = u]
      BY <2>2
    <3>4. PICK v : v = u
      OBVIOUS
    <3> HIDE DEF u
    <3>5. h.ox \in DOMAIN ox => v \in OxUser
      BY <3>2, <3>4
    <3>6. ox' = [ox EXCEPT ![h.ox] = v]
      BY <3>3, <3>4
    <3>7. OxOK' /\ Len(ox') = Len(ox) /\ Len(ox) \in Nat
      BY <3>5, <3>6, <1>1, UserChangedTyped
    <3> QED
      BY <3>7, <1>1
  <2> QED
    BY <1>4, <2>1, <2>2
<1>5. HandlerOK(told)
  <2>1. /\ DOMAIN told = Fields /\ told.kind = h.kind /\ told.p = h.p /\ told.pc = h.pc /\ told.user = h.user
        /\ told.row = h.row /\ told.school = h.school /\ told.mail = h.row.address
        /\ told.removed = h.removed /\ told.ox = h.ox /\ told.seen = h.seen /\ told.todo = h.todo
    BY <1>1 DEF HandlerOK, Fields
  <2> HIDE DEF told
  <2> QED
    BY <2>1, <1>1, <1>3 DEF HandlerOK, PcOK, WithRow
<1> HIDE DEF told, changed
<1>6. HandlerOK(Sub(told, "kcChanged")) /\ HandlerOK(Sub(told, "disabledOx"))
  BY <1>5, SubTyped
<1>7. HandlerOK([h EXCEPT !.pc = "failed"])
  <2> DEFINE g == [h EXCEPT !.pc = "failed"]
  <2>1. /\ DOMAIN g = Fields /\ g.kind = h.kind /\ g.p = h.p /\ g.pc = "failed" /\ g.user = h.user /\ g.row = h.row
        /\ g.removed = h.removed /\ g.ox = h.ox /\ g.mail = h.mail /\ g.seen = h.seen /\ g.todo = h.todo
    BY <1>1 DEF HandlerOK, Fields
  <2> HIDE DEF g
  <2>2. HandlerOK(g)
    BY <2>1, <1>1, <1>2 DEF HandlerOK, PcOK, WithRow, Listing
  <2> QED
    BY <2>2 DEF g
<1>8. /\ ox' \in {ox, changed}
      /\ \/ Become(h, {Sub(told, "kcChanged")}) \/ Become(h, {Sub(told, "disabledOx")})
         \/ Become(h, {[h EXCEPT !.pc = "failed"]})
  BY DEF ChangeUser, Goto, told, changed
<1>9. PICK next : Become(h, next) /\ \A x \in next : HandlerOK(x)
  BY <1>6, <1>7, <1>8
<1>10. OxOK' /\ Len(ox) <= Len(ox') /\ oxGroups \subseteq oxGroups'
  BY <1>4, <1>8
<1> QED
  BY <1>1, <1>9, <1>10, OxChangedTyped

LEMMA CreateGroupTyped ==
    ASSUME EmailAssumption, EmailTypeInv, NEW h \in BagToSet(handlers), CreateGroup(h)
    PROVE  EmailTypeInv'
<1>1. HandlerOK(h) /\ OxOK /\ CountsOK' /\ UNCHANGED <<Outside, table, ox, kc>>
      /\ h.pc = "createGroup" /\ oxGroups' = oxGroups \cup {h.school}
  BY Typed, CountsKept DEF CreateGroup, Outside
<1>2. OxOK' /\ Len(ox) <= Len(ox') /\ oxGroups \subseteq oxGroups'
  <2>1. OxUser \subseteq OxUser'
    BY <1>1 DEF OxUser
  <2>2. Len(ox) \in Nat /\ ox \in Seq(OxUser') /\ ox' = ox
    BY <2>1, <1>1 DEF OxOK
  <2> QED
    BY <2>2, <1>1 DEF OxOK
<1>3. CASE Goto(h, "add")
  <2> DEFINE g == [h EXCEPT !.pc = "add"]
  <2>1. /\ DOMAIN g = Fields /\ g.kind = h.kind /\ g.p = h.p /\ g.pc = "add" /\ g.user = h.user /\ g.row = h.row
        /\ g.removed = h.removed /\ g.ox = h.ox /\ g.mail = h.mail /\ g.seen = h.seen /\ g.todo = h.todo
        /\ g.school = h.school
    BY <1>1 DEF HandlerOK, Fields
  <2>2. Become(h, {g})
    BY <1>3 DEF Goto
  <2> HIDE DEF g
  <2>3. HandlerOK(h)'
    <3>1. EmailsOK /\ EmailsOK'
      <4>1. EmailsOK /\ UNCHANGED <<emails, updated, ox>>
        BY <1>1, Typed DEF table
      <4> QED
        BY <4>1 DEF EmailsOK, Numbered
    <3>2. Grown
      BY <1>1, <1>2, <3>1 DEF Grown, table, EmailsOK
    <3> QED
      BY <3>1, <3>2, <1>1, <1>2, StaysOK
  <2>4. h.kind \in {"create", "exists"}
    BY <1>1 DEF HandlerOK, PcOK
  <2>5. PcOK(g) /\ (WithRow(g) => WithRow(h)) /\ g.school \in oxGroups'
    BY <2>1, <2>4, <1>1 DEF PcOK, WithRow
  <2>6. HandlerOK(g)'
    BY <2>1, <2>3, <2>4, <2>5 DEF HandlerOK, PcOK, WithRow, Listing
  <2> QED
    BY <2>2, <2>6, <1>1, <1>2, OxChangedTyped
<1>4. CASE Gives(h)
  <2>1. PICK next : Become(h, next) /\ \A g \in next : HandlerOK(g)
    BY <1>1, <1>4, GivesTyped
  <2> QED
    BY <2>1, <1>1, <1>2, OxChangedTyped
<1> QED
  BY <1>3, <1>4 DEF CreateGroup

\* A user that leaves or joins a group that there is.
LEMMA GroupsTyped ==
    ASSUME OxOK, NEW n, NEW groups, groups \subseteq oxGroups \/ (n \in DOMAIN ox => groups \subseteq oxGroups),
           ox' = [ox EXCEPT ![n].groups = groups], oxGroups' = oxGroups
    PROVE  OxOK' /\ Len(ox) <= Len(ox')
<1> DEFINE u == [ox[n] EXCEPT !.groups = groups]
<1>1. ox' = [ox EXCEPT ![n] = u]
  OBVIOUS
<1>2. n \in DOMAIN ox => u \in OxUser
  <2> SUFFICES ASSUME n \in DOMAIN ox PROVE u \in OxUser
    OBVIOUS
  <2>1. ox[n] \in OxUser
    BY DEF OxOK
  <2> QED
    BY <2>1 DEF OxUser
<1>3. PICK v : v = u
  OBVIOUS
<1> HIDE DEF u
<1>4. n \in DOMAIN ox => v \in OxUser
  BY <1>2, <1>3
<1>5. ox' = [ox EXCEPT ![n] = v]
  BY <1>1, <1>3
<1>6. OxOK' /\ Len(ox') = Len(ox) /\ Len(ox) \in Nat
  BY <1>4, <1>5, UserChangedTyped
<1> QED
  BY <1>6

LEMMA AddMemberTyped ==
    ASSUME EmailAssumption, EmailTypeInv, NEW h \in BagToSet(handlers), AddMember(h)
    PROVE  EmailTypeInv'
<1> DEFINE groups == ox[h.ox].groups \cup {h.school}
           added == [ox EXCEPT ![h.ox].groups = groups]
           mail == IF h.kind = "create" THEN h.row.address ELSE h.mail
           told == [h EXCEPT !.mail = mail]
<1>1. HandlerOK(h) /\ OxOK /\ CountsOK' /\ UNCHANGED <<Outside, table, oxGroups, kc>> /\ h.pc = "add"
  BY Typed, CountsKept DEF AddMember, Outside
<1>2. ASSUME ox' \in {ox, added} PROVE OxOK' /\ Len(ox) <= Len(ox') /\ oxGroups \subseteq oxGroups'
  <2>1. CASE ox' = ox
    BY <2>1, <1>1 DEF OxOK, OxUser
  <2>2. CASE ox' = added
    <3>1. h.ox \in DOMAIN ox => groups \subseteq oxGroups
      <4> SUFFICES ASSUME h.ox \in DOMAIN ox PROVE groups \subseteq oxGroups
        OBVIOUS
      <4>1. ox[h.ox] \in OxUser /\ h.school \in oxGroups
        BY <1>1 DEF OxOK, HandlerOK
      <4> QED
        BY <4>1 DEF OxUser
    <3> HIDE DEF groups
    <3> QED
      BY <3>1, <2>2, <1>1, GroupsTyped
  <2> QED
    BY <1>2, <2>1, <2>2
<1>3. HandlerOK(told)
  <2>1. mail \in Address /\ (mail # <<0, 0>> => Numbered(mail))
    <3>1. h.kind = "create" => h.row.address \in Address /\ Numbered(h.row.address)
      BY <1>1 DEF HandlerOK, WithRow, RowOK, Row
    <3> QED
      BY <3>1, <1>1 DEF HandlerOK
  <2> HIDE DEF mail
  <2>2. /\ DOMAIN told = Fields /\ told.kind = h.kind /\ told.p = h.p /\ told.pc = h.pc /\ told.user = h.user
        /\ told.row = h.row /\ told.school = h.school /\ told.mail = mail
        /\ told.removed = h.removed /\ told.ox = h.ox /\ told.seen = h.seen /\ told.todo = h.todo
    BY <1>1 DEF HandlerOK, Fields
  <2> HIDE DEF told
  <2> QED
    BY <2>1, <2>2, <1>1 DEF HandlerOK, PcOK, WithRow
<1>4. HandlerOK(Sub(told, "kcChanged"))
  <2> HIDE DEF told
  <2> QED
    BY <1>3, SubTyped
<1>5. ox' \in {ox, added} /\ (Become(h, {Sub(told, "kcChanged")}) \/ Gives(h))
  BY DEF AddMember
<1> HIDE DEF told, added
<1>6. PICK next : Become(h, next) /\ \A x \in next : HandlerOK(x)
  <2>1. CASE Gives(h)
    BY <2>1, <1>1, GivesTyped
  <2>2. CASE Become(h, {Sub(told, "kcChanged")})
    BY <2>2, <1>4
  <2> QED
    BY <2>1, <2>2, <1>5
<1>7. OxOK' /\ Len(ox) <= Len(ox') /\ oxGroups \subseteq oxGroups'
  BY <1>2, <1>5
<1> QED
  BY <1>1, <1>6, <1>7, OxChangedTyped

LEMMA RemoveMemberTyped ==
    ASSUME EmailAssumption, EmailTypeInv, NEW h \in BagToSet(handlers), RemoveMember(h)
    PROVE  EmailTypeInv'
<1>1. PICK s \in h.todo :
           LET left == h.todo \ {s}
               done == [ox EXCEPT ![h.ox].groups = @ \ {s}]
               next == CASE left # {} -> {[h EXCEPT !.todo = left]}
                         [] left = {} /\ h.kind = "oxDeleted" -> {[h EXCEPT !.todo = {}, !.pc = "free"]}
                         [] OTHER -> {}
           IN  \/ /\ h.kind = "oxUpdated" /\ s \notin oxGroups
                  /\ End(h) /\ UNCHANGED ox /\ Fine
               \/ /\ h.kind # "oxUpdated" \/ s \in oxGroups
                  /\ Become(h, next)
                  /\ \/ ox' = done /\ Fine
                     \/ ox' \in {ox, done} /\ Trouble
  BY Zenon DEF RemoveMember
<1> DEFINE left == h.todo \ {s}
           groups == ox[h.ox].groups \ {s}
           done == [ox EXCEPT ![h.ox].groups = groups]
           g == [h EXCEPT !.todo = left]
           f == [h EXCEPT !.todo = {}, !.pc = "free"]
<1>2. HandlerOK(h) /\ OxOK /\ CountsOK' /\ UNCHANGED <<Outside, table, oxGroups, kc>> /\ h.pc = "leave"
  <2>1. Fine \/ Trouble
    BY <1>1
  <2>2. UNCHANGED <<Outside, table, oxGroups, kc>> /\ h.pc = "leave"
    BY DEF RemoveMember
  <2> QED
    BY <2>1, <2>2, Typed, CountsKept DEF Outside
<1>3. h.kind \in {"oxUpdated", "oxDisabled", "oxDeleted"}
  BY <1>2 DEF HandlerOK, PcOK
<1>4. HandlerOK(g)
  <2>1. /\ DOMAIN g = Fields /\ g.kind = h.kind /\ g.p = h.p /\ g.pc = "leave" /\ g.user = h.user /\ g.row = h.row
        /\ g.removed = h.removed /\ g.ox = h.ox /\ g.mail = h.mail /\ g.seen = h.seen
    BY <1>2 DEF HandlerOK, Fields
  <2> HIDE DEF g
  <2> QED
    BY <2>1, <1>2, <1>3 DEF HandlerOK, PcOK, WithRow, Listing
<1>5. h.kind = "oxDeleted" => HandlerOK(f)
  <2>1. /\ DOMAIN f = Fields /\ f.kind = h.kind /\ f.p = h.p /\ f.pc = "free" /\ f.user = h.user /\ f.row = h.row
        /\ f.removed = h.removed /\ f.ox = h.ox /\ f.mail = h.mail /\ f.seen = h.seen
    BY <1>2 DEF HandlerOK, Fields
  <2> HIDE DEF f
  <2> QED
    BY <2>1, <1>2, <1>3 DEF HandlerOK, PcOK, WithRow, Listing
<1>6. /\ ox' \in {ox, done}
      /\ Become(h, {}) \/ Become(h, {g}) \/ (h.kind = "oxDeleted" /\ Become(h, {f}))
  BY <1>1 DEF End
<1> HIDE DEF g, f
<1>7. PICK next : Become(h, next) /\ \A x \in next : HandlerOK(x)
  BY <1>4, <1>5, <1>6
<1>8. OxOK' /\ Len(ox) <= Len(ox') /\ oxGroups \subseteq oxGroups'
  <2>1. CASE ox' = ox
    BY <2>1, <1>2 DEF OxOK, OxUser
  <2>2. CASE ox' = done
    <3>1. h.ox \in DOMAIN ox => groups \subseteq oxGroups
      <4> SUFFICES ASSUME h.ox \in DOMAIN ox PROVE groups \subseteq oxGroups
        OBVIOUS
      <4>1. ox[h.ox] \in OxUser
        BY <1>2 DEF OxOK
      <4> QED
        BY <4>1 DEF OxUser
    <3> HIDE DEF groups
    <3> QED
      BY <3>1, <2>2, <1>2, GroupsTyped
  <2> QED
    BY <1>6, <2>1, <2>2
<1> QED
  BY <1>2, <1>7, <1>8, OxChangedTyped

LEMMA FreesUsernameTyped ==
    ASSUME EmailAssumption, EmailTypeInv, NEW h \in BagToSet(handlers), FreeUsername(h)
    PROVE  EmailTypeInv'
<1>1. HandlerOK(h) /\ OxOK /\ CountsOK' /\ UNCHANGED <<Outside, table, oxGroups, kc>> /\ Become(h, {})
      /\ ox' \in {ox, [ox EXCEPT ![h.ox].username = Freed]}
  BY Typed, CountsKept DEF FreeUsername, Outside, End
<1>2. CASE ox' = ox
  <2>1. OxOK' /\ Len(ox) <= Len(ox')
    BY <1>1, <1>2 DEF OxOK, OxUser
  <2> QED
    BY <2>1, <1>1, OxChangedTyped
<1>3. CASE ox' = [ox EXCEPT ![h.ox].username = Freed]
  <2> DEFINE u == [ox[h.ox] EXCEPT !.username = Freed]
  <2>1. ox' = [ox EXCEPT ![h.ox] = u]
    BY <1>3
  <2>2. h.ox \in DOMAIN ox => u \in OxUser
    <3> SUFFICES ASSUME h.ox \in DOMAIN ox PROVE u \in OxUser
      OBVIOUS
    <3>1. ox[h.ox] \in OxUser
      BY <1>1 DEF OxOK
    <3>2. Freed \in (Persons \cup {Nobody}) \X Nat
      BY DEF Freed
    <3> QED
      BY <3>1, <3>2 DEF OxUser
  <2>3. PICK v : v = u
    OBVIOUS
  <2> HIDE DEF u
  <2>4. h.ox \in DOMAIN ox => v \in OxUser
    BY <2>2, <2>3
  <2>5. ox' = [ox EXCEPT ![h.ox] = v]
    BY <2>1, <2>3
  <2>6. OxOK' /\ Len(ox') = Len(ox) /\ Len(ox) \in Nat
    BY <2>4, <2>5, <1>1, UserChangedTyped
  <2>7. OxOK' /\ Len(ox) <= Len(ox')
    BY <2>6
  <2> QED
    BY <2>7, <1>1, OxChangedTyped
<1> QED
  BY <1>1, <1>2, <1>3


\* A step that changes what Keycloak knows.
LEMMA KcChangedTyped ==
    ASSUME EmailTypeInv, NEW h \in BagToSet(handlers), NEW next, Become(h, next), CountsOK',
           UNCHANGED <<Outside, table, OxData>>,
           NEW name \in Int, name \in -1 .. db[h.p].name,
           kc' = kc \/ kc' = [kc EXCEPT ![h.p] = name],
           \A g \in next : HandlerOK(g)
    PROVE  EmailTypeInv'
<1>1. EmailsOK /\ OxOK /\ DbOK /\ h.p \in Persons /\ UNCHANGED <<db, events, emails, updated, ox, oxGroups>>
  BY Typed DEF Outside, table, OxData
<1>2. EmailsOK' /\ OxOK'
  BY <1>1 DEF EmailsOK, OxOK, OxUser, Numbered
<1>3. Grown
  BY <1>1 DEF EmailsOK, OxOK, Grown
<1>4. DbOK'
  <2>1. kc' \in [Persons -> Int]
    BY <1>1 DEF DbOK
  <2>2. \A p \in Persons : kc'[p] \in -1 .. db[p].name
    BY <1>1 DEF DbOK
  <2> QED
    BY <2>1, <2>2, <1>1 DEF DbOK
<1>5. \A g \in next : HandlerOK(g)'
  BY <1>1, <1>2, <1>3, StaysOK
<1> QED
  BY <1>2, <1>3, <1>4, <1>5, HandlerGoesOn

LEMMA AttributesTyped ==
    ASSUME EmailAssumption, EmailTypeInv, NEW h \in BagToSet(handlers),
           UpdateAttributes(h) \/ RemoveAttributes(h)
    PROVE  EmailTypeInv'
<1>1. HandlerOK(h) /\ CountsOK' /\ UNCHANGED <<Outside, table, OxData>>
  <2>1. (Fine \/ Trouble) /\ UNCHANGED <<Outside, table, OxData>>
    BY DEF UpdateAttributes, RemoveAttributes
  <2> QED
    BY <2>1, Typed, CountsKept DEF Outside
<1>2. h.user \in Nat /\ h.p \in Persons /\ db[h.p].name \in Nat
  BY Typed DEF HandlerOK
<1>3. HandlerOK(Sub(h, "metadata"))
  BY <1>1, SubTyped
<1>4. CASE KnownInKeycloak(h) /\ kc' = [kc EXCEPT ![h.p] = h.user] /\ Become(h, {Sub(h, "metadata")})
  <2>1. PICK name, next : name = h.user /\ next = {Sub(h, "metadata")}
    OBVIOUS
  <2>2. name \in Int /\ name \in -1 .. db[h.p].name
    BY <1>2, <1>4, <2>1 DEF KnownInKeycloak
  <2>3. \A g \in next : HandlerOK(g)
    BY <1>3, <2>1
  <2>4. kc' = [kc EXCEPT ![h.p] = name] /\ Become(h, next)
    BY <1>4, <2>1
  <2> QED
    BY <2>2, <2>3, <2>4, <1>1, KcChangedTyped
<1>5. CASE (kc' = kc \/ kc' = [kc EXCEPT ![h.p] = 0]) /\ End(h)
  <2>1. 0 \in Int /\ 0 \in -1 .. db[h.p].name /\ Become(h, {})
    BY <1>2, <1>5 DEF End
  <2> QED
    BY <2>1, <1>1, <1>5, KcChangedTyped
<1> QED
  BY <1>4, <1>5 DEF UpdateAttributes, RemoveAttributes

LEMMA DeleteRowTyped ==
    ASSUME EmailAssumption, EmailTypeInv, NEW h \in BagToSet(handlers), DeleteRow(h)
    PROVE  EmailTypeInv'
<1>1. /\ HandlerOK(h) /\ EmailsOK /\ OxOK /\ DbOK /\ CountsOK' /\ h.p \in Persons /\ Become(h, {})
      /\ UNCHANGED <<updated, ox, oxGroups, kc, events>>
  BY Typed, CountsKept DEF DeleteRow, OxData, End
<1>2. DbOK'
  <2>1. db' = [db EXCEPT ![h.p].gone = TRUE, ![h.p].kontexte = {}]
    BY DEF DeleteRow
  <2>2. \A p \in Persons : db'[p] \in [name : Nat \ {0}, kontexte : SUBSET Kontexte, gone : BOOLEAN]
                           /\ db'[p].name = db[p].name
    BY <2>1, <1>1 DEF DbOK
  <2>3. db' \in [Persons -> [name : Nat \ {0}, kontexte : SUBSET Kontexte, gone : BOOLEAN]]
    BY <2>1, <2>2, <1>1 DEF DbOK
  <2> QED
    BY <2>2, <2>3, <1>1 DEF DbOK
<1>3. /\ DOMAIN emails' = DOMAIN emails
      /\ \A i \in DOMAIN emails :
            emails'[i] = IF emails[i].owner = h.p THEN [emails[i] EXCEPT !.owner = Nobody] ELSE emails[i]
  BY DEF DeleteRow
<1>4. Len(emails') = Len(emails) /\ emails' \in Seq(Row) /\ Len(emails) \in Nat
      /\ \A i \in DOMAIN emails : /\ emails'[i].id = emails[i].id /\ emails'[i].ox = emails[i].ox
                                  /\ emails'[i].address = emails[i].address
  <2>1. \A i \in DOMAIN emails : emails[i] \in Row
    BY <1>1 DEF EmailsOK
  <2>2. \A i \in DOMAIN emails : /\ emails'[i] \in Row /\ emails'[i].id = emails[i].id
                                 /\ emails'[i].ox = emails[i].ox /\ emails'[i].address = emails[i].address
    BY <2>1, <1>3 DEF Row
  <2>3. DOMAIN emails = 1 .. Len(emails) /\ Len(emails) \in Nat
    BY <1>1 DEF EmailsOK
  <2>4. emails' \in [1 .. Len(emails) -> Row]
    <3>1. emails' = [i \in DOMAIN emails |->
                     IF emails[i].owner = h.p THEN [emails[i] EXCEPT !.owner = Nobody] ELSE emails[i]]
      BY DEF DeleteRow
    <3> QED
      BY <3>1, <2>2, <2>3, <1>3
  <2> QED
    BY <2>2, <2>3, <2>4
<1>5. EmailsOK'
  <2>1. \A i \in DOMAIN emails : Numbered(emails[i].address)'
    BY <1>1, <1>4 DEF EmailsOK, Numbered
  <2>2. \A i \in DOMAIN emails : emails'[i].id = i /\ emails'[i].ox <= Len(ox') /\ Numbered(emails[i].address)'
    BY <2>1, <1>1, <1>3, <1>4 DEF EmailsOK, Numbered
  <2>3. updated' \in [DOMAIN emails' -> Nat \ {0}]
    BY <1>1, <1>3 DEF EmailsOK
  <2>4. \A i, j \in DOMAIN emails' : i # j => emails'[i].address # emails'[j].address
    BY <1>1, <1>3, <1>4 DEF EmailsOK
  <2> QED
    BY <2>2, <2>3, <2>4, <1>3, <1>4 DEF EmailsOK, Numbered
<1>6. OxOK' /\ Grown
  BY <1>1, <1>4 DEF OxOK, OxUser, Grown
<1> QED
  BY <1>1, <1>2, <1>5, <1>6, HandlerGoesOn

LEMMA StepTyped ==
    ASSUME EmailAssumption, EmailTypeInv, NEW h \in BagToSet(handlers), Step(h) PROVE EmailTypeInv'
<1>1. CASE HandlePerson(h) \/ DisableOne(h) \/ CreateOrEnable(h) \/ HandleRenamed(h) \/ Retire(h)
  BY <1>1, HandlePersonTyped, DisableOneTyped, CreateOrEnableTyped, HandleRenamedTyped, RetireTyped
<1>2. CASE ChooseAddress(h) \/ Check(h) \/ Save(h) \/ Enable(h) \/ EnableDisabled(h) \/ Deactivate(h)
  BY <1>2, ChooseAddressTyped, CheckTyped, SaveTyped, EnableTyped, EnableDisabledTyped, DeactivateTyped
<1>3. CASE FindRequested(h) \/ ExistsUser(h) \/ CreateUser(h) \/ ChangeUser(h)
  BY <1>3, FindRequestedTyped, ExistsUserTyped, CreateUserTyped, ChangeUserTyped
<1>4. CASE AlreadyExists(h) \/ FindGroup(h) \/ CreateGroup(h) \/ AddMember(h) \/ MarkFailed(h)
  BY <1>4, AlreadyExistsTyped, FindGroupTyped, CreateGroupTyped, AddMemberTyped, MarkFailedTyped
<1>5. CASE \/ RemoveMember(h) \/ LeaveRemoved(h) \/ LeaveDisabled(h) \/ LeaveDeleted(h) \/ FreeUsername(h)
           \/ UpdateAttributes(h) \/ RemoveAttributes(h) \/ DeleteRow(h)
  BY <1>5, RemoveMemberTyped, LeaveRemovedTyped, LeaveDisabledTyped, LeaveDeletedTyped, FreesUsernameTyped,
     AttributesTyped, DeleteRowTyped
<1> QED
  BY <1>1, <1>2, <1>3, <1>4, <1>5 DEF Step

\* The handlers of an event from outside.
LEMMA HandlerTyped ==
    ASSUME EmailTypeInv, NEW p \in Persons,
           NEW kind \in {"person", "oxUpdated", "renamed", "deleted", "oxDeleted", "deleteRow"},
           NEW g, DOMAIN g = Fields, g.kind = kind, g.p = p, g.pc = "start", g.user \in Nat \ {0},
           g.removed \subseteq Kontexte, g.todo = {}, g.ox = 0,
           g.mail \in Address, g.mail # <<0, 0>> => Numbered(g.mail), g.seen = Loaded(p)
    PROVE  HandlerOK(g)
<1>1. PcOK(g) /\ ~WithRow(g)
  BY DEF PcOK, WithRow
<1>2. EmailsOK /\ OxOK
  BY DEF EmailTypeInv
<1>3. Len(ox) \in Nat
  BY <1>2 DEF OxOK
<1>4. DOMAIN g.seen = RowsOf(p) /\ RowsOf(p) \subseteq DOMAIN emails
  BY DEF Loaded, RowsOf
<1>5. g.seen \in [DOMAIN g.seen -> Nat]
  <2>1. \A i \in RowsOf(p) : updated[i] \in Nat
    BY <1>2, <1>4 DEF EmailsOK
  <2> QED
    BY <2>1, <1>4 DEF Loaded
<1> QED
  BY <1>1, <1>3, <1>4, <1>5 DEF HandlerOK

LEMMA BeginsTyped ==
    ASSUME EmailAssumption, EmailTypeInv, NEW next, PublishAll(next), DbOK',
           \A g \in next : HandlerOK(g)
    PROVE  EmailTypeInv'
<1>1. EmailsOK /\ OxOK /\ UNCHANGED <<emails, updated, ox, oxGroups>> /\ CountsOK
  BY DEF EmailTypeInv, PublishAll, table, OxData
<1>2. EmailsOK' /\ OxOK'
  BY <1>1 DEF EmailsOK, OxOK, OxUser, Numbered
<1>3. Grown
  BY <1>1 DEF EmailsOK, OxOK, Grown
<1>4. CountsOK'
  BY <1>1 DEF CountsOK, PublishAll, Fine, EmailAssumption
<1>5. IsABag(handlers') /\ BagToSet(handlers') = BagToSet(handlers) \cup next
  <2>1. handlers' = handlers (+) SetToBag(next)
    BY DEF PublishAll
  <2> QED
    BY <2>1, BagBegun DEF EmailTypeInv, HandlersOK
<1>6. \A g \in BagToSet(handlers) \cup next : HandlerOK(g)'
  BY <1>1, <1>2, <1>3, StaysOK DEF EmailTypeInv, HandlersOK
<1> QED
  BY <1>2, <1>4, <1>5, <1>6 DEF EmailTypeInv, HandlersOK

\* The database may know a new name or other Personenkontexte.
LEMMA PersonChangedTyped ==
    ASSUME EmailTypeInv, NEW p \in Persons, NEW name, NEW kontexte \in SUBSET Kontexte,
           name = db[p].name \/ name = db[p].name + 1,
           db' = [db EXCEPT ![p].name = name, ![p].kontexte = kontexte],
           events' = events + 1, kc' = kc
    PROVE  DbOK'
<1>1. DbOK /\ events \in Nat
  BY DEF EmailTypeInv, CountsOK
<1>2. \A q \in Persons : /\ db[q] \in [name : Nat \ {0}, kontexte : SUBSET Kontexte, gone : BOOLEAN]
                         /\ db[q].name \in Nat \ {0} /\ db[q].name <= 1 + events
                         /\ kc[q] \in Int /\ kc[q] \in -1 .. db[q].name
  BY <1>1 DEF DbOK
<1>3. name \in Nat \ {0} /\ name <= 1 + events'
  BY <1>1, <1>2
<1>4. \A q \in Persons : /\ db'[q] \in [name : Nat \ {0}, kontexte : SUBSET Kontexte, gone : BOOLEAN]
                         /\ q # p => db'[q] = db[q]
                         /\ q = p => db'[q].name = name
  BY <1>1, <1>2, <1>3 DEF DbOK
<1>5. db' \in [Persons -> [name : Nat \ {0}, kontexte : SUBSET Kontexte, gone : BOOLEAN]]
  BY <1>1, <1>4 DEF DbOK
<1>6. \A q \in Persons : db'[q].name <= 1 + events' /\ kc'[q] \in -1 .. db'[q].name
  <2> SUFFICES ASSUME NEW q \in Persons PROVE db'[q].name <= 1 + events' /\ kc'[q] \in -1 .. db'[q].name
    OBVIOUS
  <2>1. kc'[q] = kc[q] /\ kc[q] \in Int /\ kc[q] \in -1 .. db[q].name /\ db[q].name \in Nat /\ db[q].name <= 1 + events
    BY <1>2
  <2>2. PICK old : old = db[q].name
    OBVIOUS
  <2>3. db'[q].name \in Nat /\ (db'[q].name = old \/ db'[q].name = old + 1)
    BY <2>2, <1>2, <1>3, <1>4
  <2>4. db'[q].name <= 1 + events'
    <3>1. CASE q = p
      BY <3>1, <1>3, <1>4
    <3>2. CASE q # p
      <4>1. db'[q].name = old /\ old \in Nat /\ old <= 1 + events /\ events' = events + 1
        BY <3>2, <2>1, <2>2, <1>4
      <4> QED
        BY <4>1, <1>1
    <3> QED
      BY <3>1, <3>2
  <2>5. kc[q] \in -1 .. old /\ old \in Nat
    BY <2>1, <2>2
  <2> QED
    BY <2>1, <2>3, <2>4, <2>5
<1>7. kc' \in [Persons -> Int]
  BY <1>1 DEF DbOK
<1> QED
  BY <1>5, <1>6, <1>7 DEF DbOK

LEMMA UpdateTyped ==
    ASSUME EmailAssumption, EmailTypeInv, NEW p \in Persons, NEW kontexte \in SUBSET Kontexte,
           Update(p, kontexte)
    PROVE  EmailTypeInv'
<1>1. db[p] \in [name : Nat \ {0}, kontexte : SUBSET Kontexte, gone : BOOLEAN]
  BY DEF EmailTypeInv, DbOK
<1>2. DbOK'
  <2>1. PICK name : name = db[p].name
    OBVIOUS
  <2>2. db' = [db EXCEPT ![p].name = name, ![p].kontexte = kontexte]
    <3>1. db' = [db EXCEPT ![p].kontexte = kontexte]
      BY DEF Update
    <3>2. \A q \in Persons : db[q] = [db[q] EXCEPT !.name = @]
      BY DEF EmailTypeInv, DbOK
    <3> QED
      BY <3>1, <3>2, <2>1, <1>1 DEF EmailTypeInv, DbOK
  <2> QED
    BY <2>1, <2>2, PersonChangedTyped DEF Update, PublishAll
<1> DEFINE g == Handler("person", p)
           h == [Handler("oxUpdated", p) EXCEPT !.removed = db[p].kontexte \ kontexte]
<1>3. HandlerOK(g)
  <2>1. /\ DOMAIN g = Fields /\ g.kind = "person" /\ g.p = p /\ g.pc = "start" /\ g.user = db[p].name
        /\ g.removed = {} /\ g.todo = {} /\ g.ox = 0 /\ g.mail = <<0, 0>> /\ g.seen = Loaded(p)
    BY DEF Handler, Fields
  <2>2. <<0, 0>> \in Address
    BY DEF Address
  <2> HIDE DEF g
  <2> QED
    BY <2>1, <2>2, <1>1, HandlerTyped
<1>4. HandlerOK(h)
  <2>1. /\ DOMAIN h = Fields /\ h.kind = "oxUpdated" /\ h.p = p /\ h.pc = "start" /\ h.user = db[p].name
        /\ h.removed = db[p].kontexte \ kontexte /\ h.todo = {} /\ h.ox = 0 /\ h.mail = <<0, 0>> /\ h.seen = Loaded(p)
    BY DEF Handler, Fields
  <2>2. <<0, 0>> \in Address
    BY DEF Address
  <2> HIDE DEF h
  <2> QED
    BY <2>1, <2>2, <1>1, HandlerTyped
<1>5. PublishAll({g, h})
  BY DEF Update
<1> HIDE DEF g, h
<1> QED
  BY <1>2, <1>3, <1>4, <1>5, BeginsTyped

LEMMA RenameTyped ==
    ASSUME EmailAssumption, EmailTypeInv, NEW p \in Persons, Rename(p)
    PROVE  EmailTypeInv'
<1>1. db[p] \in [name : Nat \ {0}, kontexte : SUBSET Kontexte, gone : BOOLEAN]
  BY DEF EmailTypeInv, DbOK
<1>2. DbOK'
  <2>1. PICK name, kontexte : name = db[p].name + 1 /\ kontexte = db[p].kontexte
    OBVIOUS
  <2>2. db' = [db EXCEPT ![p].name = name, ![p].kontexte = kontexte]
    BY <2>1, <1>1 DEF Rename, EmailTypeInv, DbOK
  <2>3. kontexte \in SUBSET Kontexte
    BY <2>1, <1>1
  <2>4. events' = events + 1 /\ kc' = kc
    BY DEF Rename, PublishAll
  <2>5. name = db[p].name \/ name = db[p].name + 1
    BY <2>1
  <2> QED
    BY <2>2, <2>3, <2>4, <2>5, PersonChangedTyped
<1> DEFINE g == [Handler("renamed", p) EXCEPT !.user = @ + 1]
<1>3. HandlerOK(g)
  <2>1. /\ DOMAIN g = Fields /\ g.kind = "renamed" /\ g.p = p /\ g.pc = "start" /\ g.user = db[p].name + 1
        /\ g.removed = {} /\ g.todo = {} /\ g.ox = 0 /\ g.mail = <<0, 0>> /\ g.seen = Loaded(p)
    BY DEF Handler, Fields
  <2>2. <<0, 0>> \in Address
    BY DEF Address
  <2> HIDE DEF g
  <2>3. g.user \in Nat \ {0}
    BY <2>1, <1>1
  <2> QED
    BY <2>1, <2>2, <2>3, <1>1, HandlerTyped
<1>4. PublishAll({g})
  BY DEF Rename
<1> HIDE DEF g
<1> QED
  BY <1>2, <1>3, <1>4, BeginsTyped

LEMMA UpdateRolleTyped ==
    ASSUME EmailAssumption, EmailTypeInv, NEW r, UpdateRolle(r)
    PROVE  EmailTypeInv'
<1>1. DbOK'
  BY DEF UpdateRolle, PublishAll, EmailTypeInv, DbOK, CountsOK
<1>2. \A p \in Persons : HandlerOK(Handler("person", p))
  <2> SUFFICES ASSUME NEW p \in Persons PROVE HandlerOK(Handler("person", p))
    OBVIOUS
  <2>0. db[p] \in [name : Nat \ {0}, kontexte : SUBSET Kontexte, gone : BOOLEAN]
    BY DEF EmailTypeInv, DbOK
  <2> DEFINE g == Handler("person", p)
  <2>1. /\ DOMAIN g = Fields /\ g.kind = "person" /\ g.p = p /\ g.pc = "start" /\ g.user = db[p].name
        /\ g.removed = {} /\ g.todo = {} /\ g.ox = 0 /\ g.mail = <<0, 0>> /\ g.seen = Loaded(p)
    BY DEF Handler, Fields
  <2>2. <<0, 0>> \in Address
    BY DEF Address
  <2> HIDE DEF g
  <2>3. HandlerOK(g)
    BY <2>0, <2>1, <2>2, HandlerTyped
  <2> QED
    BY <2>3 DEF g
<1>3. PICK next : PublishAll(next) /\ next \subseteq {Handler("person", p) : p \in Persons}
  BY DEF UpdateRolle
<1> QED
  BY <1>1, <1>2, <1>3, BeginsTyped

LEMMA DeletePersonTyped ==
    ASSUME EmailAssumption, EmailTypeInv, NEW p \in Persons, DeletePerson(p)
    PROVE  EmailTypeInv'
<1>1. db[p] \in [name : Nat \ {0}, kontexte : SUBSET Kontexte, gone : BOOLEAN] /\ EmailsOK /\ OxOK /\ DbOK
  BY DEF EmailTypeInv, DbOK
<1>2. DbOK'
  <2>1. kc' = [kc EXCEPT ![p] = -1] /\ UNCHANGED db /\ events' = events + 1 /\ events \in Nat
    BY DEF DeletePerson, PublishAll, EmailTypeInv, CountsOK
  <2>2. \A q \in Persons : db[q].name \in Nat \ {0}
    BY <1>1 DEF DbOK
  <2> QED
    BY <2>1, <2>2, <1>1 DEF DbOK
<1>3. ASSUME NEW kind \in {"person", "oxUpdated"}
      PROVE  HandlerOK([Handler(kind, p) EXCEPT !.removed = db[p].kontexte])
  <2> DEFINE g == [Handler(kind, p) EXCEPT !.removed = db[p].kontexte]
  <2>1. /\ DOMAIN g = Fields /\ g.kind = kind /\ g.p = p /\ g.pc = "start" /\ g.user = db[p].name
        /\ g.removed = db[p].kontexte /\ g.todo = {} /\ g.ox = 0 /\ g.mail = <<0, 0>> /\ g.seen = Loaded(p)
    BY DEF Handler, Fields
  <2>2. <<0, 0>> \in Address
    BY DEF Address
  <2> HIDE DEF g
  <2>3. HandlerOK(g)
    BY <1>1, <2>1, <2>2, HandlerTyped
  <2> QED
    BY <2>3 DEF g
<1>4. HandlerOK(Handler("deleteRow", p))
  <2> DEFINE g == Handler("deleteRow", p)
  <2>1. /\ DOMAIN g = Fields /\ g.kind = "deleteRow" /\ g.p = p /\ g.pc = "start" /\ g.user = db[p].name
        /\ g.removed = {} /\ g.todo = {} /\ g.ox = 0 /\ g.mail = <<0, 0>> /\ g.seen = Loaded(p)
    BY DEF Handler, Fields
  <2>2. <<0, 0>> \in Address
    BY DEF Address
  <2> HIDE DEF g
  <2>3. HandlerOK(g)
    BY <1>1, <2>1, <2>2, HandlerTyped
  <2> QED
    BY <2>3 DEF g
<1>5. ASSUME NEW h, NEW kind \in {"deleted", "oxDeleted"}, h = Handler(kind, p)
      PROVE  HandlerOK([h EXCEPT !.mail = MailOf(h, RowsOf(p))])
  <2>1. /\ DOMAIN h = Fields /\ h.kind = kind /\ h.p = p /\ h.pc = "start" /\ h.user = db[p].name
        /\ h.removed = {} /\ h.todo = {} /\ h.ox = 0 /\ h.mail = <<0, 0>> /\ h.seen = Loaded(p)
    BY <1>5 DEF Handler, Fields
  <2>2. <<0, 0>> \in Address
    BY DEF Address
  <2>3. HandlerOK(h)
    BY <1>1, <2>1, <2>2, HandlerTyped
  <2>4. MailOf(h, RowsOf(p)) \in Address /\ (MailOf(h, RowsOf(p)) # <<0, 0>> => Numbered(MailOf(h, RowsOf(p))))
    <3>1. RowsOf(p) \subseteq DOMAIN emails
      BY DEF RowsOf
    <3> QED
      BY <3>1, <1>1, <2>3, CollectionsTyped
  <2>5. PICK mail : mail = MailOf(h, RowsOf(p))
    OBVIOUS
  <2> DEFINE g == [h EXCEPT !.mail = mail]
  <2>6. /\ DOMAIN g = Fields /\ g.kind = kind /\ g.p = p /\ g.pc = "start" /\ g.user = db[p].name
        /\ g.removed = {} /\ g.todo = {} /\ g.ox = 0 /\ g.mail = mail /\ g.seen = Loaded(p)
    BY <2>1 DEF Fields
  <2> HIDE DEF g
  <2>7. HandlerOK(g)
    BY <1>1, <2>4, <2>5, <2>6, HandlerTyped
  <2> QED
    BY <2>7, <2>5 DEF g
<1>6. PICK next : /\ PublishAll(next)
                  /\ \A g \in next : HandlerOK(g)
  <2> DEFINE S == {Handler("deleted", p), Handler("oxDeleted", p)}
             mail == [h \in S |-> [h EXCEPT !.mail = MailOf(h, RowsOf(p))]]
  <2>1. \A g \in Range(mail) : HandlerOK(g)
    <3> SUFFICES ASSUME NEW h \in S PROVE HandlerOK([h EXCEPT !.mail = MailOf(h, RowsOf(p))])
      BY DEF Range
    <3> QED
      BY <1>5
  <2>2. PublishAll({[Handler(kind, p) EXCEPT !.removed = db[p].kontexte] : kind \in {"person", "oxUpdated"}}
                   \cup (IF RowsOf(p) = {} THEN {} ELSE Range(mail)) \cup {Handler("deleteRow", p)})
    BY DEF DeletePerson
  <2> HIDE DEF mail
  <2> QED
    BY <2>1, <2>2, <1>3, <1>4
<1> QED
  BY <1>2, <1>6, BeginsTyped

LEMMA NextTyped == ASSUME EmailAssumption, EmailTypeInv, [EmailNext]_emailVars PROVE EmailTypeInv'
<1>1. CASE HappensOutside
  <2>1. ASSUME NEW p \in Persons, NEW kontexte \in SUBSET Kontexte, Update(p, kontexte) PROVE EmailTypeInv'
    BY <2>1, UpdateTyped
  <2>2. ASSUME NEW p \in Persons, Rename(p) \/ DeletePerson(p) PROVE EmailTypeInv'
    BY <2>2, RenameTyped, DeletePersonTyped
  <2>3. ASSUME NEW r, UpdateRolle(r) PROVE EmailTypeInv'
    BY <2>3, UpdateRolleTyped
  <2> QED
    BY <1>1, <2>1, <2>2, <2>3 DEF HappensOutside
<1>2. ASSUME NEW h \in BagToSet(handlers), Step(h) PROVE EmailTypeInv'
  BY <1>2, StepTyped
<1>3. CASE UNCHANGED emailVars
  <2>1. UNCHANGED <<db, emails, updated, ox, oxGroups, kc, handlers, events, failures, overlaps>>
    BY <1>3 DEF emailVars
  <2>2. CountsOK' /\ DbOK' /\ EmailsOK' /\ OxOK'
    BY <2>1 DEF EmailTypeInv, CountsOK, DbOK, EmailsOK, OxOK, OxUser, Numbered
  <2>3. Grown
    BY <2>1 DEF EmailTypeInv, EmailsOK, OxOK, Grown
  <2>4. \A h \in BagToSet(handlers) : HandlerOK(h)'
    BY <2>2, <2>3, StaysOK DEF EmailTypeInv, HandlersOK
  <2> QED
    BY <2>1, <2>2, <2>4 DEF EmailTypeInv, HandlersOK
<1> QED
  BY <1>1, <1>2, <1>3 DEF EmailNext, Idle

\* The types hold whatever handlers are under way and whatever calls fail: two
\* rows never share an address, and a row never tells of a user that OX has not.
THEOREM EmailTypesHold == EmailSpec => []EmailTypeOK
<1>1. EmailInit => EmailTypeInv
  BY EmailInitTyped, EmailAssumption
<1>2. EmailTypeInv /\ [EmailNext]_emailVars => EmailTypeInv'
  BY NextTyped, EmailAssumption
<1>3. EmailTypeInv => EmailTypeOK
  BY TypeInvImplies, EmailAssumption
<1> QED
  BY <1>1, <1>2, <1>3, PTL DEF EmailSpec

-----------------------------------------------------------------------------
(* What holds while every event is handled before the next one comes.      *)

Running == BagToSet(handlers)
Users(p) == {n \in DOMAIN ox : ox[n].username[1] = p}

\* The user n of OX is p's, or nobody's any more since p is being deleted.
Mine(username, p) == username[1] = p \/ (username[1] = Nobody /\ kc[p] = -1)
Belongs(n, p) == n \in DOMAIN ox => Mine(ox[n].username, p)
OwnRow(r, p) == /\ r.owner = p /\ Belongs(r.ox, p)
                /\ r.id # New => r.id \in DOMAIN emails /\ emails[r.id].owner \in {p, Nobody}
OwnHandler(h) ==
    /\ Belongs(h.ox, h.p)
    /\ db[h.p].gone \/ DOMAIN h.seen \subseteq RowsOf(h.p)
    /\ WithRow(h) => OwnRow(h.row, h.p)
    /\ h.kind = "person" /\ h.pc = "disable" => \A r \in h.todo : OwnRow(r, h.p)
    /\ h.kind \in {"deleted", "oxDeleted"} =>
           \A i \in DOMAIN emails : emails[i].address = h.mail => emails[i].owner \in {h.p, Nobody}
Ending == {"deleted", "oxDeleted", "deleteRow"}
LeavingKind(h) ==
    \/ h.kind = "person" /\ h.pc = "start" /\ db[h.p].kontexte \subseteq h.removed
    \/ h.kind = "person" /\ h.pc = "disable"
    \/ h.kind \in Ending \cup {"oxUpdated", "oxDisabled", "kcDisabled"}
KindOK(h) ==
    /\ kc[h.p] = -1 => LeavingKind(h)
    /\ h.kind \in Ending => kc[h.p] = -1
Ended(p) ==
    /\ db[p].gone => kc[p] = -1 /\ db[p].kontexte = {} /\ RowsOf(p) = {}
    /\ kc[p] = -1 => db[p].gone \/ \E h \in Running : h.kind = "deleteRow" /\ h.p = p

\* All handlers are of one person, and have nothing at hand that is another's.
Separate ==
    /\ \A g, h \in Running : g.p = h.p
    /\ \A p \in Persons : Ended(p)
    /\ \A i \in DOMAIN emails : emails[i].owner # Nobody => Belongs(emails[i].ox, emails[i].owner)
    /\ \A h \in Running : OwnHandler(h) /\ KindOK(h)

\* A step changes rows and users of p only.
RowsEffect(p) ==
    /\ DOMAIN emails \subseteq DOMAIN emails'
    /\ \A i \in DOMAIN emails' :
           \/ i \in DOMAIN emails /\ emails'[i] = emails[i]
           \/ /\ i \in DOMAIN emails => emails[i].owner \in {p, Nobody}
              /\ \/ i \in DOMAIN emails /\ emails[i].owner = Nobody /\ emails'[i].owner = Nobody
                    /\ emails'[i].status = "DISABLED"
                 \/ emails'[i].owner = p /\ ~db[p].gone /\ Belongs(emails'[i].ox, p)
OxEffect(p) ==
    /\ DOMAIN ox \subseteq DOMAIN ox'
    /\ \A n \in DOMAIN ox' :
           \/ n \in DOMAIN ox /\ ox'[n].username = ox[n].username
           \/ Belongs(n, p) /\ Mine(ox'[n].username, p)
KcEffect == \A q \in Persons : kc'[q] = -1 <=> kc[q] = -1
KeptFor(q) ==
    /\ RowsOf(q)' = RowsOf(q) /\ Users(q)' = Users(q)
    /\ \A i \in RowsOf(q) : emails'[i] = emails[i]
Used(i) == emails[i].status = "ENABLED"
OthersKept(p) ==
    /\ \A q \in Persons : q # p => KeptFor(q)
    /\ \A g \in Running' : g.p = p
    /\ \A i \in DOMAIN emails' : emails'[i].owner = Nobody /\ Used(i)' =>
          /\ i \in DOMAIN emails /\ Used(i) /\ emails'[i].address = emails[i].address
          /\ emails[i].owner = Nobody \/ (emails[i].owner = p /\ kc[p] = -1)

LEMMA OwnerTyped ==
    ASSUME EmailTypeInv PROVE \A i \in DOMAIN emails : emails[i].owner \in Persons \cup {Nobody} /\ emails[i].ox \in Nat
<1>1. \A i \in DOMAIN emails : emails[i] \in Row
  BY DEF EmailTypeInv, EmailsOK
<1> QED
  BY <1>1 DEF Row

\* What belongs to p goes on to do so, and so does what belongs to others.
LEMMA BelongsKept ==
    ASSUME EmailAssumption, OxOK, OxOK', NEW p \in Persons, OxEffect(p), KcEffect
    PROVE  /\ \A n : Belongs(n, p) => Belongs(n, p)'
           /\ \A q \in Persons : q # p => Users(q)' = Users(q)
           /\ \A q \in Persons, n \in Nat :
                 Belongs(n, q) /\ q # p /\ kc[q] # -1 /\ n <= Len(ox) => Belongs(n, q)'
<1>1. ASSUME NEW n, Belongs(n, p) PROVE Belongs(n, p)'
  BY <1>1 DEF Belongs, Mine, OxEffect, KcEffect
<1>2. ASSUME NEW q \in Persons, q # p PROVE Users(q)' = Users(q)
  <2>1. q # Nobody /\ p # Nobody
    BY DEF EmailAssumption
  <2>2. \A n \in DOMAIN ox' : ox'[n].username[1] = q => n \in DOMAIN ox /\ ox[n].username[1] = q
    BY <2>1, <1>2 DEF OxEffect, Mine
  <2>3. \A n \in DOMAIN ox : ox[n].username[1] = q => n \in DOMAIN ox' /\ ox'[n].username[1] = q
    BY <2>1, <1>2 DEF OxEffect, Belongs, Mine
  <2> QED
    BY <2>2, <2>3 DEF Users
<1>3. ASSUME NEW q \in Persons, NEW n \in Nat, Belongs(n, q), q # p, kc[q] # -1, n <= Len(ox) PROVE Belongs(n, q)'
  <2>1. q # Nobody /\ p # Nobody
    BY DEF EmailAssumption
  <2>2. DOMAIN ox = 1 .. Len(ox) /\ Len(ox) \in Nat /\ DOMAIN ox' = 1 .. Len(ox') /\ Len(ox') \in Nat
    BY DEF OxOK
  <2>3. n = 0 \/ n \in DOMAIN ox
    BY <2>2, <1>3
  <2>4. CASE n \in DOMAIN ox
    <3>1. ox[n].username[1] = q
      BY <1>3, <2>4 DEF Belongs, Mine
    <3>2. ~Belongs(n, p)
      BY <3>1, <2>1, <2>4, <1>3 DEF Belongs, Mine
    <3>3. n \in DOMAIN ox' => ox'[n].username = ox[n].username
      BY <3>2 DEF OxEffect
    <3> QED
      BY <3>1, <3>3 DEF Belongs, Mine
  <2>5. CASE n = 0
    BY <2>2, <2>5 DEF Belongs
  <2> QED
    BY <2>3, <2>4, <2>5
<1> QED
  BY <1>1, <1>2, <1>3

LEMMA RowsKept ==
    ASSUME EmailAssumption, NEW p \in Persons, RowsEffect(p), NEW q \in Persons, q # p
    PROVE  RowsOf(q)' = RowsOf(q) /\ \A i \in RowsOf(q) : emails'[i] = emails[i]
<1>1. q # Nobody /\ p # Nobody
  BY DEF EmailAssumption
<1>2. \A i \in DOMAIN emails' : emails'[i].owner = q => i \in DOMAIN emails /\ emails'[i] = emails[i]
  BY <1>1 DEF RowsEffect
<1>3. \A i \in DOMAIN emails : emails[i].owner = q => i \in DOMAIN emails' /\ emails'[i] = emails[i]
  BY <1>1 DEF RowsEffect
<1> QED
  BY <1>2, <1>3 DEF RowsOf

\* What a handler of p has at hand stays p's.
LEMMA OwnHandlerKept ==
    ASSUME EmailAssumption, EmailTypeInv, OxOK', NEW h, h.p \in Persons, OwnHandler(h),
           RowsEffect(h.p), OxEffect(h.p), KcEffect, db' = db
    PROVE  OwnHandler(h)'
<1>1. h.p \in Persons /\ OxOK /\ EmailsOK
  BY DEF EmailTypeInv
<1>2. \A n : Belongs(n, h.p) => Belongs(n, h.p)'
  BY <1>1, BelongsKept
<1>3. \A i \in DOMAIN emails : emails[i].owner \in {h.p, Nobody} => emails'[i].owner \in {h.p, Nobody}
  BY DEF RowsEffect
<1>4. \A r : OwnRow(r, h.p) => OwnRow(r, h.p)'
  BY <1>2, <1>3 DEF OwnRow, New, RowsEffect
<1>5. WithRow(h) => OwnRow(h.row, h.p)'
  BY <1>4 DEF OwnHandler
<1>6. h.kind = "person" /\ h.pc = "disable" => \A r \in h.todo : OwnRow(r, h.p)'
  BY <1>4 DEF OwnHandler
<1>7. ASSUME h.kind \in {"deleted", "oxDeleted"}, NEW i \in DOMAIN emails', emails'[i].address = h.mail
      PROVE  emails'[i].owner \in {h.p, Nobody}
  BY <1>7 DEF RowsEffect, OwnHandler
<1>8. db[h.p].gone \/ DOMAIN h.seen \subseteq RowsOf(h.p)'
  <2>1. RowsOf(h.p) \subseteq RowsOf(h.p)'
    BY EmailAssumption DEF RowsOf, RowsEffect, EmailAssumption
  <2> QED
    BY <2>1 DEF OwnHandler
<1> QED
  BY <1>2, <1>5, <1>6, <1>7, <1>8 DEF OwnHandler, WithRow

\* A step of a handler that is not the end of its person's row.
LEMMA SeparateKept ==
    ASSUME EmailAssumption, EmailTypeInv, EmailTypeInv', Separate, NEW h \in Running, NEW next, Become(h, next),
           h.kind # "deleteRow", RowsEffect(h.p), OxEffect(h.p), KcEffect, db' = db,
           \A g \in next : g.p = h.p /\ KindOK(g) /\ (OwnHandler(g) \/ OwnHandler(g)')
    PROVE  Separate' /\ OthersKept(h.p)
<1>1. /\ h.p \in Persons /\ OxOK /\ OxOK' /\ EmailsOK /\ EmailsOK' /\ h \in BagToSet(handlers)
      /\ Running' \subseteq Running \cup next /\ \A g \in Running : g # h => g \in Running'
  <2>1. h.p \in Persons /\ OxOK /\ OxOK' /\ EmailsOK /\ EmailsOK' /\ h \in BagToSet(handlers)
    BY Typed DEF EmailTypeInv, Running
  <2>2. IsABag(handlers)
    BY DEF EmailTypeInv, HandlersOK
  <2> QED
    BY <2>1, <2>2, BagChanged DEF Running
<1>2. \A q \in Persons : q # h.p => KeptFor(q)
  BY <1>1, RowsKept, BelongsKept DEF KeptFor
<1>3. \A g \in Running' : g.p = h.p
  BY <1>1 DEF Separate
<1>4. ASSUME NEW p \in Persons PROVE Ended(p)'
  <2>1. db[p].gone => kc'[p] = -1 /\ db[p].kontexte = {} /\ RowsOf(p)' = {}
    <3> SUFFICES ASSUME db[p].gone PROVE kc'[p] = -1 /\ db[p].kontexte = {} /\ RowsOf(p)' = {}
      OBVIOUS
    <3>1. kc'[p] = -1 /\ db[p].kontexte = {} /\ RowsOf(p) = {}
      BY DEF Separate, Ended, KcEffect
    <3>2. CASE p # h.p
      BY <3>1, <3>2, <1>2 DEF KeptFor
    <3>3. CASE p = h.p
      <4>1. p # Nobody
        BY DEF EmailAssumption
      <4>2. \A i \in DOMAIN emails' : emails'[i].owner # p
        BY <3>1, <3>3, <4>1 DEF RowsEffect, RowsOf
      <4> QED
        BY <3>1, <4>2 DEF RowsOf
    <3> QED
      BY <3>2, <3>3
  <2>2. kc'[p] = -1 => db[p].gone \/ \E g \in Running' : g.kind = "deleteRow" /\ g.p = p
    BY <1>1 DEF Separate, Ended, KcEffect
  <2> QED
    BY <2>1, <2>2 DEF Ended
<1>5. ASSUME NEW i \in DOMAIN emails', emails'[i].owner # Nobody PROVE Belongs(emails[i].ox, emails[i].owner)'
  <2>1. CASE emails'[i].owner = h.p
    <3>1. CASE i \in DOMAIN emails /\ emails'[i] = emails[i]
      BY <3>1, <2>1, <1>1, <1>5, BelongsKept DEF Separate
    <3>2. CASE Belongs(emails'[i].ox, h.p)
      BY <3>2, <2>1, <1>1, BelongsKept
    <3> QED
      BY <3>1, <3>2, <1>5 DEF RowsEffect
  <2>2. CASE emails'[i].owner # h.p
    <3>1. i \in DOMAIN emails /\ emails'[i] = emails[i]
      BY <2>2, <1>5 DEF RowsEffect
    <3>2. PICK q \in Persons : q = emails[i].owner
      BY <3>1, <1>5, OwnerTyped
    <3>3. emails[i].ox \in Nat /\ emails[i].ox <= Len(ox)
      BY <3>1, <1>1, OwnerTyped DEF EmailsOK
    <3>4. kc[q] # -1
      <4> SUFFICES ASSUME kc[q] = -1 PROVE FALSE
        OBVIOUS
      <4>1. RowsOf(q) # {}
        BY <3>1, <3>2 DEF RowsOf
      <4>2. ~db[q].gone
        BY <4>1 DEF Separate, Ended
      <4>3. PICK g \in Running : g.p = q
        BY <4>2 DEF Separate, Ended
      <4> QED
        BY <4>3, <2>2, <3>1, <3>2 DEF Separate
    <3>5. Belongs(emails[i].ox, q)
      BY <3>1, <3>2, <1>5 DEF Separate
    <3>6. Belongs(emails[i].ox, q)'
      <4>1. PICK n \in Nat : n = emails[i].ox
        BY <3>3
      <4>2. Belongs(n, q)'
        BY <4>1, <3>2, <3>1, <2>2, <3>3, <3>4, <3>5, <1>1, BelongsKept
      <4> QED
        BY <4>1, <4>2, <3>1
    <3> QED
      BY <3>6, <3>1, <3>2
  <2> QED
    BY <2>1, <2>2
<1>6. ASSUME NEW g \in Running' PROVE OwnHandler(g)' /\ KindOK(g)'
  <2>1. g.p \in Persons /\ KindOK(g)
    BY <1>1, <1>3 DEF Separate
  <2>2. KindOK(g)'
    BY <2>1 DEF KindOK, LeavingKind, KcEffect
  <2>3. OwnHandler(g) \/ OwnHandler(g)'
    BY <1>1 DEF Separate, EmailTypeInv, HandlersOK, Running
  <2> QED
    BY <2>2, <2>3, <1>1, <1>3, OwnHandlerKept
<1>7. ASSUME NEW i \in DOMAIN emails', emails'[i].owner = Nobody, Used(i)'
      PROVE  i \in DOMAIN emails /\ emails'[i] = emails[i]
  <2>1. h.p # Nobody
    BY <1>1 DEF EmailAssumption
  <2> QED
    BY <2>1, <1>7 DEF RowsEffect, Used
<1> QED
  BY <1>2, <1>3, <1>4, <1>5, <1>6, <1>7 DEF Separate, OthersKept, Used

LEMMA NoEffect ==
    ASSUME EmailTypeInv, emails' = emails, DOMAIN ox' = DOMAIN ox, \A n \in DOMAIN ox : ox'[n].username = ox[n].username,
           NEW p
    PROVE  RowsEffect(p) /\ OxEffect(p)
BY DEF RowsEffect, OxEffect

\* A step that only reads, or changes groups.
LEMMA SeparateRead ==
    ASSUME EmailAssumption, EmailTypeInv, EmailTypeInv', Separate, NEW h \in Running, NEW next, Become(h, next),
           h.kind # "deleteRow", UNCHANGED <<db, table>>, KcEffect,
           DOMAIN ox' = DOMAIN ox, \A n \in DOMAIN ox : ox'[n].username = ox[n].username,
           \A g \in next : g.p = h.p /\ KindOK(g) /\ OwnHandler(g)
    PROVE  Separate' /\ OthersKept(h.p)
BY NoEffect, SeparateKept DEF table

\* A handler goes on with what it has, and with a row of its person.
LEMMA OwnNext ==
    ASSUME NEW h, OwnHandler(h), NEW g, g.p = h.p, g.kind = h.kind, g.seen = h.seen,
           g.mail = h.mail \/ h.kind \notin Ending,
           Belongs(g.ox, h.p),
           WithRow(g) => OwnRow(g.row, h.p),
           g.kind = "person" /\ g.pc = "disable" => \A r \in g.todo : OwnRow(r, h.p)
    PROVE  OwnHandler(g)
BY DEF OwnHandler, Ending

LEMMA OwnSub ==
    ASSUME NEW h, h.p \in Persons, OwnHandler(h),
           NEW kind \in {"exists", "create", "change", "changeDisabled", "kcChanged", "metadata",
                         "disabledOx", "oxDisabled", "kcDisabled"},
           kind \in {"oxDisabled", "kcDisabled"} \/ kc[h.p] # -1
    PROVE  OwnHandler(Sub(h, kind)) /\ KindOK(Sub(h, kind)) /\ Sub(h, kind).p = h.p
<1>1. PICK g : g = Sub(h, kind)
  OBVIOUS
<1>2. g.kind = kind /\ g.p = h.p /\ g.ox = h.ox /\ g.pc = "start" /\ g.seen = h.seen
  BY <1>1 DEF Sub, Handler
<1>3. OwnHandler(g) /\ KindOK(g)
  BY <1>2 DEF OwnHandler, KindOK, WithRow, LeavingKind, Ending
<1> QED
  BY <1>1, <1>2, <1>3

\* A row of the table is its owner's.
LEMMA OwnTableRow ==
    ASSUME EmailTypeInv, Separate, NEW p \in Persons, NEW i \in RowsOf(p), NEW r, r.id = i, r.owner = p,
           r.ox = emails[i].ox
    PROVE  OwnRow(r, p)
<1>1. i \in DOMAIN emails /\ emails[i].owner = p
  BY DEF RowsOf
<1>2. p # Nobody => Belongs(emails[i].ox, p)
  BY <1>1 DEF Separate
<1> QED
  BY <1>1, <1>2, EmailAssumption DEF OwnRow, EmailAssumption

-----------------------------------------------------------------------------
(* Every step of a handler keeps to its person.                            *)

\* A row that is written is the person's.
LEMMA WriteEffect ==
    ASSUME EmailAssumption, EmailTypeInv, EmailsOK', NEW p \in Persons, NEW row, OwnRow(row, p), ~db[p].gone, Write(row)
    PROVE  RowsEffect(p)
<1>1. DOMAIN emails = 1 .. Len(emails) /\ Len(emails) \in Nat
  BY DEF EmailTypeInv, EmailsOK
<1>2. CASE row.id = New /\ emails' = Append(emails, [row EXCEPT !.id = Len(emails) + 1])
  <2>1. DOMAIN emails' = 1 .. Len(emails) + 1 /\ emails'[Len(emails) + 1] = [row EXCEPT !.id = Len(emails) + 1]
        /\ \A i \in DOMAIN emails : emails'[i] = emails[i]
    BY <1>1, <1>2 DEF EmailTypeInv, EmailsOK
  <2>2. PICK n : n = Len(emails) + 1
    OBVIOUS
  <2>3. emails'[n] \in Row
    BY <2>1, <2>2, <1>1 DEF EmailsOK
  <2>4. emails'[n].owner = p /\ emails'[n].ox = row.ox
    BY <2>1, <2>2, <2>3 DEF OwnRow, Row
  <2>5. \A i \in DOMAIN emails' : i \in DOMAIN emails \/ i = n
    BY <2>1, <2>2, <1>1
  <2>6. n \notin DOMAIN emails /\ DOMAIN emails \subseteq DOMAIN emails'
    BY <2>1, <2>2, <1>1
  <2> QED
    BY <2>1, <2>4, <2>5, <2>6 DEF RowsEffect, OwnRow
<1>3. CASE row.id # New /\ emails' = [emails EXCEPT ![row.id] = row]
  <2>1. DOMAIN emails' = DOMAIN emails /\ row.id \in DOMAIN emails /\ emails'[row.id] = row
        /\ \A i \in DOMAIN emails : i # row.id => emails'[i] = emails[i]
    BY <1>3 DEF OwnRow
  <2> QED
    BY <2>1, <1>3 DEF RowsEffect, OwnRow
<1>4. CASE emails' = emails
  BY <1>4 DEF RowsEffect
<1> QED
  BY <1>2, <1>3, <1>4 DEF Write, table

\* A step that writes a row, or finds that it may not.
LEMMA SeparateWrite ==
    ASSUME EmailAssumption, EmailTypeInv, EmailTypeInv', Separate, NEW h \in Running, NEW next, Become(h, next),
           h.kind # "deleteRow", UNCHANGED <<db, ox, kc>>,
           NEW row, UNCHANGED table \/ (OwnRow(row, h.p) /\ ~Violates(row) /\ Write(row)),
           \A g \in next : g.p = h.p /\ KindOK(g) /\ (OwnHandler(g) \/ OwnHandler(g)')
    PROVE  Separate' /\ OthersKept(h.p)
<1>1. h.p \in Persons /\ EmailsOK' /\ h.p # Nobody
  BY Typed, EmailAssumption DEF EmailTypeInv, Running, EmailAssumption
<1>2. RowsEffect(h.p)
  <2>1. CASE UNCHANGED table
    BY <2>1, NoEffect DEF table
  <2>2. CASE OwnRow(row, h.p) /\ ~Violates(row) /\ Write(row)
    <3>1. ~db[h.p].gone
      BY <2>2, <1>1 DEF Violates, OwnRow
    <3> QED
      BY <3>1, <2>2, <1>1, WriteEffect
  <2> QED
    BY <2>1, <2>2
<1>3. OxEffect(h.p) /\ KcEffect
  BY DEF OxEffect, KcEffect
<1> QED
  BY <1>2, <1>3, SeparateKept

LEMMA NextSchoolOwn ==
    ASSUME NEW h, HandlerOK(h), OwnHandler(h), h.kind = "person" => kc[h.p] # -1 \/ h.todo = {},
           h.kind \in {"person", "renamed", "create", "metadata", "disabledOx"}, NEW g \in NextSchool(h)
    PROVE  g.p = h.p /\ KindOK(g) /\ OwnHandler(g)
<1>1. g = [h EXCEPT !.pc = "school", !.row = NoRow] /\ h.todo # {}
  BY DEF NextSchool
<1>2. /\ g.kind = h.kind /\ g.p = h.p /\ g.pc = "school" /\ g.ox = h.ox /\ g.mail = h.mail /\ g.seen = h.seen
      /\ g.kind = "person"
  BY <1>1 DEF HandlerOK, Fields, Listing
<1>3. OwnHandler(g)
  BY <1>2, OwnNext DEF OwnHandler, WithRow
<1> QED
  BY <1>1, <1>2, <1>3 DEF KindOK, Ending

\* What a step starts from.
LEMMA SeparateFacts ==
    ASSUME EmailAssumption, EmailTypeInv, Separate, NEW h \in Running
    PROVE  /\ HandlerOK(h) /\ h.p \in Persons /\ h.p # Nobody /\ OwnHandler(h) /\ KindOK(h)
           /\ h \in BagToSet(handlers) /\ PcOK(h)
<1>1. HandlerOK(h) /\ h.p \in Persons
  BY Typed DEF Running
<1> QED
  BY <1>1 DEF Separate, Running, EmailAssumption, HandlerOK

LEMMA HandlePersonOwn ==
    ASSUME EmailAssumption, EmailTypeInv, EmailTypeInv', Separate, NEW h \in Running, HandlePerson(h)
    PROVE  Separate' /\ OthersKept(h.p)
<1> DEFINE kontexte == db[h.p].kontexte \ h.removed
           rolle(r) == {k.school : k \in {x \in kontexte : x.rolle = r}}
           left == {i \in RowsOf(h.p) : emails[i].status # "DISABLED"}
           rows == {[emails[i] EXCEPT !.status = "DISABLED"] : i \in left}
<1>1. HandlerOK(h) /\ h.p \in Persons /\ OwnHandler(h) /\ KindOK(h)
  BY SeparateFacts
<1>2. h.kind = "person" /\ h.pc = "start" /\ UNCHANGED <<db, table>> /\ UNCHANGED <<ox, kc>>
  BY DEF HandlePerson, OxData
<1>3. \/ \E r \in {k.rolle : k \in ServingOf(kontexte)} :
             Become(h, {[h EXCEPT !.pc = "school", !.removed = {}, !.todo = rolle(r)]})
      \/ End(h)
      \/ Become(h, {[h EXCEPT !.pc = "disable", !.removed = {}, !.todo = rows]})
  BY DEF HandlePerson
<1>4. ASSUME NEW next, Become(h, next), \A g \in next : g.p = h.p /\ KindOK(g) /\ OwnHandler(g)
      PROVE  Separate' /\ OthersKept(h.p)
  BY <1>2, <1>4, SeparateRead DEF KcEffect
<1>5. ASSUME NEW r \in {k.rolle : k \in ServingOf(kontexte)}, NEW rest,
             Become(h, {[h EXCEPT !.pc = "school", !.removed = {}, !.todo = rest]})
      PROVE  Separate' /\ OthersKept(h.p)
  <2>1. PICK g : g = [h EXCEPT !.pc = "school", !.removed = {}, !.todo = rest]
    OBVIOUS
  <2>2. g.kind = "person" /\ g.pc = "school" /\ g.p = h.p /\ g.ox = h.ox /\ g.mail = h.mail /\ g.seen = h.seen
    BY <2>1, <1>1, <1>2 DEF HandlerOK, Fields
  <2>3. kc[h.p] # -1
    BY <1>1, <1>2, <1>5 DEF KindOK, LeavingKind, Ending, ServingOf
  <2>4. OwnHandler(g)
    BY <2>2, <1>1, <1>2, OwnNext DEF OwnHandler, WithRow
  <2>5. \A x \in {g} : x.p = h.p /\ KindOK(x) /\ OwnHandler(x)
    BY <2>2, <2>3, <2>4 DEF KindOK, Ending
  <2>6. Become(h, {g})
    BY <2>1, <1>5
  <2> QED
    BY <2>5, <2>6, <1>4
<1>6. ASSUME Become(h, {[h EXCEPT !.pc = "disable", !.removed = {}, !.todo = rows]})
      PROVE  Separate' /\ OthersKept(h.p)
  <2>1. PICK g : g = [h EXCEPT !.pc = "disable", !.removed = {}, !.todo = rows]
    OBVIOUS
  <2>2. /\ g.kind = "person" /\ g.pc = "disable" /\ g.p = h.p /\ g.ox = h.ox /\ g.mail = h.mail /\ g.seen = h.seen
        /\ g.todo = rows
    BY <2>1, <1>1, <1>2 DEF HandlerOK, Fields
  <2>3. ASSUME NEW r \in rows PROVE OwnRow(r, h.p)
    <3>1. PICK i \in RowsOf(h.p) : r = [emails[i] EXCEPT !.status = "DISABLED"]
      BY <2>3
    <3>2. emails[i] \in Row /\ emails[i].owner = h.p /\ emails[i].id = i
      BY <3>1 DEF EmailTypeInv, EmailsOK, RowsOf
    <3>3. r.id = i /\ r.owner = h.p /\ r.ox = emails[i].ox
      BY <3>1, <3>2 DEF Row
    <3> QED
      BY <3>3, <1>1, OwnTableRow
  <2> HIDE DEF rows
  <2>4. OwnHandler(g)
    BY <2>2, <2>3, <1>1, <1>2, OwnNext DEF OwnHandler, WithRow
  <2>5. \A x \in {g} : x.p = h.p /\ KindOK(x) /\ OwnHandler(x)
    BY <2>2, <2>4 DEF KindOK, LeavingKind, Ending
  <2>6. Become(h, {g})
    BY <2>1, <1>6 DEF rows
  <2> QED
    BY <2>5, <2>6, <1>4
<1>7. CASE End(h)
  BY <1>7, <1>4 DEF End
<1> QED
  BY <1>3, <1>5, <1>6, <1>7

LEMMA DisableOneOwn ==
    ASSUME EmailAssumption, EmailTypeInv, EmailTypeInv', Separate, NEW h \in Running, DisableOne(h)
    PROVE  Separate' /\ OthersKept(h.p)
<1>1. HandlerOK(h) /\ h.p \in Persons /\ OwnHandler(h)
  BY SeparateFacts
<1>2. h.kind = "person" /\ h.pc = "disable" /\ UNCHANGED <<db, ox, kc>>
  BY DEF DisableOne, Outside, OxData
<1>3. PICK row \in h.todo :
           LET left == h.todo \ {row}
           IN  /\ IF Violates(row) THEN UNCHANGED table ELSE Write(row)
               /\ Become(h, CASE left # {} -> {[h EXCEPT !.todo = left]}
                              [] left = {} /\ db[h.p].gone -> {}
                              [] OTHER -> {Sub(h, "oxDisabled"), Sub(h, "kcDisabled")})
  BY Zenon DEF DisableOne
<1>4. OwnRow(row, h.p)
  BY <1>1, <1>2 DEF OwnHandler
<1>5. OwnHandler([h EXCEPT !.todo = h.todo \ {row}]) /\ KindOK([h EXCEPT !.todo = h.todo \ {row}])
      /\ [h EXCEPT !.todo = h.todo \ {row}].p = h.p
  <2>1. PICK g : g = [h EXCEPT !.todo = h.todo \ {row}]
    OBVIOUS
  <2>2. /\ g.kind = "person" /\ g.pc = "disable" /\ g.p = h.p /\ g.ox = h.ox /\ g.mail = h.mail /\ g.seen = h.seen
        /\ g.todo = h.todo \ {row}
    BY <2>1, <1>1, <1>2 DEF HandlerOK, Fields
  <2>3. OwnHandler(g)
    BY <2>2, <1>1, <1>2, OwnNext DEF OwnHandler, WithRow
  <2> QED
    BY <2>1, <2>2, <2>3 DEF KindOK, LeavingKind, Ending
<1>6. \A kind \in {"oxDisabled", "kcDisabled"} :
         OwnHandler(Sub(h, kind)) /\ KindOK(Sub(h, kind)) /\ Sub(h, kind).p = h.p
  BY <1>1, OwnSub
<1>7. ASSUME NEW next, Become(h, next), \A g \in next : g.p = h.p /\ KindOK(g) /\ OwnHandler(g)
      PROVE  Separate' /\ OthersKept(h.p)
  BY <1>2, <1>3, <1>4, <1>7, SeparateWrite
<1>8. \/ Become(h, {[h EXCEPT !.todo = h.todo \ {row}]}) \/ Become(h, {})
      \/ Become(h, {Sub(h, "oxDisabled"), Sub(h, "kcDisabled")})
  BY <1>3
<1>9. CASE Become(h, {[h EXCEPT !.todo = h.todo \ {row}]})
  <2>1. PICK g : g = [h EXCEPT !.todo = h.todo \ {row}]
    OBVIOUS
  <2>2. Become(h, {g})
    BY <1>9, <2>1
  <2>3. \A x \in {g} : x.p = h.p /\ KindOK(x) /\ OwnHandler(x)
    BY <1>5, <2>1
  <2> QED
    BY <2>2, <2>3, <1>7
<1>10. CASE Become(h, {})
  BY <1>7, <1>10
<1>11. CASE Become(h, {Sub(h, "oxDisabled"), Sub(h, "kcDisabled")})
  <2>1. \A x \in {Sub(h, "oxDisabled"), Sub(h, "kcDisabled")} : x.p = h.p /\ KindOK(x) /\ OwnHandler(x)
    BY <1>6
  <2> QED
    BY <2>1, <1>7, <1>11
<1> QED
  BY <1>8, <1>9, <1>10, <1>11

\* What comes of a handler that only moves on: "g" has the row and the user
\* that are told.
LEMMA MovesOwn ==
    ASSUME EmailAssumption, EmailTypeInv, Separate, NEW h \in Running, NEW g, g.p = h.p, g.kind = h.kind,
           g.mail = h.mail \/ h.kind \notin Ending, g.seen = h.seen, g.ox = h.ox \/ Belongs(g.ox, h.p),
           WithRow(g) => OwnRow(g.row, h.p), g.kind = "person" => g.pc # "disable",
           kc[h.p] # -1 \/ (g.kind # "person" /\ LeavingKind(h))
    PROVE  \A x \in {g} : x.p = h.p /\ KindOK(x) /\ OwnHandler(x)
<1>1. HandlerOK(h) /\ h.p \in Persons /\ OwnHandler(h) /\ KindOK(h)
  BY SeparateFacts
<1>2. Belongs(g.ox, h.p)
  BY <1>1 DEF OwnHandler
<1>3. OwnHandler(g)
  BY <1>1, <1>2, OwnNext
<1>4. KindOK(g)
  BY <1>1 DEF KindOK, LeavingKind, Ending
<1> QED
  BY <1>3, <1>4

LEMMA CreateOrEnableOwn ==
    ASSUME EmailAssumption, EmailTypeInv, EmailTypeInv', Separate, NEW h \in Running, CreateOrEnable(h)
    PROVE  Separate' /\ OthersKept(h.p)
<1>1. HandlerOK(h) /\ h.p \in Persons /\ OwnHandler(h) /\ KindOK(h)
  BY SeparateFacts
<1>2. h.kind = "person" /\ h.pc = "school" /\ UNCHANGED <<db, table, ox, kc>> /\ kc[h.p] # -1
  <2>1. h.kind = "person" /\ h.pc = "school" /\ UNCHANGED <<db, table, ox, kc>>
    BY DEF CreateOrEnable, Outside, OxData
  <2> QED
    BY <2>1, <1>1 DEF KindOK, LeavingKind, Ending
<1>3. PICK s \in h.todo :
        LET g == [h EXCEPT !.todo = @ \ {s}, !.school = s, !.after = "generated"]
            rows == RowsOf(h.p)
            usable == {i \in rows : emails[i].status \in {"ENABLED", "DISABLED"}}
            newest == emails[Newest(usable)]
            told == IF rows = {} THEN {} ELSE {Sub(g, "exists")}
        IN  \/ /\ db[h.p].gone
               /\ Become(h, NextSchool(g))
            \/ /\ ~db[h.p].gone /\ usable = {}
               /\ Become(h, told \cup {[g EXCEPT !.pc = "address"]})
            \/ /\ ~db[h.p].gone /\ usable # {} /\ newest.status = "ENABLED"
               /\ Become(h, told \cup NextSchool(g))
            \/ /\ ~db[h.p].gone /\ usable # {} /\ newest.status = "DISABLED"
               /\ Become(h, told \cup {[g EXCEPT !.pc = "check",
                                         !.row = [newest EXCEPT !.status = "ENABLED"]]})
  BY Zenon DEF CreateOrEnable
<1> DEFINE rows == RowsOf(h.p)
           usable == {i \in rows : emails[i].status \in {"ENABLED", "DISABLED"}}
<1>4. PICK g : g = [h EXCEPT !.todo = @ \ {s}, !.school = s, !.after = "generated"]
  OBVIOUS
<1>5. /\ DOMAIN g = Fields /\ g.kind = "person" /\ g.pc = "school" /\ g.p = h.p /\ g.ox = h.ox /\ g.mail = h.mail
      /\ g.seen = h.seen /\ g.row = h.row
  BY <1>1, <1>2, <1>4 DEF HandlerOK, Fields
<1>6. OwnHandler(g) /\ g.p \in Persons
  BY <1>1, <1>2, <1>5, OwnNext DEF OwnHandler, WithRow
<1>7. \A x \in {Sub(g, "exists")} : x.p = h.p /\ KindOK(x) /\ OwnHandler(x)
  BY <1>2, <1>5, <1>6, OwnSub
<1>8. \A x \in NextSchool(g) : x.p = h.p /\ KindOK(x) /\ OwnHandler(x)
  <2> SUFFICES ASSUME NEW x \in NextSchool(g) PROVE x.p = h.p /\ KindOK(x) /\ OwnHandler(x)
    OBVIOUS
  <2>1. x = [g EXCEPT !.pc = "school", !.row = NoRow]
    BY DEF NextSchool
  <2>2. x.kind = "person" /\ x.pc = "school" /\ x.p = h.p /\ x.ox = h.ox /\ x.mail = h.mail /\ x.seen = h.seen
    BY <2>1, <1>5 DEF Fields
  <2> QED
    BY <2>2, <1>2, MovesOwn DEF WithRow
<1>9. \A x \in {[g EXCEPT !.pc = "address"]} : x.p = h.p /\ KindOK(x) /\ OwnHandler(x)
  <2>1. PICK x : x = [g EXCEPT !.pc = "address"]
    OBVIOUS
  <2>2. x.kind = "person" /\ x.pc = "address" /\ x.p = h.p /\ x.ox = h.ox /\ x.mail = h.mail /\ x.seen = h.seen
    BY <2>1, <1>5 DEF Fields
  <2>3. \A y \in {x} : y.p = h.p /\ KindOK(y) /\ OwnHandler(y)
    BY <2>2, <1>2, MovesOwn DEF WithRow
  <2> QED
    BY <2>1, <2>3
<1>10. ASSUME usable # {}, NEW row, row = [emails[Newest(usable)] EXCEPT !.status = "ENABLED"]
       PROVE  \A x \in {[g EXCEPT !.pc = "check", !.row = row]} : x.p = h.p /\ KindOK(x) /\ OwnHandler(x)
  <2>1. PICK x : x = [g EXCEPT !.pc = "check", !.row = row]
    OBVIOUS
  <2>2. /\ x.kind = "person" /\ x.pc = "check" /\ x.p = h.p /\ x.ox = h.ox /\ x.mail = h.mail /\ x.seen = h.seen
        /\ x.row = row
    BY <2>1, <1>5 DEF Fields
  <2>3. PICK i \in RowsOf(h.p) : row = [emails[i] EXCEPT !.status = "ENABLED"]
    <3>1. EmailsOK /\ usable \subseteq DOMAIN emails
      BY DEF EmailTypeInv, RowsOf
    <3>2. Newest(usable) \in usable
      BY <3>1, <1>10, NewestIsMember
    <3> QED
      BY <3>2, <1>10
  <2>4. emails[i] \in Row /\ emails[i].owner = h.p /\ emails[i].id = i
    BY <2>3 DEF EmailTypeInv, EmailsOK, RowsOf
  <2>5. row.id = i /\ row.owner = h.p /\ row.ox = emails[i].ox
    BY <2>3, <2>4 DEF Row
  <2>6. OwnRow(row, h.p)
    BY <2>5, <1>1, OwnTableRow
  <2>7. \A y \in {x} : y.p = h.p /\ KindOK(y) /\ OwnHandler(y)
    BY <2>2, <2>6, <1>2, MovesOwn
  <2> QED
    BY <2>1, <2>7
<1> DEFINE told == IF rows = {} THEN {} ELSE {Sub(g, "exists")}
<1>11. \A x \in told : x.p = h.p /\ KindOK(x) /\ OwnHandler(x)
  BY <1>7
<1>12. \/ Become(h, NextSchool(g)) \/ Become(h, told \cup {[g EXCEPT !.pc = "address"]})
       \/ Become(h, told \cup NextSchool(g))
       \/ /\ usable # {}
          /\ Become(h, told \cup {[g EXCEPT !.pc = "check",
                                     !.row = [emails[Newest(usable)] EXCEPT !.status = "ENABLED"]]})
  BY <1>3, <1>4
<1> HIDE DEF told, usable
<1>13. PICK next : Become(h, next) /\ \A x \in next : x.p = h.p /\ KindOK(x) /\ OwnHandler(x)
  <2>1. CASE Become(h, NextSchool(g))
    BY <2>1, <1>8
  <2>2. CASE Become(h, told \cup {[g EXCEPT !.pc = "address"]})
    BY <2>2, <1>9, <1>11
  <2>3. CASE Become(h, told \cup NextSchool(g))
    BY <2>3, <1>8, <1>11
  <2>4. ASSUME usable # {}, NEW row, row = [emails[Newest(usable)] EXCEPT !.status = "ENABLED"],
               Become(h, told \cup {[g EXCEPT !.pc = "check", !.row = row]})
        PROVE  \E next : Become(h, next) /\ \A x \in next : x.p = h.p /\ KindOK(x) /\ OwnHandler(x)
    <3>1. \A x \in {[g EXCEPT !.pc = "check", !.row = row]} : x.p = h.p /\ KindOK(x) /\ OwnHandler(x)
      BY <2>4, <1>10
    <3>2. \A x \in told \cup {[g EXCEPT !.pc = "check", !.row = row]} : x.p = h.p /\ KindOK(x) /\ OwnHandler(x)
      BY <3>1, <1>11
    <3> QED
      BY <2>4, <3>2
  <2> QED
    BY <2>1, <2>2, <2>3, <2>4, <1>12
<1> QED
  BY <1>2, <1>13, SeparateRead DEF KcEffect

\* What g has of h, as whose next step it is.
Moves(h, g) ==
    g.kind = h.kind /\ g.p = h.p /\ g.mail = h.mail /\ g.seen = h.seen /\ g.ox = h.ox /\ g.todo = h.todo

LEMMA HandleRenamedDoes ==
    ASSUME NEW h, HandlerOK(h), HandleRenamed(h)
    PROVE  /\ h.kind = "renamed" /\ h.pc = "start" /\ UNCHANGED <<db, serving, table, ox, kc, twice>>
           /\ \/ \E i \in WithStatus(h.p, "ENABLED") : \E g :
                    /\ Become(h, {g}) /\ Moves(h, g) /\ ServingOf(db[h.p].kontexte) # {}
                    /\ g.pc = "retire" /\ g.after = "changed" /\ g.row = [emails[i] EXCEPT !.status = "DISABLED"]
              \/ \E g : /\ Become(h, {g}) /\ Moves(h, g) /\ g.pc = "address"
                       /\ \/ ServingOf(db[h.p].kontexte) # {} /\ ~Enabled(h.p)
                          \/ /\ ServingOf(db[h.p].kontexte) = {} /\ g.after = "disabled"
                             /\ WithStatus(h.p, "DISABLED") # {}
              \/ /\ ServingOf(db[h.p].kontexte) = {} /\ WithStatus(h.p, "DISABLED") = {}
                 /\ Become(h, {})
<1>1. h.kind = "renamed" /\ h.pc = "start" /\ UNCHANGED <<db, serving, table, ox, kc, twice>>
  BY DEF HandleRenamed, Outside, OxData
<1>2. CASE ServingOf(db[h.p].kontexte) # {}
  <2>1. PICK k \in ServingOf(db[h.p].kontexte) :
                 \/ \E i \in WithStatus(h.p, "ENABLED") :
                        Become(h, {[h EXCEPT !.pc = "retire", !.school = k.school, !.after = "changed",
                                            !.row = [emails[i] EXCEPT !.status = "DISABLED"]]})
                 \/ /\ WithStatus(h.p, "ENABLED") = {}
                    /\ Become(h, {[h EXCEPT !.pc = "address", !.school = k.school,
                                            !.after = "generated"]})
    BY <1>2, Zenon DEF HandleRenamed
  <2>2. ASSUME NEW i \in WithStatus(h.p, "ENABLED"),
               Become(h, {[h EXCEPT !.pc = "retire", !.school = k.school, !.after = "changed",
                                            !.row = [emails[i] EXCEPT !.status = "DISABLED"]]})
        PROVE  \E g : /\ Become(h, {g}) /\ Moves(h, g)
                      /\ g.pc = "retire" /\ g.after = "changed" /\ g.row = [emails[i] EXCEPT !.status = "DISABLED"]
    <3>1. PICK row : row = [emails[i] EXCEPT !.status = "DISABLED"]
      OBVIOUS
    <3>2. PICK g : g = [h EXCEPT !.pc = "retire", !.school = k.school, !.after = "changed", !.row = row]
      OBVIOUS
    <3>3. Become(h, {g})
      BY <2>2, <3>1, <3>2
    <3>4. Moves(h, g) /\ g.pc = "retire" /\ g.after = "changed" /\ g.row = row
      BY <3>2 DEF HandlerOK, Fields, Moves
    <3> QED
      BY <3>1, <3>3, <3>4
  <2>3. ASSUME WithStatus(h.p, "ENABLED") = {},
               Become(h, {[h EXCEPT !.pc = "address", !.school = k.school, !.after = "generated"]})
        PROVE  \E g : Become(h, {g}) /\ Moves(h, g) /\ g.pc = "address" /\ ~Enabled(h.p)
    <3>1. PICK g : g = [h EXCEPT !.pc = "address", !.school = k.school, !.after = "generated"]
      OBVIOUS
    <3>2. Become(h, {g})
      BY <2>3, <3>1
    <3>3. Moves(h, g) /\ g.pc = "address" /\ ~Enabled(h.p)
      BY <2>3, <3>1 DEF HandlerOK, Fields, Moves, Enabled
    <3> QED
      BY <3>2, <3>3
  <2>4. CASE \E i \in WithStatus(h.p, "ENABLED") :
                        Become(h, {[h EXCEPT !.pc = "retire", !.school = k.school, !.after = "changed",
                                            !.row = [emails[i] EXCEPT !.status = "DISABLED"]]})
    <3>1. PICK i \in WithStatus(h.p, "ENABLED") : \E g :
             /\ Become(h, {g}) /\ Moves(h, g)
             /\ g.pc = "retire" /\ g.after = "changed" /\ g.row = [emails[i] EXCEPT !.status = "DISABLED"]
      BY <2>2, <2>4
    <3> QED
      BY <1>1, <1>2, <3>1
  <2>5. CASE /\ WithStatus(h.p, "ENABLED") = {}
             /\ Become(h, {[h EXCEPT !.pc = "address", !.school = k.school, !.after = "generated"]})
    BY <1>1, <1>2, <2>3, <2>5
  <2> QED
    BY <2>1, <2>4, <2>5
<1>3. CASE ServingOf(db[h.p].kontexte) = {}
  <2>1. IF WithStatus(h.p, "DISABLED") = {} THEN Become(h, {})
        ELSE Become(h, {[h EXCEPT !.pc = "address", !.after = "disabled"]})
    BY <1>3, Zenon DEF HandleRenamed, End
  <2>2. PICK g : g = [h EXCEPT !.pc = "address", !.after = "disabled"]
    OBVIOUS
  <2>3. Moves(h, g) /\ g.pc = "address" /\ g.after = "disabled"
    BY <2>2 DEF HandlerOK, Fields, Moves
  <2>4. WithStatus(h.p, "DISABLED") # {} => Become(h, {g})
    BY <2>1, <2>2
  <2> QED
    BY <1>1, <1>3, <2>1, <2>3, <2>4
<1> QED
  BY <1>2, <1>3

LEMMA HandleRenamedOwn ==
    ASSUME EmailAssumption, EmailTypeInv, EmailTypeInv', Separate, NEW h \in Running, HandleRenamed(h)
    PROVE  Separate' /\ OthersKept(h.p)
<1>1. HandlerOK(h) /\ h.p \in Persons /\ OwnHandler(h) /\ KindOK(h)
  BY SeparateFacts
<1>2. h.kind = "renamed" /\ h.pc = "start" /\ UNCHANGED <<db, table, ox, kc>> /\ kc[h.p] # -1
  BY <1>1, HandleRenamedDoes DEF KindOK, LeavingKind, Ending
<1>3. ASSUME NEW g, Become(h, {g}), Moves(h, g), g.pc # "disable", WithRow(g) => OwnRow(g.row, h.p)
      PROVE  Separate' /\ OthersKept(h.p)
  <2>1. \A x \in {g} : x.p = h.p /\ KindOK(x) /\ OwnHandler(x)
    BY <1>2, <1>3, MovesOwn DEF Moves
  <2> QED
    BY <2>1, <1>2, <1>3, SeparateRead DEF KcEffect
<1>4. ASSUME NEW i \in WithStatus(h.p, "ENABLED"), NEW g, Become(h, {g}), Moves(h, g), g.pc = "retire",
             g.row = [emails[i] EXCEPT !.status = "DISABLED"]
      PROVE  Separate' /\ OthersKept(h.p)
  <2>1. i \in RowsOf(h.p)
    BY DEF WithStatus
  <2>2. emails[i] \in Row /\ emails[i].owner = h.p /\ emails[i].id = i
    BY <2>1 DEF EmailTypeInv, EmailsOK, RowsOf
  <2>3. g.row.id = i /\ g.row.owner = h.p /\ g.row.ox = emails[i].ox
    BY <1>4, <2>2 DEF Row
  <2>4. OwnRow(g.row, h.p)
    BY <2>1, <2>3, <1>1, OwnTableRow
  <2> QED
    BY <2>4, <1>3, <1>4
<1>5. ASSUME NEW g, Become(h, {g}), Moves(h, g), g.pc = "address" PROVE Separate' /\ OthersKept(h.p)
  <2>1. ~WithRow(g)
    BY <1>2, <1>5 DEF WithRow, Moves
  <2> QED
    BY <2>1, <1>3, <1>5
<1>6. CASE Become(h, {})
  BY <1>2, <1>6, SeparateRead DEF KcEffect
<1> QED
  BY <1>1, <1>4, <1>5, <1>6, HandleRenamedDoes

LEMMA RetireOwn ==
    ASSUME EmailAssumption, EmailTypeInv, EmailTypeInv', Separate, NEW h \in Running, Retire(h)
    PROVE  Separate' /\ OthersKept(h.p)
<1>1. HandlerOK(h) /\ h.p \in Persons /\ OwnHandler(h) /\ KindOK(h)
  BY SeparateFacts
<1>2. h.kind = "renamed" /\ h.pc = "retire" /\ UNCHANGED <<db, ox, kc>> /\ kc[h.p] # -1
  <2>1. h.kind = "renamed" /\ h.pc = "retire" /\ UNCHANGED <<db, ox, kc>>
    BY DEF Retire, Outside, OxData
  <2> QED
    BY <2>1, <1>1 DEF KindOK, LeavingKind, Ending
<1>3. OwnRow(h.row, h.p)
  BY <1>1, <1>2 DEF OwnHandler, WithRow
<1>4. PICK g : g = [h EXCEPT !.pc = "address", !.row = NoRow]
  OBVIOUS
<1>5. g.p = h.p /\ g.kind = h.kind /\ g.mail = h.mail /\ g.seen = h.seen /\ g.ox = h.ox /\ g.pc = "address"
  BY <1>1, <1>4 DEF HandlerOK, Fields
<1>6. \A x \in {g} : x.p = h.p /\ KindOK(x) /\ OwnHandler(x)
  BY <1>2, <1>5, MovesOwn DEF WithRow
<1>7. \/ Become(h, {}) /\ UNCHANGED table
      \/ Become(h, {g}) /\ ~Violates(h.row) /\ Write(h.row)
  BY <1>4 DEF Retire, End
<1> QED
  BY <1>2, <1>3, <1>6, <1>7, SeparateWrite

LEMMA ChooseAddressOwn ==
    ASSUME EmailAssumption, EmailTypeInv, EmailTypeInv', Separate, NEW h \in Running, ChooseAddress(h)
    PROVE  Separate' /\ OthersKept(h.p)
<1>1. HandlerOK(h) /\ h.p \in Persons /\ OwnHandler(h) /\ KindOK(h) /\ PcOK(h)
  BY SeparateFacts
<1>2. h.kind \in {"person", "renamed"} /\ h.pc = "address" /\ UNCHANGED <<db, ox, kc>> /\ kc[h.p] # -1
  <2>1. h.pc = "address" /\ UNCHANGED <<db, ox, kc>>
    BY DEF ChooseAddress, Outside, OxData
  <2> QED
    BY <2>1, <1>1 DEF KindOK, LeavingKind, Ending, PcOK
<1>3. \A address, status : OwnRow(NewRow(h.p, address, status), h.p)
  <2>1. 0 \notin DOMAIN ox
    BY DEF EmailTypeInv, OxOK
  <2> QED
    BY <2>1 DEF NewRow, OwnRow, New, Belongs
<1>4. \A x \in NextSchool(h) : x.p = h.p /\ KindOK(x) /\ OwnHandler(x)
  BY <1>1, <1>2, NextSchoolOwn
<1>5. CASE Become(h, NextSchool(h)) /\ UNCHANGED table
  BY <1>2, <1>4, <1>5, SeparateWrite
<1>6. ASSUME NEW row, row = NewRow(h.p, FreeAddress(db[h.p].name), "REQUESTED"),
             Become(h, {[h EXCEPT !.pc = "check", !.row = row]}), UNCHANGED table
      PROVE  Separate' /\ OthersKept(h.p)
  <2>1. PICK g : g = [h EXCEPT !.pc = "check", !.row = row]
    OBVIOUS
  <2>2. g.p = h.p /\ g.kind = h.kind /\ g.mail = h.mail /\ g.seen = h.seen /\ g.ox = h.ox /\ g.pc = "check" /\ g.row = row
    BY <1>1, <2>1 DEF HandlerOK, Fields
  <2>3. OwnRow(g.row, h.p)
    BY <1>3, <1>6, <2>2
  <2>4. \A x \in {g} : x.p = h.p /\ KindOK(x) /\ OwnHandler(x)
    BY <1>2, <2>2, <2>3, MovesOwn
  <2>5. Become(h, {g})
    BY <1>6, <2>1
  <2> QED
    BY <1>2, <1>6, <2>4, <2>5, SeparateWrite
<1>7. ASSUME NEW row, row = NewRow(h.p, <<0, Len(emails)>>, "FAILED"), Write(row), Become(h, NextSchool(h)),
             ~db[h.p].gone
      PROVE  Separate' /\ OthersKept(h.p)
  <2>1. OwnRow(row, h.p)
    BY <1>3, <1>7
  <2>2. RowsEffect(h.p) /\ OxEffect(h.p) /\ KcEffect
    BY <2>1, <1>1, <1>2, <1>7, WriteEffect DEF OxEffect, KcEffect, EmailTypeInv
  <2> QED
    BY <1>2, <1>4, <1>7, <2>2, SeparateKept
<1> QED
  BY <1>5, <1>6, <1>7 DEF ChooseAddress

\* A handler that reads, or changes groups, and goes on, or ends.
OxSame == DOMAIN ox' = DOMAIN ox /\ \A n \in DOMAIN ox : ox'[n].username = ox[n].username

LEMMA ReadsOwn ==
    ASSUME EmailAssumption, EmailTypeInv, EmailTypeInv', Separate, NEW h \in Running, h.kind # "deleteRow",
           UNCHANGED <<db, table>>, KcEffect, ox' = ox \/ OxSame, NEW g, Become(h, {g}), g.p = h.p, g.kind = h.kind,
           g.mail = h.mail \/ h.kind \notin Ending, g.seen = h.seen, g.ox = h.ox \/ Belongs(g.ox, h.p),
           WithRow(g) => OwnRow(g.row, h.p), g.kind = "person" => g.pc # "disable",
           kc[h.p] # -1 \/ (g.kind # "person" /\ LeavingKind(h))
    PROVE  Separate' /\ OthersKept(h.p)
<1>1. \A x \in {g} : x.p = h.p /\ KindOK(x) /\ OwnHandler(x)
  BY MovesOwn
<1> QED
  BY <1>1, SeparateRead DEF OxSame

LEMMA EndsOwn ==
    ASSUME EmailAssumption, EmailTypeInv, EmailTypeInv', Separate, NEW h \in Running, h.kind # "deleteRow",
           UNCHANGED <<db, table>>, KcEffect, ox' = ox \/ OxSame, Become(h, {})
    PROVE  Separate' /\ OthersKept(h.p)
BY SeparateRead DEF OxSame

Stays(h, g) ==
    /\ Moves(h, g) /\ g.row = h.row /\ g.after = h.after /\ g.user = h.user /\ g.school = h.school
    /\ g.removed = h.removed

LEMMA GotoDoes ==
    ASSUME NEW h, HandlerOK(h), NEW place, Goto(h, place)
    PROVE  \E g : Become(h, {g}) /\ Stays(h, g) /\ g.pc = place
<1>1. PICK g : g = [h EXCEPT !.pc = place]
  OBVIOUS
<1>2. Become(h, {g})
  BY <1>1 DEF Goto
<1>3. Stays(h, g) /\ g.pc = place
  BY <1>1 DEF Stays, Moves, HandlerOK, Fields
<1> QED
  BY <1>2, <1>3

LEMMA NextSchoolIs ==
    ASSUME NEW h, HandlerOK(h)
    PROVE  /\ h.todo = {} => NextSchool(h) = {}
           /\ h.todo # {} => \E g : /\ NextSchool(h) = {g} /\ Moves(h, g) /\ g.pc = "school"
                                    /\ g.after = h.after /\ g.removed = h.removed
<1>1. PICK g : g = [h EXCEPT !.pc = "school", !.row = NoRow]
  OBVIOUS
<1>2. Moves(h, g) /\ g.pc = "school" /\ g.after = h.after /\ g.removed = h.removed
  BY <1>1 DEF Moves, HandlerOK, Fields
<1> QED
  BY <1>1, <1>2 DEF NextSchool

\* No call fails.
Smooth == failures = 0 /\ overlaps = 0
LEMMA NoTrouble == ASSUME EmailTypeInv, failures' = 0 PROVE ~Trouble
BY DEF EmailTypeInv, CountsOK, Trouble

LEMMA CheckDoes ==
    ASSUME NEW h, HandlerOK(h), Check(h)
    PROVE  /\ h.kind \in {"person", "renamed", "create", "metadata"} /\ h.pc = "check" /\ WithRow(h)
           /\ UNCHANGED <<db, serving, table, ox, oxGroups, kc, twice>>
           /\ \/ MaySave(h.row) /\ \E g : Become(h, {g}) /\ Stays(h, g) /\ g.pc = "write"
              \/ ~MaySave(h.row) /\ h.kind = "create" /\ \E g : Become(h, {g}) /\ Stays(h, g) /\ g.pc = "failed"
              \/ ~MaySave(h.row) /\ h.kind # "create" /\ Become(h, NextSchool(h))
<1>1. h.kind \in {"person", "renamed", "create", "metadata"} /\ h.pc = "check" /\ WithRow(h)
      /\ UNCHANGED <<db, serving, table, ox, oxGroups, kc, twice>>
  BY DEF Check, Outside, OxData, HandlerOK, PcOK, WithRow
<1>2. \/ MaySave(h.row) /\ Goto(h, "write")
      \/ ~MaySave(h.row) /\ h.kind = "create" /\ Goto(h, "failed")
      \/ ~MaySave(h.row) /\ h.kind # "create" /\ Become(h, NextSchool(h))
  <2>1. CASE MaySave(h.row)
    BY <2>1 DEF Check
  <2>2. CASE ~MaySave(h.row) /\ h.kind = "create"
    BY <2>2 DEF Check
  <2>3. CASE ~MaySave(h.row) /\ h.kind # "create"
    BY <2>3 DEF Check
  <2> QED
    BY <2>1, <2>2, <2>3
<1> QED
  BY <1>1, <1>2, GotoDoes

LEMMA CheckOwn ==
    ASSUME EmailAssumption, EmailTypeInv, EmailTypeInv', Separate, NEW h \in Running, Check(h)
    PROVE  Separate' /\ OthersKept(h.p)
<1>1. HandlerOK(h) /\ h.p \in Persons /\ OwnHandler(h) /\ KindOK(h)
  BY SeparateFacts
<1>2. /\ h.kind \in {"person", "renamed", "create", "metadata"} /\ h.pc = "check" /\ OwnRow(h.row, h.p)
      /\ UNCHANGED <<db, table>> /\ UNCHANGED <<ox, kc>> /\ kc[h.p] # -1
  BY <1>1, CheckDoes DEF KindOK, LeavingKind, Ending, OwnHandler
<1>3. ASSUME NEW g, Become(h, {g}), Stays(h, g), g.pc \in {"write", "failed"} PROVE Separate' /\ OthersKept(h.p)
  BY <1>2, <1>3, ReadsOwn DEF Stays, Moves, KcEffect
<1>4. CASE Become(h, NextSchool(h))
  <2>1. \A x \in NextSchool(h) : x.p = h.p /\ KindOK(x) /\ OwnHandler(x)
    BY <1>1, <1>2, NextSchoolOwn
  <2> QED
    BY <1>2, <1>4, <2>1, SeparateRead DEF KcEffect
<1> QED
  BY <1>1, <1>3, <1>4, CheckDoes

LEMMA SaveDoes ==
    ASSUME NEW h, HandlerOK(h), Save(h)
    PROVE  /\ h.kind \in {"person", "renamed", "create", "metadata", "disabledOx"} /\ h.pc = "write" /\ WithRow(h)
           /\ UNCHANGED <<db, serving, ox, oxGroups, kc, twice>>
           /\ \/ Violates(h.row) /\ UNCHANGED table /\ Become(h, {})
              \/ /\ ~Violates(h.row) /\ Write(h.row) /\ h.kind = "create"
                 /\ \E g : Become(h, {g}) /\ Stays(h, g) /\ g.pc = "group"
              \/ /\ ~Violates(h.row) /\ Write(h.row) /\ h.kind # "create"
                 /\ Become(h, NextSchool(h) \cup Published(h))
<1>1. h.kind \in {"person", "renamed", "create", "metadata", "disabledOx"} /\ h.pc = "write" /\ WithRow(h)
      /\ UNCHANGED <<db, serving, ox, oxGroups, kc, twice>>
  BY DEF Save, Outside, OxData, HandlerOK, PcOK, WithRow
<1>2. \/ Violates(h.row) /\ UNCHANGED table /\ Become(h, {})
      \/ /\ ~Violates(h.row) /\ Write(h.row) /\ h.kind = "create" /\ Goto(h, "group")
      \/ /\ ~Violates(h.row) /\ Write(h.row) /\ h.kind # "create" /\ Become(h, NextSchool(h) \cup Published(h))
  BY DEF Save, End, Goto
<1> QED
  BY <1>1, <1>2, GotoDoes

\* What a save tells is one handler, or none.
LEMMA PublishedIs ==
    ASSUME NEW h
    PROVE  Published(h) = CASE h.after = "generated" -> {Sub(h, "create")}
                            [] h.after = "changed" -> {Sub(h, "change")}
                            [] h.after = "disabled" -> {Sub(h, "changeDisabled")}
                            [] OTHER -> {}
BY DEF Published

LEMMA SaveOwn ==
    ASSUME EmailAssumption, EmailTypeInv, EmailTypeInv', Separate, NEW h \in Running, Save(h)
    PROVE  Separate' /\ OthersKept(h.p)
<1>1. HandlerOK(h) /\ h.p \in Persons /\ OwnHandler(h) /\ KindOK(h)
  BY SeparateFacts
<1>2. /\ h.kind \in {"person", "renamed", "create", "metadata", "disabledOx"} /\ h.pc = "write"
      /\ OwnRow(h.row, h.p) /\ UNCHANGED <<db, ox, kc>> /\ kc[h.p] # -1
  BY <1>1, SaveDoes DEF KindOK, LeavingKind, Ending, OwnHandler
<1>3. CASE UNCHANGED table /\ Become(h, {})
  BY <1>2, <1>3, EndsOwn DEF KcEffect
<1>4. ASSUME ~Violates(h.row), Write(h.row), NEW next, Become(h, next),
             \A g \in next : g.p = h.p /\ KindOK(g) /\ OwnHandler(g)
      PROVE  Separate' /\ OthersKept(h.p)
  BY <1>2, <1>4, SeparateWrite
<1>5. ASSUME ~Violates(h.row), Write(h.row), NEW g, Become(h, {g}), Stays(h, g), g.pc = "group" PROVE Separate' /\ OthersKept(h.p)
  <2>1. \A x \in {g} : x.p = h.p /\ KindOK(x) /\ OwnHandler(x)
    BY <1>2, <1>5, MovesOwn DEF Stays, Moves
  <2> QED
    BY <2>1, <1>4, <1>5
<1>6. CASE ~Violates(h.row) /\ Write(h.row) /\ Become(h, NextSchool(h) \cup Published(h))
  <2>1. \A x \in NextSchool(h) : x.p = h.p /\ KindOK(x) /\ OwnHandler(x)
    BY <1>1, <1>2, NextSchoolOwn
  <2>2. \A kind \in {"create", "change", "changeDisabled"} :
           OwnHandler(Sub(h, kind)) /\ KindOK(Sub(h, kind)) /\ Sub(h, kind).p = h.p
    BY <1>1, <1>2, OwnSub
  <2>3. \A x \in Published(h) : x.p = h.p /\ KindOK(x) /\ OwnHandler(x)
    BY <2>2, PublishedIs
  <2>4. \A x \in NextSchool(h) \cup Published(h) : x.p = h.p /\ KindOK(x) /\ OwnHandler(x)
    BY <2>1, <2>3
  <2> QED
    BY <2>4, <1>4, <1>6
<1> QED
  BY <1>1, <1>3, <1>5, <1>6, SaveDoes

LEMMA RequestedIs ==
    ASSUME EmailTypeInv, NEW p \in Persons, IsRequested(p)
    PROVE  \E i \in WithStatus(p, "REQUESTED") :
              /\ i \in DOMAIN emails /\ Requested(p) = emails[i] /\ emails[i] \in Row
              /\ emails[i].id = i /\ emails[i].owner = p /\ emails[i].status = "REQUESTED"
<1>1. WithStatus(p, "REQUESTED") # {} /\ WithStatus(p, "REQUESTED") \subseteq DOMAIN emails /\ EmailsOK
  BY OwnRows DEF IsRequested, EmailTypeInv
<1>2. Newest(WithStatus(p, "REQUESTED")) \in WithStatus(p, "REQUESTED")
  BY <1>1, NewestIsMember
<1>3. PICK i \in WithStatus(p, "REQUESTED") : i = Newest(WithStatus(p, "REQUESTED"))
  BY <1>2
<1>4. Requested(p) = emails[i]
  BY <1>3 DEF Requested
<1>5. i \in DOMAIN emails /\ emails[i].owner = p /\ emails[i].status = "REQUESTED"
  BY <1>1, OwnRows
<1>6. emails[i] \in Row /\ emails[i].id = i
  BY <1>1, <1>5 DEF EmailsOK
<1> QED
  BY <1>4, <1>5, <1>6

LEMMA EnableDoes ==
    ASSUME EmailTypeInv, NEW h, HandlerOK(h), Enable(h)
    PROVE  /\ h.kind = "metadata" /\ h.pc = "start"
           /\ UNCHANGED <<db, serving, table, ox, oxGroups, kc, twice>>
           /\ \/ IsRequested(h.p) /\ \E g : /\ Become(h, {g}) /\ Moves(h, g) /\ g.pc = "check" /\ g.after = h.after
                                           /\ g.row = [Requested(h.p) EXCEPT !.address = h.mail,
                                                                  !.status = "ENABLED", !.ox = h.ox]
              \/ ~IsRequested(h.p) /\ Become(h, {})
<1>1. h.kind = "metadata" /\ h.pc = "start" /\ UNCHANGED <<db, serving, table, ox, oxGroups, kc, twice>>
  BY DEF Enable, Outside, OxData
<1>2. PICK row : row = [Requested(h.p) EXCEPT !.address = h.mail, !.status = "ENABLED", !.ox = h.ox]
  OBVIOUS
<1>3. PICK g : g = [h EXCEPT !.pc = "check", !.row = row]
  OBVIOUS
<1>4. \/ IsRequested(h.p) /\ Become(h, {[h EXCEPT !.pc = "check", !.row = row]})
      \/ ~IsRequested(h.p) /\ Become(h, {})
  BY <1>2 DEF Enable, End
<1>5. Moves(h, g) /\ g.pc = "check" /\ g.after = h.after /\ g.row = row
  BY <1>3 DEF Moves, HandlerOK, Fields
<1>6. \/ IsRequested(h.p) /\ Become(h, {g})
      \/ ~IsRequested(h.p) /\ Become(h, {})
  BY <1>3, <1>4
<1> QED
  BY <1>1, <1>2, <1>5, <1>6

LEMMA EnableOwn ==
    ASSUME EmailAssumption, EmailTypeInv, EmailTypeInv', Separate, NEW h \in Running, Enable(h)
    PROVE  Separate' /\ OthersKept(h.p)
<1>1. HandlerOK(h) /\ h.p \in Persons /\ OwnHandler(h) /\ KindOK(h)
  BY SeparateFacts
<1>2. /\ h.kind = "metadata" /\ h.pc = "start" /\ UNCHANGED <<db, table>> /\ UNCHANGED <<ox, kc>> /\ kc[h.p] # -1
  BY <1>1, EnableDoes DEF KindOK, LeavingKind, Ending
<1>3. CASE Become(h, {})
  BY <1>2, <1>3, EndsOwn DEF KcEffect
<1>4. ASSUME IsRequested(h.p), NEW g, Become(h, {g}), Moves(h, g), g.pc = "check",
             g.row = [Requested(h.p) EXCEPT !.address = h.mail, !.status = "ENABLED", !.ox = h.ox]
      PROVE  Separate' /\ OthersKept(h.p)
  <2>1. PICK i \in DOMAIN emails : Requested(h.p) = emails[i] /\ emails[i] \in Row /\ emails[i].id = i /\ emails[i].owner = h.p
    BY <1>1, <1>4, RequestedIs
  <2>2. g.row.id = i /\ g.row.owner = h.p /\ g.row.ox = h.ox
    BY <1>4, <2>1 DEF Row
  <2>3. OwnRow(g.row, h.p)
    BY <1>1, <2>1, <2>2 DEF OwnRow, OwnHandler
  <2> QED
    BY <1>2, <1>4, <2>3, ReadsOwn DEF Moves, KcEffect
<1> QED
  BY <1>1, <1>3, <1>4, EnableDoes

LEMMA EnableDisabledDoes ==
    ASSUME EmailTypeInv, NEW h, HandlerOK(h), EnableDisabled(h)
    PROVE  /\ h.kind = "disabledOx" /\ h.pc = "start"
           /\ UNCHANGED <<db, serving, table, ox, oxGroups, kc, twice>>
           /\ \/ IsRequested(h.p) /\ \E g : /\ Become(h, {g}) /\ Moves(h, g) /\ g.pc = "write" /\ g.after = h.after
                                           /\ g.row = [Requested(h.p) EXCEPT !.status = "DISABLED", !.ox = h.ox]
              \/ ~IsRequested(h.p) /\ Become(h, {})
<1>1. h.kind = "disabledOx" /\ h.pc = "start" /\ UNCHANGED <<db, serving, table, ox, oxGroups, kc, twice>>
  BY DEF EnableDisabled, Outside, OxData
<1>2. PICK row : row = [Requested(h.p) EXCEPT !.status = "DISABLED", !.ox = h.ox]
  OBVIOUS
<1>3. PICK g : g = [h EXCEPT !.pc = "write", !.row = row]
  OBVIOUS
<1>4. \/ IsRequested(h.p) /\ Become(h, {[h EXCEPT !.pc = "write", !.row = row]})
      \/ ~IsRequested(h.p) /\ Become(h, {})
  BY <1>2 DEF EnableDisabled, End
<1>5. Moves(h, g) /\ g.pc = "write" /\ g.after = h.after /\ g.row = row
  BY <1>3 DEF Moves, HandlerOK, Fields
<1>6. \/ IsRequested(h.p) /\ Become(h, {g})
      \/ ~IsRequested(h.p) /\ Become(h, {})
  BY <1>3, <1>4
<1> QED
  BY <1>1, <1>2, <1>5, <1>6

LEMMA EnableDisabledOwn ==
    ASSUME EmailAssumption, EmailTypeInv, EmailTypeInv', Separate, NEW h \in Running, EnableDisabled(h)
    PROVE  Separate' /\ OthersKept(h.p)
<1>1. HandlerOK(h) /\ h.p \in Persons /\ OwnHandler(h) /\ KindOK(h)
  BY SeparateFacts
<1>2. /\ h.kind = "disabledOx" /\ h.pc = "start" /\ UNCHANGED <<db, table>> /\ UNCHANGED <<ox, kc>> /\ kc[h.p] # -1
  BY <1>1, EnableDisabledDoes DEF KindOK, LeavingKind, Ending
<1>3. CASE Become(h, {})
  BY <1>2, <1>3, EndsOwn DEF KcEffect
<1>4. ASSUME IsRequested(h.p), NEW g, Become(h, {g}), Moves(h, g), g.pc = "write",
             g.row = [Requested(h.p) EXCEPT !.status = "DISABLED", !.ox = h.ox]
      PROVE  Separate' /\ OthersKept(h.p)
  <2>1. PICK i \in DOMAIN emails : Requested(h.p) = emails[i] /\ emails[i] \in Row /\ emails[i].id = i /\ emails[i].owner = h.p
    BY <1>1, <1>4, RequestedIs
  <2>2. g.row.id = i /\ g.row.owner = h.p /\ g.row.ox = h.ox
    BY <1>4, <2>1 DEF Row
  <2>3. OwnRow(g.row, h.p)
    BY <1>1, <2>1, <2>2 DEF OwnRow, OwnHandler
  <2> QED
    BY <1>2, <1>4, <2>3, ReadsOwn DEF Moves, KcEffect
<1> QED
  BY <1>1, <1>3, <1>4, EnableDisabledDoes

\* What is written to a row that exists.
LEMMA RowWritten ==
    ASSUME EmailTypeInv, NEW i \in DOMAIN emails, NEW row, row.id = i, Write(row)
    PROVE  /\ DOMAIN emails' = DOMAIN emails /\ emails'[i] = row
           /\ \A j \in DOMAIN emails : j # i => emails'[j] = emails[j]
<1>1. i # New
  BY DEF EmailTypeInv, EmailsOK, New
<1>2. \/ emails' = [emails EXCEPT ![i] = row]
      \/ emails' = emails /\ row = emails[i]
  BY <1>1, Zenon DEF Write, table
<1> QED
  BY <1>2

LEMMA DeactivateDoes ==
    ASSUME EmailTypeInv, NEW h, HandlerOK(h), Deactivate(h)
    PROVE  /\ h.kind = "deleted" /\ h.pc = "start" /\ Become(h, {})
           /\ UNCHANGED <<db, serving, ox, oxGroups, kc, twice>>
           /\ \/ \E i \in DOMAIN emails :
                    /\ emails[i].address = h.mail /\ DOMAIN emails' = DOMAIN emails
                    /\ emails'[i] = [emails[i] EXCEPT !.status = "DISABLED"]
                    /\ \A j \in DOMAIN emails : j # i => emails'[j] = emails[j]
              \/ (\A i \in DOMAIN emails : emails[i].address # h.mail) /\ UNCHANGED table
<1>1. /\ h.kind = "deleted" /\ h.pc = "start" /\ Become(h, {}) /\ UNCHANGED <<db, serving, ox, oxGroups, kc, twice>>
      /\ \/ \E i \in DOMAIN emails : emails[i].address = h.mail /\ Write([emails[i] EXCEPT !.status = "DISABLED"])
         \/ (\A i \in DOMAIN emails : emails[i].address # h.mail) /\ UNCHANGED table
  BY DEF Deactivate, Outside, OxData, End, HandlerOK, PcOK
<1>2. ASSUME NEW i \in DOMAIN emails, NEW row, row = [emails[i] EXCEPT !.status = "DISABLED"], Write(row)
      PROVE  /\ DOMAIN emails' = DOMAIN emails /\ emails'[i] = [emails[i] EXCEPT !.status = "DISABLED"]
             /\ \A j \in DOMAIN emails : j # i => emails'[j] = emails[j]
  <2>1. emails[i] \in Row /\ emails[i].id = i
    BY DEF EmailTypeInv, EmailsOK
  <2>2. row.id = i
    BY <1>2, <2>1 DEF Row
  <2> QED
    BY <1>2, <2>2, RowWritten
<1> QED
  BY <1>1, <1>2

LEMMA DeactivateOwn ==
    ASSUME EmailAssumption, EmailTypeInv, EmailTypeInv', Separate, NEW h \in Running, Deactivate(h)
    PROVE  Separate' /\ OthersKept(h.p)
<1>1. HandlerOK(h) /\ h.p \in Persons /\ OwnHandler(h) /\ KindOK(h) /\ h.p # Nobody
  BY SeparateFacts
<1>2. h.kind = "deleted" /\ Become(h, {}) /\ UNCHANGED <<db, ox, kc>>
  BY <1>1, DeactivateDoes
<1>3. RowsEffect(h.p)
  <2>1. CASE UNCHANGED table
    BY <2>1 DEF RowsEffect, table
  <2>2. ASSUME NEW i \in DOMAIN emails, emails[i].address = h.mail, DOMAIN emails' = DOMAIN emails,
               emails'[i] = [emails[i] EXCEPT !.status = "DISABLED"],
               \A j \in DOMAIN emails : j # i => emails'[j] = emails[j]
        PROVE  RowsEffect(h.p)
    <3>1. emails[i].owner \in {h.p, Nobody}
      BY <1>1, <1>2, <2>2 DEF OwnHandler
    <3>2. emails[i] \in Row
      BY DEF EmailTypeInv, EmailsOK
    <3>3. emails'[i].owner = emails[i].owner /\ emails'[i].ox = emails[i].ox /\ emails'[i].status = "DISABLED"
      BY <2>2, <3>2 DEF Row
    <3>4. emails[i].owner = h.p => ~db[h.p].gone /\ Belongs(emails[i].ox, h.p)
      BY <1>1 DEF Separate, Ended, RowsOf
    <3> QED
      BY <2>2, <3>1, <3>3, <3>4 DEF RowsEffect
  <2> QED
    BY <1>1, <2>1, <2>2, DeactivateDoes
<1>4. OxEffect(h.p) /\ KcEffect
  BY <1>2 DEF OxEffect, KcEffect
<1> QED
  BY <1>2, <1>3, <1>4, SeparateKept

\* The user that a handler finds is its person's.
LEMMA FoundUserIs ==
    ASSUME EmailAssumption, EmailTypeInv, Separate, NEW h \in Running, ~db[h.p].gone, NEW ids \in Collections(h)
    PROVE  Belongs(OxUserId(h, ids), h.p)
<1>1. HandlerOK(h) /\ h.p \in Persons /\ OwnHandler(h) /\ EmailsOK /\ OxOK /\ h.p # Nobody
  BY SeparateFacts DEF EmailTypeInv
<1>2. ids \subseteq RowsOf(h.p)
  BY <1>1 DEF Collections, OwnHandler
<1> DEFINE good == {i \in ids : emails[i].status # "FAILED"}
<1>3. OxUserId(h, ids) = IF good = {} THEN 0 ELSE emails[First(h, good)].ox
  BY DEF OxUserId
<1>4. good \subseteq RowsOf(h.p) /\ good \subseteq DOMAIN emails
  BY <1>2 DEF RowsOf
<1> HIDE DEF good
<1>5. CASE good = {}
  BY <1>1, <1>3, <1>5 DEF Belongs, OxOK
<1>6. CASE good # {}
  <2>1. PICK i \in RowsOf(h.p) : i = First(h, good)
    BY <1>1, <1>4, <1>6, FirstIsMember
  <2>2. i \in DOMAIN emails /\ emails[i].owner = h.p
    BY DEF RowsOf
  <2>3. Belongs(emails[i].ox, h.p)
    BY <1>1, <2>2 DEF Separate
  <2> QED
    BY <1>3, <1>6, <2>1, <2>3
<1> QED
  BY <1>5, <1>6

LEMMA FindRequestedDoes ==
    ASSUME NEW h, HandlerOK(h), FindRequested(h)
    PROVE  /\ h.kind \in {"create", "change", "changeDisabled"} /\ h.pc = "start"
           /\ UNCHANGED <<db, serving, table, ox, oxGroups, kc, twice>>
           /\ \E ids \in Collections(h) :
                 \/ /\ ~db[h.p].gone /\ IsRequested(h.p) /\ (h.kind = "create" \/ OxUserId(h, ids) # 0)
                    /\ \E g : /\ Become(h, {g}) /\ g.kind = h.kind /\ g.p = h.p /\ g.seen = h.seen /\ g.todo = h.todo
                              /\ g.school = h.school /\ g.mail = h.mail
                              /\ g.pc = (IF h.kind = "create" THEN "exists" ELSE "user")
                              /\ g.row = Requested(h.p) /\ g.user = db[h.p].name
                              /\ g.ox = IF h.kind = "create" THEN 0 ELSE OxUserId(h, ids)
                 \/ /\ db[h.p].gone \/ ~IsRequested(h.p) \/ (h.kind # "create" /\ OxUserId(h, ids) = 0)
                    /\ Become(h, {})
<1>1. h.kind \in {"create", "change", "changeDisabled"} /\ h.pc = "start"
      /\ UNCHANGED <<db, serving, table, ox, oxGroups, kc, twice>>
  BY DEF FindRequested, Outside, OxData
<1>2. PICK ids \in Collections(h) :
           LET user == OxUserId(h, ids)
               goes == /\ ~db[h.p].gone /\ IsRequested(h.p)
                       /\ h.kind = "create" \/ user # 0
           IN  IF goes
               THEN Become(h, {[h EXCEPT !.row = Requested(h.p), !.user = db[h.p].name,
                       !.pc = IF h.kind = "create" THEN "exists" ELSE "user",
                       !.ox = IF h.kind = "create" THEN 0 ELSE user]})
               ELSE End(h)
  BY Zenon DEF FindRequested
<1>3. PICK g : g = [h EXCEPT !.row = Requested(h.p), !.user = db[h.p].name,
                       !.pc = IF h.kind = "create" THEN "exists" ELSE "user",
                       !.ox = IF h.kind = "create" THEN 0 ELSE OxUserId(h, ids)]
  OBVIOUS
<1>4. /\ g.kind = h.kind /\ g.p = h.p /\ g.seen = h.seen /\ g.todo = h.todo
      /\ g.school = h.school /\ g.mail = h.mail
      /\ g.pc = (IF h.kind = "create" THEN "exists" ELSE "user")
      /\ g.row = Requested(h.p) /\ g.user = db[h.p].name
      /\ g.ox = IF h.kind = "create" THEN 0 ELSE OxUserId(h, ids)
  BY <1>3 DEF HandlerOK, Fields
<1>5. CASE ~db[h.p].gone /\ IsRequested(h.p) /\ (h.kind = "create" \/ OxUserId(h, ids) # 0)
  <2>1. Become(h, {g})
    BY <1>2, <1>3, <1>5
  <2> QED
    BY <1>1, <1>4, <1>5, <2>1
<1>6. CASE ~(~db[h.p].gone /\ IsRequested(h.p) /\ (h.kind = "create" \/ OxUserId(h, ids) # 0))
  <2>1. Become(h, {})
    BY <1>2, <1>6 DEF End
  <2> QED
    BY <1>1, <1>6, <2>1
<1> QED
  BY <1>5, <1>6

LEMMA FindRequestedOwn ==
    ASSUME EmailAssumption, EmailTypeInv, EmailTypeInv', Separate, NEW h \in Running, FindRequested(h)
    PROVE  Separate' /\ OthersKept(h.p)
<1>1. HandlerOK(h) /\ h.p \in Persons /\ OwnHandler(h) /\ KindOK(h)
  BY SeparateFacts
<1>2. /\ h.kind \in {"create", "change", "changeDisabled"} /\ UNCHANGED <<db, table>> /\ UNCHANGED <<ox, kc>>
      /\ kc[h.p] # -1
  BY <1>1, FindRequestedDoes DEF KindOK, LeavingKind, Ending
<1>3. CASE Become(h, {})
  BY <1>2, <1>3, EndsOwn DEF KcEffect
<1>4. ASSUME NEW ids \in Collections(h), ~db[h.p].gone, IsRequested(h.p), NEW g, Become(h, {g}),
             g.kind = h.kind, g.p = h.p, g.seen = h.seen, g.mail = h.mail, g.row = Requested(h.p),
             g.ox = IF h.kind = "create" THEN 0 ELSE OxUserId(h, ids)
      PROVE  Separate' /\ OthersKept(h.p)
  <2>1. PICK i \in RowsOf(h.p) : Requested(h.p) = emails[i] /\ emails[i] \in Row /\ emails[i].id = i /\ emails[i].owner = h.p
    BY <1>1, <1>4, RequestedIs DEF WithStatus
  <2>2. OwnRow(g.row, h.p)
    BY <1>1, <1>4, <2>1, OwnTableRow
  <2>3. Belongs(OxUserId(h, ids), h.p) /\ Belongs(0, h.p)
    <3>1. 0 \notin DOMAIN ox
      BY DEF EmailTypeInv, OxOK
    <3> QED
      BY <3>1, <1>4, FoundUserIs DEF Belongs
  <2>4. Belongs(g.ox, h.p)
    BY <1>4, <2>3
  <2> QED
    BY <1>2, <1>4, <2>2, <2>4, ReadsOwn DEF KcEffect
<1> QED
  BY <1>1, <1>3, <1>4, FindRequestedDoes

LEMMA ExistsUserDoes ==
    ASSUME EmailTypeInv, failures' = 0, NEW h, HandlerOK(h), ExistsUser(h)
    PROVE  /\ h.kind = "create" /\ h.pc = "exists" /\ WithRow(h)
           /\ UNCHANGED <<db, serving, table, ox, oxGroups, kc, twice>>
           /\ \/ Taken(<<h.p, h.user>>) /\ Become(h, {})
              \/ ~Taken(<<h.p, h.user>>) /\ \E g : Become(h, {g}) /\ Stays(h, g) /\ g.pc = "user"
<1>1. h.kind = "create" /\ h.pc = "exists" /\ WithRow(h)
      /\ UNCHANGED <<db, serving, table, ox, oxGroups, kc, twice>>
  BY DEF ExistsUser, Outside, OxData, HandlerOK, PcOK, WithRow
<1>2. \/ Taken(<<h.p, h.user>>) /\ Become(h, {})
      \/ ~Taken(<<h.p, h.user>>) /\ Goto(h, "user")
  BY NoTrouble DEF ExistsUser, End
<1> QED
  BY <1>1, <1>2, GotoDoes

LEMMA ExistsUserOwn ==
    ASSUME EmailAssumption, EmailTypeInv, EmailTypeInv', Separate, failures' = 0, NEW h \in Running, ExistsUser(h)
    PROVE  Separate' /\ OthersKept(h.p)
<1>1. HandlerOK(h) /\ h.p \in Persons /\ OwnHandler(h) /\ KindOK(h)
  BY SeparateFacts
<1>2. /\ h.kind = "create" /\ UNCHANGED <<db, table>> /\ UNCHANGED <<ox, kc>> /\ kc[h.p] # -1 /\ OwnRow(h.row, h.p)
  BY <1>1, ExistsUserDoes DEF KindOK, LeavingKind, Ending, OwnHandler
<1>3. CASE Become(h, {})
  BY <1>2, <1>3, EndsOwn DEF KcEffect
<1>4. ASSUME NEW g, Become(h, {g}), Stays(h, g) PROVE Separate' /\ OthersKept(h.p)
  BY <1>2, <1>4, ReadsOwn DEF Stays, Moves, KcEffect
<1> QED
  BY <1>1, <1>3, <1>4, ExistsUserDoes

LEMMA CreateUserDoes ==
    ASSUME EmailTypeInv, failures' = 0, NEW h, HandlerOK(h), CreateUser(h)
    PROVE  /\ h.kind = "create" /\ h.pc = "user" /\ WithRow(h)
           /\ UNCHANGED <<db, serving, table, oxGroups, kc, twice>>
           /\ \/ /\ ~Taken(<<h.p, h.user>>)
                 /\ Len(ox) \in Nat /\ DOMAIN ox' = DOMAIN ox \cup {Len(ox) + 1}
                 /\ \A n \in DOMAIN ox : ox'[n] = ox[n]
                 /\ ox'[Len(ox) + 1].username = <<h.p, h.user>> /\ ox'[Len(ox) + 1].groups = {}
                 /\ \E g : /\ Become(h, {g}) /\ g.kind = h.kind /\ g.p = h.p /\ g.seen = h.seen /\ g.todo = h.todo
                           /\ g.school = h.school /\ g.mail = h.mail /\ g.user = h.user
                           /\ g.pc = "check" /\ g.ox = Len(ox) + 1 /\ g.row = [h.row EXCEPT !.ox = Len(ox) + 1]
              \/ /\ Taken(<<h.p, h.user>>) /\ UNCHANGED ox
                 /\ \E g : Become(h, {g}) /\ Stays(h, g) /\ g.pc = "failed"
<1>1. h.kind = "create" /\ h.pc = "user" /\ WithRow(h) /\ UNCHANGED <<db, serving, table, oxGroups, kc, twice>>
  BY DEF CreateUser, Outside, OxData, HandlerOK, PcOK, WithRow
<1>2. \/ /\ ~Taken(<<h.p, h.user>>) /\ ox' = Append(ox, Oxuser(h))
         /\ Become(h, {[h EXCEPT !.pc = "check", !.ox = Len(ox) + 1, !.row.ox = Len(ox) + 1]})
      \/ Taken(<<h.p, h.user>>) /\ UNCHANGED ox /\ Goto(h, "failed")
  BY NoTrouble DEF CreateUser
<1>3. CASE Taken(<<h.p, h.user>>) /\ UNCHANGED ox /\ Goto(h, "failed")
  BY <1>1, <1>3, GotoDoes
<1>4. ASSUME ~Taken(<<h.p, h.user>>), ox' = Append(ox, Oxuser(h)), NEW n, n = Len(ox) + 1,
             Become(h, {[h EXCEPT !.pc = "check", !.ox = n, !.row.ox = n]})
      PROVE  /\ Len(ox) \in Nat /\ DOMAIN ox' = DOMAIN ox \cup {n}
             /\ \A i \in DOMAIN ox : ox'[i] = ox[i]
             /\ ox'[n].username = <<h.p, h.user>> /\ ox'[n].groups = {}
             /\ \E g : /\ Become(h, {g}) /\ g.kind = h.kind /\ g.p = h.p /\ g.seen = h.seen /\ g.todo = h.todo
                       /\ g.school = h.school /\ g.mail = h.mail /\ g.user = h.user
                       /\ g.pc = "check" /\ g.ox = n /\ g.row = [h.row EXCEPT !.ox = n]
  <2>1. PICK g : g = [h EXCEPT !.pc = "check", !.ox = n, !.row.ox = n]
    OBVIOUS
  <2>2. Become(h, {g})
    BY <1>4, <2>1
  <2>3. /\ g.kind = h.kind /\ g.p = h.p /\ g.seen = h.seen /\ g.todo = h.todo
        /\ g.school = h.school /\ g.mail = h.mail /\ g.user = h.user
        /\ g.pc = "check" /\ g.ox = n /\ g.row = [h.row EXCEPT !.ox = n]
    BY <2>1 DEF HandlerOK, Fields
  <2>4. Len(ox) \in Nat /\ DOMAIN ox = 1 .. Len(ox) /\ DOMAIN ox' = 1 .. Len(ox) + 1
        /\ ox'[n] = Oxuser(h) /\ \A i \in DOMAIN ox : ox'[i] = ox[i]
    BY <1>4 DEF EmailTypeInv, OxOK
  <2>5. Oxuser(h).username = <<h.p, h.user>> /\ Oxuser(h).groups = {}
    BY DEF Oxuser
  <2>6. DOMAIN ox' = DOMAIN ox \cup {n}
    BY <2>4, <1>4
  <2> QED
    BY <2>2, <2>3, <2>4, <2>5, <2>6
<1> QED
  BY <1>1, <1>2, <1>3, <1>4

LEMMA CreateUserOwn ==
    ASSUME EmailAssumption, EmailTypeInv, EmailTypeInv', Separate, failures' = 0, NEW h \in Running, CreateUser(h)
    PROVE  Separate' /\ OthersKept(h.p)
<1>1. HandlerOK(h) /\ h.p \in Persons /\ OwnHandler(h) /\ KindOK(h)
  BY SeparateFacts
<1>2. h.kind = "create" /\ UNCHANGED <<db, emails, updated, kc>> /\ kc[h.p] # -1 /\ OwnRow(h.row, h.p)
  BY <1>1, CreateUserDoes DEF KindOK, LeavingKind, Ending, OwnHandler, table
<1>3. ASSUME UNCHANGED ox, NEW g, Become(h, {g}), Stays(h, g) PROVE Separate' /\ OthersKept(h.p)
  BY <1>2, <1>3, ReadsOwn DEF Stays, Moves, KcEffect, table
<1>4. ASSUME DOMAIN ox' = DOMAIN ox \cup {Len(ox) + 1}, \A n \in DOMAIN ox : ox'[n] = ox[n],
             ox'[Len(ox) + 1].username = <<h.p, h.user>>, NEW g, Become(h, {g}),
             g.kind = h.kind, g.p = h.p, g.seen = h.seen, g.mail = h.mail, g.pc = "check", g.ox = Len(ox) + 1,
             g.row = [h.row EXCEPT !.ox = Len(ox) + 1]
      PROVE  Separate' /\ OthersKept(h.p)
  <2>1. PICK n : n = Len(ox) + 1
    OBVIOUS
  <2>2. n \notin DOMAIN ox
    BY <2>1 DEF EmailTypeInv, OxOK
  <2>3. OxEffect(h.p)
    BY <1>4, <2>1, <2>2 DEF OxEffect, Belongs, Mine
  <2>4. RowsEffect(h.p) /\ KcEffect
    BY <1>2 DEF RowsEffect, KcEffect
  <2>5. Belongs(n, h.p)'
    BY <1>4, <2>1 DEF Belongs, Mine
  <2>6. g.row.id = h.row.id /\ g.row.owner = h.row.owner /\ g.row.ox = n
    <3>1. h.row \in Row
      BY <1>1, CreateUserDoes DEF HandlerOK, RowOK
    <3> QED
      BY <3>1, <2>1, <1>4 DEF Row
  <2>7. OwnRow(g.row, h.p)'
    BY <1>2, <2>5, <2>6 DEF OwnRow
  <2>8. OwnHandler(g)'
    BY <1>1, <1>2, <1>4, <2>1, <2>5, <2>7 DEF OwnHandler, RowsOf
  <2>9. KindOK(g)
    BY <1>2, <1>4 DEF KindOK, Ending
  <2>10. \A x \in {g} : x.p = h.p /\ KindOK(x) /\ (OwnHandler(x) \/ OwnHandler(x)')
    BY <2>8, <2>9, <1>4
  <2> QED
    BY <1>2, <1>4, <2>3, <2>4, <2>10, SeparateKept
<1> QED
  BY <1>1, <1>3, <1>4, CreateUserDoes

LEMMA ChangeUserDoes ==
    ASSUME EmailTypeInv, failures' = 0, NEW h, HandlerOK(h), ChangeUser(h)
    PROVE  /\ h.kind \in {"change", "changeDisabled"} /\ h.pc = "user" /\ WithRow(h)
           /\ UNCHANGED <<db, serving, table, oxGroups, kc, twice>>
           /\ \/ /\ DOMAIN ox' = DOMAIN ox /\ \A n \in DOMAIN ox : n # h.ox => ox'[n] = ox[n]
                 /\ h.ox \in DOMAIN ox => /\ ox'[h.ox].username = <<h.p, h.user>>
                                          /\ ox'[h.ox].groups = ox[h.ox].groups
                 /\ \E g : /\ Become(h, {g})
                           /\ g.kind = (IF h.kind = "change" THEN "kcChanged" ELSE "disabledOx")
                           /\ g.p = h.p /\ g.pc = "start" /\ g.user = h.user /\ g.ox = h.ox /\ g.seen = h.seen
                           /\ g.mail = h.row.address /\ g.after = "" /\ g.todo = {}
              \/ /\ \E i \in DOMAIN ox \ {h.ox} : ox[i].username = <<h.p, h.user>>
                 /\ UNCHANGED ox /\ \E g : Become(h, {g}) /\ Stays(h, g) /\ g.pc = "failed"
<1>1. h.kind \in {"change", "changeDisabled"} /\ h.pc = "user" /\ WithRow(h)
      /\ UNCHANGED <<db, serving, table, oxGroups, kc, twice>>
  BY DEF ChangeUser, Outside, WithRow
<1>2. PICK kind : kind = IF h.kind = "change" THEN "kcChanged" ELSE "disabledOx"
  OBVIOUS
<1>3. PICK mail, name : mail = h.row.address /\ name = <<h.p, h.user>>
  OBVIOUS
<1>4. PICK told : told = [h EXCEPT !.mail = mail]
  OBVIOUS
<1>5. /\ told.p = h.p /\ told.user = h.user /\ told.ox = h.ox /\ told.seen = h.seen /\ told.mail = mail
  BY <1>4 DEF HandlerOK, Fields
<1>6. \/ /\ ox' = [ox EXCEPT ![h.ox].username = name, ![h.ox].primary = mail]
         /\ Become(h, {Sub(told, kind)})
      \/ /\ \E i \in DOMAIN ox \ {h.ox} : ox[i].username = name
         /\ UNCHANGED ox /\ Goto(h, "failed")
  BY <1>2, <1>3, <1>4, NoTrouble DEF ChangeUser
<1>7. CASE ox' = [ox EXCEPT ![h.ox].username = name, ![h.ox].primary = mail] /\ Become(h, {Sub(told, kind)})
  <2>1. DOMAIN ox' = DOMAIN ox /\ \A n \in DOMAIN ox : n # h.ox => ox'[n] = ox[n]
    BY <1>7
  <2>2. h.ox \in DOMAIN ox => ox'[h.ox].username = name /\ ox'[h.ox].groups = ox[h.ox].groups
    <3> SUFFICES ASSUME h.ox \in DOMAIN ox PROVE ox'[h.ox].username = name /\ ox'[h.ox].groups = ox[h.ox].groups
      OBVIOUS
    <3>1. ox[h.ox] \in OxUser
      BY DEF EmailTypeInv, OxOK
    <3> QED
      BY <3>1, <1>7 DEF OxUser
  <2>3. PICK g : g = Sub(told, kind)
    OBVIOUS
  <2>5. /\ g.kind = kind /\ g.p = h.p /\ g.pc = "start" /\ g.user = h.user /\ g.ox = h.ox /\ g.mail = mail
        /\ g.seen = h.seen /\ g.todo = {} /\ g.after = ""
    BY <2>3, <1>5 DEF Sub, Handler
  <2>4. Become(h, {g})
    BY <2>3, <1>7
  <2> QED
    BY <1>1, <1>2, <1>3, <2>1, <2>2, <2>4, <2>5
<1>8. CASE (\E i \in DOMAIN ox \ {h.ox} : ox[i].username = name) /\ UNCHANGED ox /\ Goto(h, "failed")
  BY <1>1, <1>3, <1>8, GotoDoes
<1> QED
  BY <1>6, <1>7, <1>8

\* What an event of h starts has no more at hand than h.
LEMMA ToldOwn ==
    ASSUME EmailAssumption, EmailTypeInv, Separate, NEW h \in Running, NEW g, g.p = h.p, g.pc = "start",
           g.ox = h.ox, g.seen = h.seen, g.kind \notin Ending,
           kc[h.p] # -1 \/ g.kind \in {"oxDisabled", "kcDisabled"}
    PROVE  \A x \in {g} : x.p = h.p /\ KindOK(x) /\ OwnHandler(x)
<1>1. HandlerOK(h) /\ h.p \in Persons /\ OwnHandler(h) /\ KindOK(h)
  BY SeparateFacts
<1>2. OwnHandler(g)
  <2>1. ~(g.kind = "person" /\ g.pc = "disable") /\ ~(g.kind \in {"deleted", "oxDeleted"})
    BY DEF Ending
  <2>2. ~WithRow(g)
    BY DEF WithRow
  <2> QED
    BY <1>1, <2>1, <2>2 DEF OwnHandler
<1>3. KindOK(g)
  BY <1>1 DEF KindOK, LeavingKind, Ending
<1> QED
  BY <1>2, <1>3

LEMMA ChangeUserOwn ==
    ASSUME EmailAssumption, EmailTypeInv, EmailTypeInv', Separate, failures' = 0, NEW h \in Running, ChangeUser(h)
    PROVE  Separate' /\ OthersKept(h.p)
<1>1. HandlerOK(h) /\ h.p \in Persons /\ OwnHandler(h) /\ KindOK(h)
  BY SeparateFacts
<1>2. h.kind \in {"change", "changeDisabled"} /\ UNCHANGED <<db, emails, updated, kc>> /\ kc[h.p] # -1 /\ OwnRow(h.row, h.p)
  BY <1>1, ChangeUserDoes DEF KindOK, LeavingKind, Ending, OwnHandler, table
<1>3. ASSUME UNCHANGED ox, NEW g, Become(h, {g}), Stays(h, g) PROVE Separate' /\ OthersKept(h.p)
  BY <1>2, <1>3, ReadsOwn DEF Stays, Moves, KcEffect, table
<1>4. ASSUME DOMAIN ox' = DOMAIN ox, \A n \in DOMAIN ox : n # h.ox => ox'[n] = ox[n],
             h.ox \in DOMAIN ox => ox'[h.ox].username = <<h.p, h.user>>,
             NEW g, Become(h, {g}), g.kind \in {"kcChanged", "disabledOx"}, g.p = h.p, g.pc = "start", g.ox = h.ox, g.seen = h.seen
      PROVE  Separate' /\ OthersKept(h.p)
  <2>1. OxEffect(h.p)
    <3>1. Belongs(h.ox, h.p)
      BY <1>1 DEF OwnHandler
    <3>2. h.ox \in DOMAIN ox => Mine(ox'[h.ox].username, h.p)
      BY <1>4 DEF Mine
    <3> QED
      BY <1>4, <3>1, <3>2 DEF OxEffect
  <2>2. RowsEffect(h.p) /\ KcEffect
    BY <1>2 DEF RowsEffect, KcEffect
  <2>3. \A x \in {g} : x.p = h.p /\ KindOK(x) /\ OwnHandler(x)
    BY <1>2, <1>4, ToldOwn DEF Ending
  <2> QED
    BY <1>2, <1>4, <2>1, <2>2, <2>3, SeparateKept
<1> QED
  BY <1>1, <1>3, <1>4, ChangeUserDoes

LEMMA AlreadyExistsDoes ==
    ASSUME NEW h, HandlerOK(h), AlreadyExists(h)
    PROVE  /\ h.kind = "exists" /\ h.pc = "start" /\ UNCHANGED <<db, serving, table, ox, oxGroups, kc, twice>>
           /\ \/ Become(h, {})
              \/ \E ids \in Collections(h) : \E g :
                    /\ ~db[h.p].gone /\ Become(h, {g}) /\ g.kind = "exists" /\ g.p = h.p /\ g.pc = "group"
                    /\ g.ox = OxUserId(h, ids) /\ g.seen = h.seen
<1>1. h.kind = "exists" /\ h.pc = "start" /\ UNCHANGED <<db, serving, table, ox, oxGroups, kc, twice>>
  BY DEF AlreadyExists, Outside, OxData
<1>2. PICK ids \in Collections(h) :
           IF db[h.p].gone \/ OxUserId(h, ids) = 0 THEN Become(h, {})
           ELSE Become(h, {[h EXCEPT !.pc = "group", !.ox = OxUserId(h, ids),
                                     !.mail = MailOf(h, ids), !.user = db[h.p].name]})
  BY Zenon DEF AlreadyExists, End
<1>3. PICK g : g = [h EXCEPT !.pc = "group", !.ox = OxUserId(h, ids),
                                     !.mail = MailOf(h, ids), !.user = db[h.p].name]
  OBVIOUS
<1>4. g.kind = h.kind /\ g.p = h.p /\ g.pc = "group" /\ g.ox = OxUserId(h, ids) /\ g.seen = h.seen
  BY <1>3 DEF HandlerOK, Fields
<1>5. Become(h, {}) \/ (~db[h.p].gone /\ Become(h, {g}))
  BY <1>2, <1>3
<1> QED
  BY <1>1, <1>4, <1>5

LEMMA AlreadyExistsOwn ==
    ASSUME EmailAssumption, EmailTypeInv, EmailTypeInv', Separate, NEW h \in Running, AlreadyExists(h)
    PROVE  Separate' /\ OthersKept(h.p)
<1>1. HandlerOK(h) /\ h.p \in Persons /\ OwnHandler(h) /\ KindOK(h)
  BY SeparateFacts
<1>2. h.kind = "exists" /\ UNCHANGED <<db, table>> /\ UNCHANGED <<ox, kc>> /\ kc[h.p] # -1
  BY <1>1, AlreadyExistsDoes DEF KindOK, LeavingKind, Ending
<1>3. CASE Become(h, {})
  BY <1>2, <1>3, EndsOwn DEF KcEffect, Ending
<1>4. ASSUME NEW ids \in Collections(h), NEW g, ~db[h.p].gone, Become(h, {g}), g.kind = "exists", g.p = h.p, g.pc = "group",
             g.ox = OxUserId(h, ids), g.seen = h.seen
      PROVE  Separate' /\ OthersKept(h.p)
  <2>1. Belongs(g.ox, h.p)
    BY <1>4, FoundUserIs
  <2>2. ~WithRow(g)
    BY <1>4 DEF WithRow
  <2> QED
    BY <1>2, <1>4, <2>1, <2>2, ReadsOwn DEF KcEffect, Ending
<1> QED
  BY <1>1, <1>3, <1>4, AlreadyExistsDoes

LEMMA GivesDoes ==
    ASSUME NEW h, HandlerOK(h), Gives(h)
    PROVE  \/ h.kind = "create" /\ \E g : Become(h, {g}) /\ Stays(h, g) /\ g.pc = "failed"
           \/ h.kind # "create" /\ Become(h, {})
<1>1. \/ h.kind = "create" /\ Goto(h, "failed")
      \/ h.kind # "create" /\ Become(h, {})
  BY DEF Gives, End
<1> QED
  BY <1>1, GotoDoes

LEMMA FindGroupDoes ==
    ASSUME EmailTypeInv, failures' = 0, NEW h, HandlerOK(h), FindGroup(h)
    PROVE  /\ h.kind \in {"create", "exists"} /\ h.pc = "group"
           /\ UNCHANGED <<db, serving, table, ox, oxGroups, kc, twice>>
           /\ \E g : /\ Become(h, {g}) /\ Stays(h, g)
                     /\ g.pc = "add" \/ (g.pc = "createGroup" /\ h.school \notin oxGroups)
<1>1. /\ h.kind \in {"create", "exists"} /\ h.pc = "group"
      /\ UNCHANGED <<db, serving, table, ox, oxGroups, kc, twice>>
  BY DEF FindGroup, Outside, OxData, HandlerOK, PcOK
<1>2. Goto(h, "add") \/ (Goto(h, "createGroup") /\ h.school \notin oxGroups)
  BY NoTrouble DEF FindGroup
<1>3. CASE Goto(h, "add")
  <2>1. PICK g : Become(h, {g}) /\ Stays(h, g) /\ g.pc = "add"
    BY <1>3, GotoDoes
  <2> QED
    BY <1>1, <2>1
<1>4. CASE Goto(h, "createGroup") /\ h.school \notin oxGroups
  <2>1. PICK g : Become(h, {g}) /\ Stays(h, g) /\ g.pc = "createGroup"
    BY <1>4, GotoDoes
  <2> QED
    BY <1>1, <1>4, <2>1
<1> QED
  BY <1>2, <1>3, <1>4

LEMMA CreateGroupDoes ==
    ASSUME EmailTypeInv, failures' = 0, NEW h, HandlerOK(h), CreateGroup(h)
    PROVE  /\ h.kind \in {"create", "exists"} /\ h.pc = "createGroup"
           /\ UNCHANGED <<db, serving, table, ox, kc, twice>>
           /\ \/ h.school \notin oxGroups /\ \E g : Become(h, {g}) /\ Stays(h, g) /\ g.pc = "add"
              \/ h.school \in oxGroups /\ h.kind = "create" /\ \E g : Become(h, {g}) /\ Stays(h, g) /\ g.pc = "failed"
              \/ h.kind = "exists" /\ Become(h, {})
<1>1. /\ h.kind \in {"create", "exists"} /\ h.pc = "createGroup"
      /\ UNCHANGED <<db, serving, table, ox, kc, twice>>
  BY DEF CreateGroup, Outside, HandlerOK, PcOK
<1>2. (h.school \notin oxGroups /\ Goto(h, "add")) \/ (h.school \in oxGroups /\ Gives(h))
  BY NoTrouble DEF CreateGroup
<1> QED
  BY <1>1, <1>2, GotoDoes, GivesDoes

\* A user of OX leaves or joins groups.
LEMMA GroupsOnly ==
    ASSUME OxOK, NEW n, NEW groups, ox' = [ox EXCEPT ![n].groups = groups]
    PROVE  OxSame /\ \A i \in DOMAIN ox : ox'[i].groups = IF i = n THEN groups ELSE ox[i].groups
<1>1. \A i \in DOMAIN ox : ox[i] \in OxUser
  BY DEF OxOK
<1>2. \A i \in DOMAIN ox : i # n => ox'[i] = ox[i]
  OBVIOUS
<1>3. n \in DOMAIN ox => ox'[n] = [ox[n] EXCEPT !.groups = groups]
  OBVIOUS
<1>4. n \in DOMAIN ox => ox'[n].groups = groups /\ ox'[n].username = ox[n].username
  BY <1>1, <1>3 DEF OxUser
<1> QED
  BY <1>2, <1>4 DEF OxSame

LEMMA AddMemberDoes ==
    ASSUME EmailTypeInv, failures' = 0, NEW h, HandlerOK(h), AddMember(h)
    PROVE  /\ h.kind \in {"create", "exists"} /\ h.pc = "add" /\ OxSame
           /\ UNCHANGED <<db, serving, table, oxGroups, kc, twice>>
           /\ \/ \E g : /\ Become(h, {g}) /\ g.kind = "kcChanged" /\ g.p = h.p /\ g.pc = "start" /\ g.user = h.user
                        /\ g.ox = h.ox /\ g.seen = h.seen /\ g.after = "" /\ g.todo = {}
                        /\ h.kind = "create" => g.mail = h.row.address
              \/ /\ h.school \in ox[h.ox].groups /\ h.kind = "create"
                 /\ \E g : Become(h, {g}) /\ Stays(h, g) /\ g.pc = "failed"
              \/ h.kind = "exists" /\ Become(h, {})
<1>1. /\ h.kind \in {"create", "exists"} /\ h.pc = "add"
      /\ UNCHANGED <<db, serving, table, oxGroups, kc, twice>>
  BY DEF AddMember, Outside, HandlerOK, PcOK
<1>2. PICK groups, mail : /\ groups = ox[h.ox].groups \cup {h.school}
                          /\ mail = IF h.kind = "create" THEN h.row.address ELSE h.mail
  OBVIOUS
<1>3. \/ ox' = [ox EXCEPT ![h.ox].groups = groups] /\ Become(h, {Sub([h EXCEPT !.mail = mail], "kcChanged")})
      \/ h.school \in ox[h.ox].groups /\ UNCHANGED ox /\ Gives(h)
  BY <1>2, NoTrouble DEF AddMember
<1>4. CASE ox' = [ox EXCEPT ![h.ox].groups = groups] /\ Become(h, {Sub([h EXCEPT !.mail = mail], "kcChanged")})
  <2>1. PICK told : told = [h EXCEPT !.mail = mail]
    OBVIOUS
  <2>2. told.p = h.p /\ told.user = h.user /\ told.ox = h.ox /\ told.seen = h.seen /\ told.mail = mail
    BY <2>1 DEF HandlerOK, Fields
  <2>3. PICK g : g = Sub(told, "kcChanged")
    OBVIOUS
  <2>4. /\ g.kind = "kcChanged" /\ g.p = h.p /\ g.pc = "start" /\ g.user = h.user
        /\ g.ox = h.ox /\ g.seen = h.seen /\ g.after = "" /\ g.todo = {} /\ g.mail = mail
    BY <2>2, <2>3 DEF Sub, Handler
  <2>5. Become(h, {g})
    BY <1>4, <2>1, <2>3
  <2>6. OxSame
    BY <1>4, GroupsOnly DEF EmailTypeInv
  <2>7. h.kind = "create" => g.mail = h.row.address
    BY <2>4, <1>2
  <2> QED
    BY <1>1, <2>4, <2>5, <2>6, <2>7
<1>5. CASE h.school \in ox[h.ox].groups /\ UNCHANGED ox /\ Gives(h)
  <2>1. OxSame
    BY <1>5 DEF OxSame
  <2> QED
    BY <1>1, <1>5, <2>1, GivesDoes
<1> QED
  BY <1>3, <1>4, <1>5

\* The steps of the groups.
LEMMA GroupsOwn ==
    ASSUME EmailAssumption, EmailTypeInv, EmailTypeInv', Separate, failures' = 0, NEW h \in Running,
           FindGroup(h) \/ CreateGroup(h) \/ AddMember(h)
    PROVE  Separate' /\ OthersKept(h.p)
<1>1. HandlerOK(h) /\ h.p \in Persons /\ OwnHandler(h) /\ KindOK(h)
  BY SeparateFacts
<1>2. /\ h.kind \in {"create", "exists"} /\ h.pc \in {"group", "createGroup", "add"} /\ UNCHANGED <<db, table, kc>> /\ OxSame
      /\ \/ Become(h, {})
         \/ \E g : Become(h, {g}) /\ Stays(h, g) /\ h.kind = "create"
         \/ \E g : Become(h, {g}) /\ Stays(h, g) /\ g.pc \in {"group", "createGroup", "add"}
         \/ \E g : /\ Become(h, {g}) /\ g.kind = "kcChanged" /\ g.p = h.p /\ g.pc = "start" /\ g.ox = h.ox /\ g.seen = h.seen
  <2>1. CASE FindGroup(h)
    BY <1>1, <2>1, FindGroupDoes DEF OxSame
  <2>2. CASE CreateGroup(h)
    BY <1>1, <2>2, CreateGroupDoes DEF OxSame
  <2>3. CASE AddMember(h)
    BY <1>1, <2>3, AddMemberDoes
  <2> QED
    BY <2>1, <2>2, <2>3
<1>3. kc[h.p] # -1 /\ KcEffect /\ h.kind # "deleteRow"
  BY <1>1, <1>2 DEF KindOK, LeavingKind, Ending, KcEffect
<1>4. CASE Become(h, {})
  BY <1>2, <1>3, <1>4, EndsOwn DEF table
<1>5. ASSUME NEW g, Become(h, {g}), Stays(h, g), WithRow(g) => WithRow(h) PROVE Separate' /\ OthersKept(h.p)
  <2>1. WithRow(g) => OwnRow(g.row, h.p)
    BY <1>1, <1>5 DEF OwnHandler, Stays
  <2> QED
    BY <1>2, <1>3, <1>5, <2>1, ReadsOwn DEF Stays, Moves, table
<1>6. ASSUME NEW g, Become(h, {g}), g.kind = "kcChanged", g.p = h.p, g.pc = "start", g.ox = h.ox, g.seen = h.seen
      PROVE  Separate' /\ OthersKept(h.p)
  <2>1. \A x \in {g} : x.p = h.p /\ KindOK(x) /\ OwnHandler(x)
    BY <1>3, <1>6, ToldOwn DEF Ending
  <2> QED
    BY <1>2, <1>3, <1>6, <2>1, SeparateRead DEF OxSame, table
<1> QED
  BY <1>2, <1>4, <1>5, <1>6 DEF WithRow, Stays, Moves

LEMMA MarkFailedDoes ==
    ASSUME NEW h, HandlerOK(h), MarkFailed(h)
    PROVE  /\ h.kind \in {"create", "change", "changeDisabled"} /\ h.pc = "failed" /\ Become(h, {})
           /\ UNCHANGED <<db, serving, ox, oxGroups, kc, twice>>
           /\ \E row : /\ row = [h.row EXCEPT !.status = "FAILED"]
                       /\ UNCHANGED table \/ (~Violates(row) /\ Write(row))
BY DEF MarkFailed, HandlerOK, PcOK, Outside, OxData, End

LEMMA MarkFailedOwn ==
    ASSUME EmailAssumption, EmailTypeInv, EmailTypeInv', Separate, NEW h \in Running, MarkFailed(h)
    PROVE  Separate' /\ OthersKept(h.p)
<1>1. HandlerOK(h) /\ h.p \in Persons /\ OwnHandler(h) /\ KindOK(h)
  BY SeparateFacts
<1>2. PICK row : /\ row = [h.row EXCEPT !.status = "FAILED"]
                 /\ UNCHANGED table \/ (~Violates(row) /\ Write(row))
  BY <1>1, MarkFailedDoes
<1>3. /\ h.kind \in {"create", "change", "changeDisabled"} /\ h.pc = "failed" /\ Become(h, {}) /\ UNCHANGED <<db, ox, kc>>
      /\ WithRow(h)
  BY <1>1, MarkFailedDoes DEF WithRow
<1>4. OwnRow(row, h.p)
  <2>1. h.row \in Row /\ OwnRow(h.row, h.p)
    BY <1>1, <1>3 DEF HandlerOK, RowOK, OwnHandler
  <2>2. row.id = h.row.id /\ row.owner = h.row.owner /\ row.ox = h.row.ox
    BY <1>2, <2>1 DEF Row
  <2> QED
    BY <2>1, <2>2 DEF OwnRow
<1> QED
  BY <1>2, <1>3, <1>4, SeparateWrite

\* The groups are left: what has been done, and what comes next.
LEMMA RemoveMemberDoes ==
    ASSUME EmailTypeInv, failures' = 0, NEW h, HandlerOK(h), RemoveMember(h)
    PROVE  /\ h.kind \in {"oxUpdated", "oxDisabled", "oxDeleted"} /\ h.pc = "leave" /\ OxSame
           /\ \A n \in DOMAIN ox : ox'[n].groups \subseteq ox[n].groups
           /\ UNCHANGED <<db, serving, table, oxGroups, kc, twice>>
           /\ \/ Become(h, {})
              \/ \E g : /\ Become(h, {g}) /\ g.kind = h.kind /\ g.p = h.p /\ g.ox = h.ox /\ g.mail = h.mail /\ g.seen = h.seen
                        /\ g.pc = "leave" \/ (g.pc = "free" /\ h.kind = "oxDeleted")
<1>1. /\ h.kind \in {"oxUpdated", "oxDisabled", "oxDeleted"} /\ h.pc = "leave"
      /\ UNCHANGED <<db, serving, table, oxGroups, kc, twice>>
  BY DEF RemoveMember, Outside, HandlerOK, PcOK
<1>2. PICK s \in h.todo :
           LET left == h.todo \ {s}
               done == [ox EXCEPT ![h.ox].groups = @ \ {s}]
               next == CASE left # {} -> {[h EXCEPT !.todo = left]}
                         [] left = {} /\ h.kind = "oxDeleted" -> {[h EXCEPT !.todo = {}, !.pc = "free"]}
                         [] OTHER -> {}
           IN  \/ /\ h.kind = "oxUpdated" /\ s \notin oxGroups
                  /\ End(h) /\ UNCHANGED ox /\ Fine
               \/ /\ h.kind # "oxUpdated" \/ s \in oxGroups
                  /\ Become(h, next)
                  /\ \/ ox' = done /\ Fine
                     \/ ox' \in {ox, done} /\ Trouble
  BY Zenon DEF RemoveMember
<1>3. PICK groups, left : groups = ox[h.ox].groups \ {s} /\ left = h.todo \ {s}
  OBVIOUS
<1>4. PICK g : g = [h EXCEPT !.todo = left]
  OBVIOUS
<1>5. PICK f : f = [h EXCEPT !.todo = {}, !.pc = "free"]
  OBVIOUS
<1>6. ox' = ox \/ ox' = [ox EXCEPT ![h.ox].groups = groups]
  BY <1>2, <1>3, NoTrouble
<1>7. Become(h, {}) \/ Become(h, {g}) \/ (h.kind = "oxDeleted" /\ Become(h, {f}))
  BY <1>2, <1>3, <1>4, <1>5 DEF End
<1>8. OxSame /\ \A n \in DOMAIN ox : ox'[n].groups \subseteq ox[n].groups
  <2>1. CASE ox' = ox
    BY <2>1 DEF OxSame
  <2>2. CASE ox' = [ox EXCEPT ![h.ox].groups = groups]
    <3>1. OxSame /\ \A i \in DOMAIN ox : ox'[i].groups = IF i = h.ox THEN groups ELSE ox[i].groups
      BY <2>2, GroupsOnly DEF EmailTypeInv
    <3> QED
      BY <3>1, <1>3
  <2> QED
    BY <2>1, <2>2, <1>6
<1>9. /\ g.kind = h.kind /\ g.p = h.p /\ g.ox = h.ox /\ g.mail = h.mail /\ g.seen = h.seen /\ g.pc = "leave"
      /\ f.kind = h.kind /\ f.p = h.p /\ f.ox = h.ox /\ f.mail = h.mail /\ f.seen = h.seen /\ f.pc = "free"
  BY <1>1, <1>4, <1>5 DEF HandlerOK, Fields
<1>10. \/ Become(h, {})
       \/ \E x : /\ Become(h, {x}) /\ x.kind = h.kind /\ x.p = h.p /\ x.ox = h.ox /\ x.mail = h.mail /\ x.seen = h.seen
                 /\ x.pc = "leave" \/ (x.pc = "free" /\ h.kind = "oxDeleted")
  BY <1>7, <1>9
<1> QED
  BY <1>1, <1>8, <1>10

LEMMA LeaveDoes ==
    ASSUME EmailTypeInv, failures' = 0, NEW h, HandlerOK(h), LeaveRemoved(h) \/ LeaveDisabled(h)
    PROVE  /\ h.kind \in {"oxUpdated", "oxDisabled"} /\ h.pc = "start"
           /\ UNCHANGED <<db, serving, table, ox, oxGroups, kc, twice>>
           /\ \/ Become(h, {})
              \/ \E ids \in Collections(h) : \E g :
                    /\ ~db[h.p].gone /\ Become(h, {g}) /\ g.kind = h.kind /\ g.p = h.p /\ g.ox = OxUserId(h, ids)
                    /\ g.mail = h.mail /\ g.seen = h.seen /\ g.pc = "leave"
<1>1. h.kind \in {"oxUpdated", "oxDisabled"} /\ h.pc = "start"
      /\ UNCHANGED <<db, serving, table, ox, oxGroups, kc, twice>>
  BY DEF LeaveRemoved, LeaveDisabled, Outside, OxData
<1>2. CASE LeaveRemoved(h)
  <2>1. PICK ids \in Collections(h) :
           IF db[h.p].gone \/ OxUserId(h, ids) = 0 \/ h.removed = {} THEN Become(h, {})
           ELSE Become(h, {[h EXCEPT !.pc = "leave", !.ox = OxUserId(h, ids), !.removed = {},
                                     !.todo = {k.school : k \in h.removed}]})
    BY <1>2, Zenon DEF LeaveRemoved, End
  <2>2. PICK g : g = [h EXCEPT !.pc = "leave", !.ox = OxUserId(h, ids), !.removed = {},
                                     !.todo = {k.school : k \in h.removed}]
    OBVIOUS
  <2>3. g.kind = h.kind /\ g.p = h.p /\ g.ox = OxUserId(h, ids) /\ g.mail = h.mail /\ g.seen = h.seen /\ g.pc = "leave"
    BY <2>2 DEF HandlerOK, Fields
  <2>4. Become(h, {}) \/ (~db[h.p].gone /\ Become(h, {g}))
    BY <2>1, <2>2
  <2> QED
    BY <1>1, <2>3, <2>4
<1>3. CASE LeaveDisabled(h)
  <2>1. PICK ids \in Collections(h) :
           IF db[h.p].gone \/ OxUserId(h, ids) = 0 THEN Become(h, {})
           ELSE LeaveAll(h, OxUserId(h, ids), {})
    BY <1>3, Zenon DEF LeaveDisabled, End
  <2>2. CASE Become(h, {})
    BY <1>1, <2>2
  <2>3. CASE ~db[h.p].gone /\ LeaveAll(h, OxUserId(h, ids), {})
    <3>1. PICK user : user = OxUserId(h, ids)
      OBVIOUS
    <3>2. PICK g : g = [h EXCEPT !.pc = "leave", !.ox = user, !.todo = ox[user].groups]
      OBVIOUS
    <3>3. g.kind = h.kind /\ g.p = h.p /\ g.ox = user /\ g.mail = h.mail /\ g.seen = h.seen /\ g.pc = "leave"
      BY <3>2 DEF HandlerOK, Fields
    <3>4. Become(h, {}) \/ Become(h, {g})
      BY <2>3, <3>1, <3>2, NoTrouble DEF LeaveAll
    <3> QED
      BY <1>1, <2>3, <3>1, <3>3, <3>4
  <2> QED
    BY <2>1, <2>2, <2>3
<1> QED
  BY <1>2, <1>3

LEMMA LeaveDeletedDoes ==
    ASSUME EmailTypeInv, failures' = 0, NEW h, HandlerOK(h), LeaveDeleted(h)
    PROVE  /\ h.kind = "oxDeleted" /\ h.pc = "start"
           /\ UNCHANGED <<db, serving, table, ox, oxGroups, kc, twice>>
           /\ \/ Become(h, {})
              \/ \E i \in DOMAIN emails : \E g :
                    /\ emails[i].address = h.mail /\ emails[i].owner # Nobody
                    /\ Become(h, {g}) /\ g.kind = h.kind /\ g.p = h.p /\ g.ox = emails[i].ox
                    /\ g.mail = h.mail /\ g.seen = h.seen /\ g.pc \in {"leave", "free"}
<1>1. h.kind = "oxDeleted" /\ h.pc = "start" /\ UNCHANGED <<db, serving, table, ox, oxGroups, kc, twice>>
  BY DEF LeaveDeleted, Outside, OxData
<1>2. \/ Become(h, {})
      \/ \E i \in DOMAIN emails : /\ emails[i].address = h.mail /\ emails[i].owner # Nobody
                                  /\ LeaveAll(h, emails[i].ox, {[h EXCEPT !.pc = "free", !.ox = emails[i].ox]})
  BY DEF LeaveDeleted, End
<1>3. ASSUME NEW i \in DOMAIN emails, LeaveAll(h, emails[i].ox, {[h EXCEPT !.pc = "free", !.ox = emails[i].ox]})
      PROVE  \E g : /\ Become(h, {g}) /\ g.kind = h.kind /\ g.p = h.p /\ g.ox = emails[i].ox
                    /\ g.mail = h.mail /\ g.seen = h.seen /\ g.pc \in {"leave", "free"}
  <2>1. PICK user : user = emails[i].ox
    OBVIOUS
  <2>2. PICK g : g = [h EXCEPT !.pc = "free", !.ox = user]
    OBVIOUS
  <2>3. PICK f : f = [h EXCEPT !.pc = "leave", !.ox = user, !.todo = ox[user].groups]
    OBVIOUS
  <2>4. /\ g.kind = h.kind /\ g.p = h.p /\ g.ox = user /\ g.mail = h.mail /\ g.seen = h.seen /\ g.pc = "free"
        /\ f.kind = h.kind /\ f.p = h.p /\ f.ox = user /\ f.mail = h.mail /\ f.seen = h.seen /\ f.pc = "leave"
    BY <2>2, <2>3 DEF HandlerOK, Fields
  <2>5. Become(h, {f}) \/ Become(h, {g})
    BY <1>3, <2>1, <2>2, <2>3, NoTrouble DEF LeaveAll
  <2> QED
    BY <2>1, <2>4, <2>5
<1> QED
  BY <1>1, <1>2, <1>3

\* The steps of leaving groups.
LEMMA LeavesOwn ==
    ASSUME EmailAssumption, EmailTypeInv, EmailTypeInv', Separate, failures' = 0, NEW h \in Running,
           RemoveMember(h) \/ LeaveRemoved(h) \/ LeaveDisabled(h) \/ LeaveDeleted(h)
    PROVE  Separate' /\ OthersKept(h.p)
<1>1. HandlerOK(h) /\ h.p \in Persons /\ OwnHandler(h) /\ KindOK(h) /\ h.p # Nobody
  BY SeparateFacts
<1>2. /\ h.kind \in {"oxUpdated", "oxDisabled", "oxDeleted"} /\ UNCHANGED <<db, table, kc>> /\ OxSame
      /\ \/ Become(h, {})
         \/ \E g : /\ Become(h, {g}) /\ g.kind = h.kind /\ g.p = h.p /\ g.mail = h.mail /\ g.seen = h.seen
                   /\ g.pc \in {"leave", "free"}
                   /\ \/ g.ox = h.ox
                      \/ ~db[h.p].gone /\ \E ids \in Collections(h) : g.ox = OxUserId(h, ids)
                      \/ \E i \in DOMAIN emails : emails[i].address = h.mail /\ emails[i].owner # Nobody
                                                  /\ g.ox = emails[i].ox /\ h.kind = "oxDeleted"
  <2>1. CASE RemoveMember(h)
    BY <1>1, <2>1, RemoveMemberDoes
  <2>2. CASE LeaveRemoved(h) \/ LeaveDisabled(h)
    BY <1>1, <2>2, LeaveDoes DEF OxSame
  <2>3. CASE LeaveDeleted(h)
    BY <1>1, <2>3, LeaveDeletedDoes DEF OxSame
  <2> QED
    BY <2>1, <2>2, <2>3
<1>3. KcEffect /\ LeavingKind(h) /\ h.kind # "deleteRow"
  BY <1>1, <1>2 DEF KcEffect, LeavingKind, Ending
<1>4. CASE Become(h, {})
  BY <1>2, <1>3, <1>4, EndsOwn DEF table
<1>5. ASSUME NEW g, Become(h, {g}), g.kind = h.kind, g.p = h.p, g.mail = h.mail, g.seen = h.seen, g.pc \in {"leave", "free"},
             g.ox = h.ox \/ Belongs(g.ox, h.p)
      PROVE  Separate' /\ OthersKept(h.p)
  <2>1. ~WithRow(g)
    BY <1>2, <1>5 DEF WithRow
  <2> QED
    BY <1>2, <1>3, <1>5, <2>1, ReadsOwn DEF table
<1>6. ASSUME NEW i \in DOMAIN emails, emails[i].address = h.mail, emails[i].owner # Nobody, h.kind = "oxDeleted"
      PROVE  Belongs(emails[i].ox, h.p)
  BY <1>1, <1>6 DEF OwnHandler, Separate
<1> QED
  BY <1>2, <1>4, <1>5, <1>6, FoundUserIs

LEMMA FreeUsernameOwn ==
    ASSUME EmailAssumption, EmailTypeInv, EmailTypeInv', Separate, NEW h \in Running, FreeUsername(h)
    PROVE  Separate' /\ OthersKept(h.p)
<1>1. HandlerOK(h) /\ h.p \in Persons /\ OwnHandler(h) /\ KindOK(h)
  BY SeparateFacts
<1>2. /\ h.kind = "oxDeleted" /\ Become(h, {}) /\ UNCHANGED <<db, emails, updated, kc>>
      /\ ox' = ox \/ ox' = [ox EXCEPT ![h.ox].username = Freed]
  BY <1>1 DEF FreeUsername, Outside, End, HandlerOK, PcOK, table
<1>3. kc[h.p] = -1 /\ Belongs(h.ox, h.p)
  BY <1>1, <1>2 DEF KindOK, Ending, OwnHandler
<1>4. OxEffect(h.p)
  <2>1. CASE ox' = ox
    BY <2>1 DEF OxEffect
  <2>2. CASE ox' = [ox EXCEPT ![h.ox].username = Freed]
    <3>1. DOMAIN ox' = DOMAIN ox /\ \A n \in DOMAIN ox : n # h.ox => ox'[n] = ox[n]
      BY <2>2
    <3>2. h.ox \in DOMAIN ox => ox'[h.ox].username = Freed
      <4> SUFFICES ASSUME h.ox \in DOMAIN ox PROVE ox'[h.ox].username = Freed
        OBVIOUS
      <4>1. ox[h.ox] \in OxUser
        BY DEF EmailTypeInv, OxOK
      <4> QED
        BY <4>1, <2>2 DEF OxUser
    <3>3. h.ox \in DOMAIN ox => Mine(ox'[h.ox].username, h.p)
      BY <3>2, <1>3 DEF Mine, Freed
    <3> QED
      BY <3>1, <3>3, <1>3 DEF OxEffect
  <2> QED
    BY <2>1, <2>2, <1>2
<1>5. RowsEffect(h.p) /\ KcEffect
  BY <1>2 DEF RowsEffect, KcEffect
<1> QED
  BY <1>2, <1>4, <1>5, SeparateKept

LEMMA AttributesDoes ==
    ASSUME EmailTypeInv, failures' = 0, NEW h, HandlerOK(h), h.p \in Persons, UpdateAttributes(h) \/ RemoveAttributes(h)
    PROVE  /\ h.kind \in {"kcChanged", "kcDisabled"} /\ h.pc = "start"
           /\ UNCHANGED <<db, serving, table, ox, oxGroups, twice>> /\ KcEffect
           /\ \/ /\ h.kind = "kcChanged"
                 /\ \E g : /\ Become(h, {g}) /\ g.kind = "metadata" /\ g.p = h.p /\ g.pc = "start" /\ g.user = h.user
                           /\ g.ox = h.ox /\ g.mail = h.mail /\ g.seen = h.seen /\ g.after = "" /\ g.todo = {}
              \/ /\ h.kind = "kcDisabled" \/ ~KnownInKeycloak(h)
                 /\ Become(h, {})
<1>1. /\ h.kind \in {"kcChanged", "kcDisabled"} /\ h.pc = "start"
      /\ UNCHANGED <<db, serving, table, ox, oxGroups, twice>>
  BY DEF UpdateAttributes, RemoveAttributes, Outside, OxData, HandlerOK, PcOK
<1>2. \/ /\ h.kind = "kcChanged" /\ KnownInKeycloak(h) /\ kc' = [kc EXCEPT ![h.p] = h.user] /\ Become(h, {Sub(h, "metadata")})
      \/ /\ h.kind = "kcDisabled" \/ ~KnownInKeycloak(h)
         /\ Become(h, {})
         /\ kc' = kc \/ (kc' = [kc EXCEPT ![h.p] = 0] /\ KnownInKeycloak(h))
  BY NoTrouble DEF UpdateAttributes, RemoveAttributes, End
<1>3. KcEffect
  <2>1. h.user \in Nat /\ kc \in [Persons -> Int]
    BY DEF HandlerOK, EmailTypeInv, DbOK
  <2> QED
    BY <1>2, <2>1 DEF KcEffect, KnownInKeycloak
<1>4. PICK g : g = Sub(h, "metadata")
  OBVIOUS
<1>5. /\ g.kind = "metadata" /\ g.p = h.p /\ g.pc = "start" /\ g.user = h.user
      /\ g.ox = h.ox /\ g.mail = h.mail /\ g.seen = h.seen /\ g.after = "" /\ g.todo = {}
  BY <1>4 DEF Sub, Handler
<1>6. \/ h.kind = "kcChanged" /\ Become(h, {g})
      \/ /\ h.kind = "kcDisabled" \/ ~KnownInKeycloak(h)
         /\ Become(h, {})
  BY <1>2, <1>4
<1> QED
  BY <1>1, <1>3, <1>5, <1>6

LEMMA AttributesOwn ==
    ASSUME EmailAssumption, EmailTypeInv, EmailTypeInv', Separate, failures' = 0, NEW h \in Running,
           UpdateAttributes(h) \/ RemoveAttributes(h)
    PROVE  Separate' /\ OthersKept(h.p)
<1>1. HandlerOK(h) /\ h.p \in Persons /\ OwnHandler(h) /\ KindOK(h)
  BY SeparateFacts
<1>2. /\ h.kind \in {"kcChanged", "kcDisabled"} /\ h.kind # "deleteRow" /\ UNCHANGED <<db, table>> /\ ox' = ox /\ KcEffect
  BY <1>1, AttributesDoes
<1>3. CASE Become(h, {})
  BY <1>2, <1>3, EndsOwn
<1>4. ASSUME h.kind = "kcChanged", NEW g, Become(h, {g}), g.kind = "metadata", g.p = h.p, g.pc = "start", g.ox = h.ox,
             g.seen = h.seen
      PROVE  Separate' /\ OthersKept(h.p)
  <2>1. kc[h.p] # -1
    BY <1>1, <1>4 DEF KindOK, LeavingKind, Ending
  <2>2. \A x \in {g} : x.p = h.p /\ KindOK(x) /\ OwnHandler(x)
    BY <1>4, <2>1, ToldOwn DEF Ending
  <2> QED
    BY <1>2, <1>4, <2>2, SeparateRead DEF OxSame
<1> QED
  BY <1>1, <1>3, <1>4, AttributesDoes

\* The end of a person's row.
LEMMA DeleteRowDoes ==
    ASSUME EmailTypeInv, NEW h, HandlerOK(h), h.p \in Persons, DeleteRow(h)
    PROVE  /\ h.kind = "deleteRow" /\ Become(h, {}) /\ UNCHANGED <<serving, updated, ox, oxGroups, kc, twice>>
           /\ db'[h.p].gone /\ db'[h.p].kontexte = {} /\ db'[h.p].name = db[h.p].name
           /\ \A q \in Persons : q # h.p => db'[q] = db[q]
           /\ DOMAIN emails' = DOMAIN emails
           /\ \A i \in DOMAIN emails :
                 /\ emails'[i].address = emails[i].address /\ emails'[i].ox = emails[i].ox
                 /\ emails'[i].status = emails[i].status
                 /\ emails[i].owner # h.p => emails'[i] = emails[i]
                 /\ emails[i].owner = h.p => emails'[i].owner = Nobody
<1>1. h.kind = "deleteRow" /\ Become(h, {}) /\ UNCHANGED <<serving, updated, ox, oxGroups, kc, twice>>
  BY DEF DeleteRow, OxData, End
<1>2. /\ db'[h.p].gone /\ db'[h.p].kontexte = {} /\ db'[h.p].name = db[h.p].name
      /\ \A q \in Persons : q # h.p => db'[q] = db[q]
  <2>1. db' = [db EXCEPT ![h.p].gone = TRUE, ![h.p].kontexte = {}]
    BY DEF DeleteRow
  <2>2. db \in [Persons -> [name : Nat \ {0}, kontexte : SUBSET Kontexte, gone : BOOLEAN]]
    BY DEF EmailTypeInv, DbOK
  <2> QED
    BY <2>1, <2>2
<1>3. /\ DOMAIN emails' = DOMAIN emails
      /\ \A i \in DOMAIN emails :
            emails'[i] = IF emails[i].owner = h.p THEN [emails[i] EXCEPT !.owner = Nobody] ELSE emails[i]
  BY DEF DeleteRow
<1>4. \A i \in DOMAIN emails : emails[i] \in Row
  BY DEF EmailTypeInv, EmailsOK
<1>5. \A i \in DOMAIN emails :
         /\ emails'[i].address = emails[i].address /\ emails'[i].ox = emails[i].ox
         /\ emails'[i].status = emails[i].status
         /\ emails[i].owner # h.p => emails'[i] = emails[i]
         /\ emails[i].owner = h.p => emails'[i].owner = Nobody
  BY <1>3, <1>4 DEF Row
<1> QED
  BY <1>1, <1>2, <1>3, <1>5

LEMMA DeleteRowOwn ==
    ASSUME EmailAssumption, EmailTypeInv, EmailTypeInv', Separate, NEW h \in Running, DeleteRow(h)
    PROVE  Separate' /\ OthersKept(h.p)
<1>1. HandlerOK(h) /\ h.p \in Persons /\ h.p # Nobody /\ KindOK(h)
  BY SeparateFacts
<1> DEFINE p == h.p
<1>2. /\ h.kind = "deleteRow" /\ Become(h, {}) /\ UNCHANGED <<ox, kc>> /\ kc[p] = -1
      /\ db'[p].gone /\ db'[p].kontexte = {}
      /\ \A q \in Persons : q # p => db'[q] = db[q]
      /\ DOMAIN emails' = DOMAIN emails
      /\ \A i \in DOMAIN emails : /\ emails'[i].address = emails[i].address /\ emails'[i].ox = emails[i].ox
                                  /\ emails'[i].status = emails[i].status
                                  /\ emails[i].owner # p => emails'[i] = emails[i]
                                  /\ emails[i].owner = p => emails'[i].owner = Nobody
  BY <1>1, DeleteRowDoes DEF KindOK, Ending
<1>3. Running' \subseteq Running
  <2>1. IsABag(handlers) /\ h \in BagToSet(handlers)
    BY DEF EmailTypeInv, HandlersOK, Running
  <2> QED
    BY <2>1, <1>2, BagChanged DEF Running
<1>4. RowsOf(p)' = {} /\ \A q \in Persons : q # p => RowsOf(q)' = RowsOf(q) /\ \A i \in RowsOf(q) : emails'[i] = emails[i]
  <2>1. \A q \in Persons : q # Nobody
    BY DEF EmailAssumption
  <2>2. \A i \in DOMAIN emails : emails'[i].owner # p
    BY <1>1, <1>2
  <2>3. \A q \in Persons, i \in DOMAIN emails : q # p => (emails'[i].owner = q <=> emails[i].owner = q)
    BY <2>1, <1>2
  <2>4. \A q \in Persons, i \in DOMAIN emails : q # p /\ emails[i].owner = q => emails'[i] = emails[i]
    BY <1>2
  <2> QED
    BY <2>2, <2>3, <2>4, <1>2 DEF RowsOf
<1>5. OthersKept(p)
  <2>1. \A g \in Running' : g.p = p
    BY <1>3 DEF Separate
  <2>2. \A i \in DOMAIN emails : emails'[i].owner = Nobody => emails[i].owner \in {p, Nobody}
    BY <1>2
  <2> QED
    BY <2>1, <2>2, <1>2, <1>4 DEF OthersKept, KeptFor, Users, Used
<1>6. ASSUME NEW q \in Persons PROVE Ended(q)'
  <2>1. CASE q = p
    BY <2>1, <1>2, <1>4 DEF Ended
  <2>2. CASE q # p
    <3>1. ~\E g \in Running : g.kind = "deleteRow" /\ g.p = q
      BY <2>2 DEF Separate
    <3> QED
      BY <2>2, <3>1, <1>2, <1>4 DEF Ended, Separate
  <2> QED
    BY <2>1, <2>2
<1>7. \A n, q : Belongs(n, q)' <=> Belongs(n, q)
  BY <1>2 DEF Belongs, Mine
<1>8. ASSUME NEW i \in DOMAIN emails', emails'[i].owner # Nobody PROVE Belongs(emails[i].ox, emails[i].owner)'
  BY <1>2, <1>7, <1>8 DEF Separate
<1>9. ASSUME NEW g \in Running' PROVE g.p = p /\ OwnHandler(g)' /\ KindOK(g)'
  <2>1. g.p = p /\ OwnHandler(g) /\ KindOK(g)
    BY <1>3 DEF Separate
  <2>2. \A r : OwnRow(r, p) => OwnRow(r, p)'
    BY <1>2, <1>7 DEF OwnRow
  <2>3. OwnHandler(g)'
    BY <2>1, <2>2, <1>2, <1>7 DEF OwnHandler, WithRow
  <2>4. KindOK(g)'
    BY <2>1, <1>2 DEF KindOK, LeavingKind
  <2> QED
    BY <2>1, <2>3, <2>4
<1> QED
  BY <1>5, <1>6, <1>8, <1>9 DEF Separate

\* What an event from outside begins with.
LEMMA BeginsOwn ==
    ASSUME EmailAssumption, EmailTypeInv, EmailTypeInv', Separate, overlaps' = 0, NEW next, PublishAll(next),
           \A q \in Persons :
              /\ db'[q].gone = db[q].gone /\ (db[q].gone => db'[q].kontexte = {})
              /\ kc[q] = -1 => kc'[q] = -1
              /\ kc'[q] = -1 => kc[q] = -1 \/ \E h \in next : h.kind = "deleteRow" /\ h.p = q,
           \A g \in next : OwnHandler(g)' /\ KindOK(g)'
    PROVE  Separate' /\ Quiet /\ Running' = next /\ \A g, h \in next : g.p = h.p
<1>1. Quiet /\ (\A g, h \in next : g.p = h.p) /\ UNCHANGED <<emails, updated, ox, oxGroups>>
      /\ handlers' = handlers (+) SetToBag(next)
  <2>1. overlaps \in Nat
    BY DEF EmailTypeInv, CountsOK
  <2> QED
    BY <2>1 DEF PublishAll, table, OxData
<1>2. Running = {} /\ Running' = next
  <2>1. IsABag(handlers)
    BY DEF EmailTypeInv, HandlersOK
  <2>2. BagToSet(handlers') = BagToSet(handlers) \cup next
    BY <1>1, <2>1, BagBegun
  <2> QED
    BY <1>1, <2>2, NobodyQuiet DEF Running, Quiet
<1>3. ASSUME NEW q \in Persons PROVE Ended(q)'
  <2>1. RowsOf(q)' = RowsOf(q)
    BY <1>1 DEF RowsOf
  <2>2. kc[q] = -1 => db[q].gone
    BY <1>2 DEF Separate, Ended
  <2>3. db'[q].gone => kc'[q] = -1 /\ db'[q].kontexte = {} /\ RowsOf(q)' = {}
    BY <2>1 DEF Separate, Ended
  <2>4. kc'[q] = -1 => db'[q].gone \/ \E h \in Running' : h.kind = "deleteRow" /\ h.p = q
    BY <2>2, <1>2
  <2> QED
    BY <2>3, <2>4 DEF Ended
<1>4. ASSUME NEW i \in DOMAIN emails', emails'[i].owner # Nobody PROVE Belongs(emails[i].ox, emails[i].owner)'
  <2>1. Belongs(emails[i].ox, emails[i].owner) /\ emails[i].owner \in Persons
    BY <1>1, <1>4, OwnerTyped DEF Separate
  <2> QED
    BY <2>1, <1>1 DEF Belongs, Mine
<1> QED
  BY <1>1, <1>2, <1>3, <1>4 DEF Separate

\* A handler that an event from outside starts.
LEMMA FreshOwn ==
    ASSUME EmailTypeInv, NEW p \in Persons, UNCHANGED <<emails, ox>>, NEW g, g.p = p, g.pc = "start", g.ox = 0,
           g.seen = Loaded(p), g.kind \in {"person", "renamed", "oxUpdated", "deleteRow", "deleted", "oxDeleted"},
           g.kind \in {"deleted", "oxDeleted"} => \E i \in RowsOf(p) : g.mail = emails[i].address
    PROVE  OwnHandler(g)'
<1>1. 0 \notin DOMAIN ox
  BY DEF EmailTypeInv, OxOK
<1>2. Belongs(g.ox, g.p)'
  BY <1>1 DEF Belongs
<1>3. DOMAIN g.seen \subseteq RowsOf(g.p)'
  BY DEF Loaded, RowsOf
<1>4. ~WithRow(g)
  BY DEF WithRow
<1>5. ASSUME g.kind \in {"deleted", "oxDeleted"}, NEW i \in DOMAIN emails, emails[i].address = g.mail
      PROVE  emails[i].owner = p
  <2>1. PICK j \in RowsOf(p) : g.mail = emails[j].address
    BY <1>5
  <2>2. j \in DOMAIN emails /\ emails[j].owner = p
    BY DEF RowsOf
  <2>3. i = j
    BY <1>5, <2>1, <2>2 DEF EmailTypeInv, EmailsOK
  <2> QED
    BY <2>2, <2>3
<1> QED
  BY <1>2, <1>3, <1>4, <1>5 DEF OwnHandler, WithRow

LEMMA UpdateDoes ==
    ASSUME EmailTypeInv, NEW p \in Persons, NEW kontexte \in SUBSET Kontexte, Update(p, kontexte)
    PROVE  /\ UNCHANGED <<serving, table, ox, oxGroups, kc, twice>>
           /\ db'[p].kontexte = kontexte /\ db'[p].gone = db[p].gone /\ db'[p].name = db[p].name
           /\ \A q \in Persons : q # p => db'[q] = db[q]
           /\ \E g, u : /\ PublishAll({g, u})
                        /\ g.kind = "person" /\ g.p = p /\ g.pc = "start" /\ g.removed = {} /\ g.ox = 0 /\ g.seen = Loaded(p)
                        /\ u.kind = "oxUpdated" /\ u.p = p /\ u.pc = "start" /\ u.ox = 0 /\ u.seen = Loaded(p)
<1>1. UNCHANGED <<serving, table, ox, oxGroups, kc, twice>>
  BY DEF Update, PublishAll, OxData
<1>2. /\ db'[p].kontexte = kontexte /\ db'[p].gone = db[p].gone /\ db'[p].name = db[p].name
      /\ \A q \in Persons : q # p => db'[q] = db[q]
  <2>1. db' = [db EXCEPT ![p].kontexte = kontexte]
    BY DEF Update
  <2>2. db \in [Persons -> [name : Nat \ {0}, kontexte : SUBSET Kontexte, gone : BOOLEAN]]
    BY DEF EmailTypeInv, DbOK
  <2> QED
    BY <2>1, <2>2
<1>3. PICK g : g = Handler("person", p)
  OBVIOUS
<1>4. g.kind = "person" /\ g.p = p /\ g.pc = "start" /\ g.removed = {} /\ g.ox = 0 /\ g.seen = Loaded(p)
  BY <1>3 DEF Handler
<1>5. PICK u : u = [Handler("oxUpdated", p) EXCEPT !.removed = db[p].kontexte \ kontexte]
  OBVIOUS
<1>6. u.kind = "oxUpdated" /\ u.p = p /\ u.pc = "start" /\ u.ox = 0 /\ u.seen = Loaded(p)
  BY <1>5 DEF Handler
<1>7. PublishAll({g, u})
  BY <1>3, <1>5 DEF Update
<1> QED
  BY <1>1, <1>2, <1>4, <1>6, <1>7

LEMMA UpdateOwn ==
    ASSUME EmailAssumption, EmailTypeInv, EmailTypeInv', Separate, overlaps' = 0, NEW p \in Persons, kc[p] # -1,
           NEW kontexte \in SUBSET Kontexte, Update(p, kontexte)
    PROVE  Separate' /\ OthersKept(p)
<1>1. /\ UNCHANGED <<emails, updated, ox, kc>> /\ db'[p].gone = db[p].gone
      /\ \A q \in Persons : q # p => db'[q] = db[q]
  BY UpdateDoes DEF table
<1>2. PICK g, u : /\ PublishAll({g, u})
                  /\ g.kind = "person" /\ g.p = p /\ g.pc = "start" /\ g.removed = {} /\ g.ox = 0 /\ g.seen = Loaded(p)
                  /\ u.kind = "oxUpdated" /\ u.p = p /\ u.pc = "start" /\ u.ox = 0 /\ u.seen = Loaded(p)
  BY UpdateDoes
<1>3. ~db[p].gone
  BY DEF Separate, Ended
<1>4. OwnHandler(g)' /\ OwnHandler(u)'
  BY <1>1, <1>2, FreshOwn
<1>5. KindOK(g)' /\ KindOK(u)'
  BY <1>1, <1>2 DEF KindOK, Ending
<1>6. \A q \in Persons :
         /\ db'[q].gone = db[q].gone /\ (db[q].gone => db'[q].kontexte = {})
         /\ kc[q] = -1 => kc'[q] = -1
         /\ kc'[q] = -1 => kc[q] = -1 \/ \E h \in {g, u} : h.kind = "deleteRow" /\ h.p = q
  BY <1>1, <1>3 DEF Separate, Ended
<1>7. PICK next : next = {g, u}
  OBVIOUS
<1>8. Separate' /\ Running' = next
  <2>1. /\ PublishAll(next) /\ \A h \in next : OwnHandler(h)' /\ KindOK(h)'
        /\ \A q \in Persons :
              /\ db'[q].gone = db[q].gone /\ (db[q].gone => db'[q].kontexte = {})
              /\ kc[q] = -1 => kc'[q] = -1
              /\ kc'[q] = -1 => kc[q] = -1 \/ \E h \in next : h.kind = "deleteRow" /\ h.p = q
    BY <1>2, <1>4, <1>5, <1>6, <1>7
  <2> QED
    BY <2>1, BeginsOwn
<1> QED
  BY <1>1, <1>2, <1>7, <1>8 DEF OthersKept, KeptFor, RowsOf, Users, Used

LEMMA RenameDoes ==
    ASSUME EmailTypeInv, NEW p \in Persons, Rename(p)
    PROVE  /\ UNCHANGED <<serving, table, ox, oxGroups, kc, twice>>
           /\ db'[p].kontexte = db[p].kontexte /\ db'[p].gone = db[p].gone /\ db'[p].name = db[p].name + 1
           /\ \A q \in Persons : q # p => db'[q] = db[q]
           /\ \E g : /\ PublishAll({g})
                     /\ g.kind = "renamed" /\ g.p = p /\ g.pc = "start" /\ g.ox = 0 /\ g.seen = Loaded(p)
<1>1. UNCHANGED <<serving, table, ox, oxGroups, kc, twice>>
  BY DEF Rename, PublishAll, OxData
<1>2. /\ db'[p].kontexte = db[p].kontexte /\ db'[p].gone = db[p].gone /\ db'[p].name = db[p].name + 1
      /\ \A q \in Persons : q # p => db'[q] = db[q]
  <2>1. db' = [db EXCEPT ![p].name = db[p].name + 1]
    BY DEF Rename
  <2>2. db \in [Persons -> [name : Nat \ {0}, kontexte : SUBSET Kontexte, gone : BOOLEAN]]
    BY DEF EmailTypeInv, DbOK
  <2> QED
    BY <2>1, <2>2
<1>3. PICK g : g = [Handler("renamed", p) EXCEPT !.user = @ + 1]
  OBVIOUS
<1>4. g.kind = "renamed" /\ g.p = p /\ g.pc = "start" /\ g.ox = 0 /\ g.seen = Loaded(p)
  BY <1>3 DEF Handler
<1>5. PublishAll({g})
  BY <1>3 DEF Rename
<1> QED
  BY <1>1, <1>2, <1>4, <1>5

LEMMA RenameOwn ==
    ASSUME EmailAssumption, EmailTypeInv, EmailTypeInv', Separate, overlaps' = 0, NEW p \in Persons, kc[p] # -1, Rename(p)
    PROVE  Separate' /\ OthersKept(p)
<1>1. /\ UNCHANGED <<emails, updated, ox, kc>> /\ db'[p].gone = db[p].gone
      /\ \A q \in Persons : q # p => db'[q] = db[q]
  BY RenameDoes DEF table
<1>2. PICK g : /\ PublishAll({g})
               /\ g.kind = "renamed" /\ g.p = p /\ g.pc = "start" /\ g.ox = 0 /\ g.seen = Loaded(p)
  BY RenameDoes
<1>3. ~db[p].gone
  BY DEF Separate, Ended
<1>4. OwnHandler(g)' /\ KindOK(g)'
  BY <1>1, <1>2, FreshOwn DEF KindOK, Ending
<1>5. PICK next : next = {g}
  OBVIOUS
<1>6. Separate' /\ Running' = next
  <2>1. /\ PublishAll(next) /\ \A h \in next : OwnHandler(h)' /\ KindOK(h)'
        /\ \A q \in Persons :
              /\ db'[q].gone = db[q].gone /\ (db[q].gone => db'[q].kontexte = {})
              /\ kc[q] = -1 => kc'[q] = -1
              /\ kc'[q] = -1 => kc[q] = -1 \/ \E h \in next : h.kind = "deleteRow" /\ h.p = q
    BY <1>1, <1>2, <1>3, <1>4, <1>5 DEF Separate, Ended
  <2> QED
    BY <2>1, BeginsOwn
<1> QED
  BY <1>1, <1>2, <1>5, <1>6 DEF OthersKept, KeptFor, RowsOf, Users, Used

\* The service providers of a Rolle have changed: the handlers are of persons
\* who have it.
LEMMA UpdateRolleDoes ==
    ASSUME NEW r, UpdateRolle(r)
    PROVE  /\ UNCHANGED <<db, table, ox, oxGroups, kc, twice>>
           /\ \A s : s # r => (s \in serving' <=> s \in serving)
           /\ \E next : /\ PublishAll(next)
                        /\ \A x \in Persons : (\E k \in db[x].kontexte : k.rolle = r) =>
                              \E g \in next : g.p = x
                        /\ \A g, h \in next : g.p = h.p => g = h
                        /\ \A g \in next : /\ g.p \in Persons /\ \E k \in db[g.p].kontexte : k.rolle = r
                                           /\ g.kind = "person" /\ g.pc = "start" /\ g.removed = {} /\ g.ox = 0
                                           /\ g.seen = Loaded(g.p)
<1>1. UNCHANGED <<db, table, ox, oxGroups, kc, twice>>
  BY DEF UpdateRolle, PublishAll, OxData
<1>2. \A s : s # r => (s \in serving' <=> s \in serving)
  BY DEF UpdateRolle
<1>3. PICK next : next = {Handler("person", p) : p \in {x \in Persons : \E k \in db[x].kontexte : k.rolle = r}}
  OBVIOUS
<1>4. PublishAll(next)
  BY <1>3 DEF UpdateRolle
<1>5. \A g \in next : /\ g.p \in Persons /\ \E k \in db[g.p].kontexte : k.rolle = r
                      /\ g.kind = "person" /\ g.pc = "start" /\ g.removed = {} /\ g.ox = 0 /\ g.seen = Loaded(g.p)
  <2> SUFFICES ASSUME NEW p \in Persons, \E k \in db[p].kontexte : k.rolle = r, NEW g, g = Handler("person", p)
               PROVE  /\ g.p \in Persons /\ \E k \in db[g.p].kontexte : k.rolle = r
                      /\ g.kind = "person" /\ g.pc = "start" /\ g.removed = {} /\ g.ox = 0 /\ g.seen = Loaded(g.p)
    BY <1>3
  <2>1. g.p = p /\ g.kind = "person" /\ g.pc = "start" /\ g.removed = {} /\ g.ox = 0 /\ g.seen = Loaded(p)
    BY DEF Handler
  <2> QED
    BY <2>1
<1>6. \A x \in Persons : (\E k \in db[x].kontexte : k.rolle = r) => \E g \in next : g.p = x
  <2> SUFFICES ASSUME NEW x \in Persons, \E k \in db[x].kontexte : k.rolle = r PROVE \E g \in next : g.p = x
    OBVIOUS
  <2>1. Handler("person", x) \in next
    BY <1>3
  <2>2. Handler("person", x).p = x
    BY DEF Handler
  <2> QED
    BY <2>1, <2>2
<1>7. \A g, h \in next : g.p = h.p => g = h
  <2>1. \A p : Handler("person", p).p = p
    BY DEF Handler
  <2> QED
    BY <1>3, <2>1
<1> QED
  BY <1>1, <1>2, <1>4, <1>5, <1>6, <1>7

LEMMA UpdateRolleOwn ==
    ASSUME EmailAssumption, EmailTypeInv, EmailTypeInv', Separate, overlaps' = 0, NEW r, UpdateRolle(r)
    PROVE  Separate' /\ \A q \in Persons : KeptFor(q)
<1>1. UNCHANGED <<db, emails, updated, ox, kc>>
  BY UpdateRolleDoes DEF table
<1>2. PICK next : /\ PublishAll(next)
                  /\ \A g \in next : /\ g.p \in Persons /\ \E k \in db[g.p].kontexte : k.rolle = r
                                     /\ g.kind = "person" /\ g.pc = "start" /\ g.removed = {} /\ g.ox = 0
                                     /\ g.seen = Loaded(g.p)
  BY UpdateRolleDoes
<1>3. Running = {}
  <2>1. overlaps \in Nat
    BY DEF EmailTypeInv, CountsOK
  <2> QED
    BY <2>1, <1>2, NobodyQuiet DEF PublishAll, Running, Quiet
<1>4. ASSUME NEW g \in next PROVE OwnHandler(g)' /\ KindOK(g)'
  <2>1. ~db[g.p].gone
    BY <1>2, <1>4 DEF Separate, Ended
  <2>2. kc[g.p] # -1
    BY <2>1, <1>2, <1>3, <1>4 DEF Separate, Ended
  <2>3. OwnHandler(g)'
    BY <1>1, <1>2, <1>4, FreshOwn
  <2> QED
    BY <2>2, <2>3, <1>1, <1>2, <1>4 DEF KindOK, Ending
<1>5. Separate'
  <2>1. \A q \in Persons :
              /\ db'[q].gone = db[q].gone /\ (db[q].gone => db'[q].kontexte = {})
              /\ kc[q] = -1 => kc'[q] = -1
              /\ kc'[q] = -1 => kc[q] = -1 \/ \E h \in next : h.kind = "deleteRow" /\ h.p = q
    BY <1>1 DEF Separate, Ended
  <2> QED
    BY <2>1, <1>2, <1>4, BeginsOwn
<1> QED
  BY <1>1, <1>5 DEF KeptFor, RowsOf, Users

\* The address that an event tells of is one of those that it was given.
LEMMA MailIs ==
    ASSUME EmailsOK, NEW h, HandlerOK(h), NEW ids, ids \subseteq DOMAIN emails, ids # {}
    PROVE  /\ \E i \in ids : MailOf(h, ids) = emails[i].address
           /\ (\E i \in ids : emails[i].status = "ENABLED") =>
                 \E i \in ids : emails[i].status = "ENABLED" /\ MailOf(h, ids) = emails[i].address
<1> DEFINE enabled == {i \in ids : emails[i].status = "ENABLED"}
<1>1. /\ enabled # {} => MailOf(h, ids) = emails[First(h, enabled)].address
      /\ enabled = {} => MailOf(h, ids) = emails[First(h, ids)].address
  BY DEF MailOf
<1>2. enabled \subseteq ids /\ \A i \in enabled : emails[i].status = "ENABLED"
  OBVIOUS
<1>3. enabled # {} <=> \E i \in ids : emails[i].status = "ENABLED"
  OBVIOUS
<1> HIDE DEF enabled
<1>4. enabled # {} => First(h, enabled) \in enabled
  BY <1>2, FirstIsMember
<1>5. First(h, ids) \in ids
  BY FirstIsMember
<1> QED
  BY <1>1, <1>2, <1>3, <1>4, <1>5

LEMMA DeletePersonDoes ==
    ASSUME EmailTypeInv, NEW p \in Persons, DeletePerson(p)
    PROVE  /\ UNCHANGED <<db, serving, table, ox, oxGroups, twice>> /\ kc'[p] = -1
           /\ \A q \in Persons : q # p => kc'[q] = kc[q]
           /\ \E next : /\ PublishAll(next) /\ \E h \in next : h.kind = "deleteRow" /\ h.p = p
                        /\ \A g \in next :
                              /\ g.p = p /\ g.pc = "start" /\ g.ox = 0 /\ g.seen = Loaded(p)
                              /\ g.kind \in {"person", "oxUpdated", "deleteRow", "deleted", "oxDeleted"}
                              /\ g.kind = "person" => g.removed = db[p].kontexte
                              /\ g.kind \in {"deleted", "oxDeleted"} => \E i \in RowsOf(p) : g.mail = emails[i].address
                        /\ Enabled(p) => \E g \in next : /\ g.kind = "deleted"
                                                         /\ \E i \in WithStatus(p, "ENABLED") : g.mail = emails[i].address
<1>1. UNCHANGED <<db, serving, table, ox, oxGroups, twice>> /\ kc' = [kc EXCEPT ![p] = -1]
  BY DEF DeletePerson, PublishAll, OxData
<1>2. kc'[p] = -1 /\ \A q \in Persons : q # p => kc'[q] = kc[q]
  BY <1>1 DEF EmailTypeInv, DbOK
<1> DEFINE S == {Handler("deleted", p), Handler("oxDeleted", p)}
           mail == [h \in S |-> [h EXCEPT !.mail = MailOf(h, RowsOf(p))]]
           told == IF RowsOf(p) = {} THEN {} ELSE Range(mail)
           removed == {[Handler(kind, p) EXCEPT !.removed = db[p].kontexte] : kind \in {"person", "oxUpdated"}}
<1>3. PublishAll(removed \cup told \cup {Handler("deleteRow", p)})
  BY DEF DeletePerson
<1>4. ASSUME NEW kind \in {"deleted", "oxDeleted"}, RowsOf(p) # {}
      PROVE  \E g \in told : /\ g = [Handler(kind, p) EXCEPT !.mail = MailOf(Handler(kind, p), RowsOf(p))]
                             /\ g.p = p /\ g.pc = "start" /\ g.ox = 0 /\ g.seen = Loaded(p) /\ g.kind = kind
                             /\ \E i \in RowsOf(p) : g.mail = emails[i].address
                             /\ Enabled(p) => \E i \in WithStatus(p, "ENABLED") : g.mail = emails[i].address
  <2>1. PICK h : h = Handler(kind, p)
    OBVIOUS
  <2>2. /\ DOMAIN h = Fields /\ h.kind = kind /\ h.p = p /\ h.pc = "start" /\ h.user = db[p].name
        /\ h.removed = {} /\ h.todo = {} /\ h.ox = 0 /\ h.mail = <<0, 0>> /\ h.seen = Loaded(p)
    BY <2>1 DEF Handler, Fields
  <2>3. HandlerOK(h)
    <3>1. db[p] \in [name : Nat \ {0}, kontexte : SUBSET Kontexte, gone : BOOLEAN] /\ <<0, 0>> \in Address
      BY DEF EmailTypeInv, DbOK, Address
    <3> QED
      BY <3>1, <2>2, HandlerTyped
  <2>4. PICK m : m = MailOf(h, RowsOf(p))
    OBVIOUS
  <2>5. PICK g : g = [h EXCEPT !.mail = m]
    OBVIOUS
  <2>6. /\ g.p = p /\ g.pc = "start" /\ g.ox = 0 /\ g.seen = Loaded(p) /\ g.kind = kind /\ g.mail = m
    BY <2>2, <2>5 DEF Fields
  <2>7. (\E i \in RowsOf(p) : m = emails[i].address)
        /\ (Enabled(p) => \E i \in WithStatus(p, "ENABLED") : m = emails[i].address)
    <3>1. EmailsOK /\ RowsOf(p) \subseteq DOMAIN emails
      BY DEF EmailTypeInv, RowsOf
    <3>2. /\ \E i \in RowsOf(p) : m = emails[i].address
          /\ (\E i \in RowsOf(p) : emails[i].status = "ENABLED") =>
                 \E i \in RowsOf(p) : emails[i].status = "ENABLED" /\ m = emails[i].address
      BY <3>1, <2>3, <2>4, <1>4, MailIs
    <3> QED
      BY <3>2 DEF Enabled, WithStatus
  <2>8. g \in told
    <3>1. h \in S /\ mail[h] = g
      BY <2>1, <2>4, <2>5
    <3> QED
      BY <3>1, <1>4 DEF Range
  <2> HIDE DEF told
  <2> QED
    BY <2>1, <2>4, <2>5, <2>6, <2>7, <2>8
<1>5. \A g \in told : RowsOf(p) # {} /\ \E kind \in {"deleted", "oxDeleted"} :
                         g = [Handler(kind, p) EXCEPT !.mail = MailOf(Handler(kind, p), RowsOf(p))]
  BY DEF Range
<1>6. \A g \in removed : /\ g.p = p /\ g.pc = "start" /\ g.ox = 0 /\ g.seen = Loaded(p)
                         /\ g.kind \in {"person", "oxUpdated"} /\ g.removed = db[p].kontexte
  BY DEF Handler
<1>7. PICK end : /\ end = Handler("deleteRow", p) /\ end.kind = "deleteRow" /\ end.p = p /\ end.pc = "start"
                 /\ end.ox = 0 /\ end.seen = Loaded(p)
  <2>1. PICK end : end = Handler("deleteRow", p)
    OBVIOUS
  <2>2. end.kind = "deleteRow" /\ end.p = p /\ end.pc = "start" /\ end.ox = 0 /\ end.seen = Loaded(p)
    BY <2>1 DEF Handler
  <2> QED
    BY <2>1, <2>2
<1> HIDE DEF told, removed
<1>8. PICK next : next = removed \cup told \cup {end}
  OBVIOUS
<1>9. PublishAll(next) /\ \E h \in next : h.kind = "deleteRow" /\ h.p = p
  BY <1>3, <1>7, <1>8
<1>10. ASSUME NEW g \in next
       PROVE  /\ g.p = p /\ g.pc = "start" /\ g.ox = 0 /\ g.seen = Loaded(p)
              /\ g.kind \in {"person", "oxUpdated", "deleteRow", "deleted", "oxDeleted"}
              /\ g.kind = "person" => g.removed = db[p].kontexte
              /\ g.kind \in {"deleted", "oxDeleted"} => \E i \in RowsOf(p) : g.mail = emails[i].address
  <2>1. CASE g \in removed
    BY <2>1, <1>6
  <2>2. CASE g = end
    BY <2>2, <1>7
  <2>3. CASE g \in told
    BY <2>3, <1>4, <1>5
  <2> QED
    BY <2>1, <2>2, <2>3, <1>8
<1>11. Enabled(p) => \E g \in next : /\ g.kind = "deleted"
                                     /\ \E i \in WithStatus(p, "ENABLED") : g.mail = emails[i].address
  <2> SUFFICES ASSUME Enabled(p) PROVE \E g \in told : /\ g.kind = "deleted"
                                     /\ \E i \in WithStatus(p, "ENABLED") : g.mail = emails[i].address
    BY <1>8
  <2>1. RowsOf(p) # {}
    BY DEF Enabled, WithStatus
  <2> QED
    BY <2>1, <1>4
<1> QED
  BY <1>1, <1>2, <1>9, <1>10, <1>11

LEMMA DeletePersonOwn ==
    ASSUME EmailAssumption, EmailTypeInv, EmailTypeInv', Separate, overlaps' = 0, NEW p \in Persons, DeletePerson(p)
    PROVE  Separate' /\ OthersKept(p)
<1>1. UNCHANGED <<db, emails, updated, ox>> /\ kc'[p] = -1 /\ \A q \in Persons : q # p => kc'[q] = kc[q]
  BY DeletePersonDoes DEF table
<1>2. PICK next : /\ PublishAll(next) /\ \E h \in next : h.kind = "deleteRow" /\ h.p = p
                  /\ \A g \in next :
                        /\ g.p = p /\ g.pc = "start" /\ g.ox = 0 /\ g.seen = Loaded(p)
                        /\ g.kind \in {"person", "oxUpdated", "deleteRow", "deleted", "oxDeleted"}
                        /\ g.kind = "person" => g.removed = db[p].kontexte
                        /\ g.kind \in {"deleted", "oxDeleted"} => \E i \in RowsOf(p) : g.mail = emails[i].address
  BY DeletePersonDoes
<1>3. ASSUME NEW g \in next PROVE OwnHandler(g)' /\ KindOK(g)'
  <2>1. OwnHandler(g)'
    BY <1>1, <1>2, <1>3, FreshOwn
  <2>2. KindOK(g)'
    BY <1>1, <1>2, <1>3 DEF KindOK, LeavingKind, Ending
  <2> QED
    BY <2>1, <2>2
<1>4. Separate' /\ Running' = next
  <2>1. \A q \in Persons :
              /\ db'[q].gone = db[q].gone /\ (db[q].gone => db'[q].kontexte = {})
              /\ kc[q] = -1 => kc'[q] = -1
              /\ kc'[q] = -1 => kc[q] = -1 \/ \E h \in next : h.kind = "deleteRow" /\ h.p = q
    BY <1>1, <1>2 DEF Separate, Ended
  <2> QED
    BY <2>1, <1>2, <1>3, BeginsOwn
<1> QED
  BY <1>1, <1>2, <1>4 DEF OthersKept, KeptFor, RowsOf, Users, Used

\* At the start everybody has but the row and the user of their own.
LEMMA InitSeparate == ASSUME EmailAssumption, EmailInit PROVE Separate
<1>1. PICK has \in [Persons -> SUBSET Kontexte] :
         LET served == {p \in Persons : ServingOf(has[p]) # {}}
             numbers == 1 .. Cardinality(served)
         IN  \E person \in Bijection(numbers, served) :
                 /\ db = [p \in Persons |-> [name |-> 1, kontexte |-> has[p], gone |-> FALSE]]
                 /\ emails = [i \in numbers |->
                        [id |-> i, address |-> <<1, i - 1>>, owner |-> person[i],
                         status |-> "ENABLED", ox |-> i]]
                 /\ updated = [i \in numbers |-> i]
                 /\ ox = [i \in numbers |->
                        [username |-> <<person[i], 1>>, primary |-> <<1, i - 1>>,
                         groups |-> {k.school : k \in ServingOf(has[person[i]])}]]
                 /\ kc = [p \in Persons |-> IF p \in served THEN 1 ELSE 0]
  BY Zenon DEF EmailInit
<1> DEFINE served == {p \in Persons : ServingOf(has[p]) # {}}
           n == Cardinality(served)
<1>2. PICK person \in Bijection(1 .. n, served) :
                 /\ db = [p \in Persons |-> [name |-> 1, kontexte |-> has[p], gone |-> FALSE]]
                 /\ emails = [i \in 1 .. n |->
                        [id |-> i, address |-> <<1, i - 1>>, owner |-> person[i],
                         status |-> "ENABLED", ox |-> i]]
                 /\ ox = [i \in 1 .. n |->
                        [username |-> <<person[i], 1>>, primary |-> <<1, i - 1>>,
                         groups |-> {k.school : k \in ServingOf(has[person[i]])}]]
                 /\ kc = [p \in Persons |-> IF p \in served THEN 1 ELSE 0]
  BY <1>1, Zenon
<1> HIDE DEF n
<1>3. \A i \in DOMAIN emails : emails[i].ox = i /\ i \in DOMAIN ox /\ ox[i].username[1] = emails[i].owner
  BY <1>2
<1>4. \A p \in Persons : ~db[p].gone /\ kc[p] # -1
  BY <1>2
<1>5. Running = {}
  BY NobodyQuiet DEF EmailInit, Running
<1>6. \A i \in DOMAIN emails : Belongs(emails[i].ox, emails[i].owner)
  BY <1>3 DEF Belongs, Mine
<1> QED
  BY <1>4, <1>5, <1>6 DEF Separate, Ended

\* A call that has failed and an event that came too early are not forgotten.
LEMMA StepCounts ==
    ASSUME NEW h, Step(h) PROVE (Fine \/ Trouble) /\ overlaps' = overlaps
<1>1. CASE HandlePerson(h) \/ DisableOne(h) \/ CreateOrEnable(h) \/ HandleRenamed(h) \/ Retire(h)
  BY <1>1 DEF HandlePerson, DisableOne, CreateOrEnable, HandleRenamed, Retire, Outside
<1>2. CASE ChooseAddress(h) \/ Check(h) \/ Save(h) \/ Enable(h) \/ EnableDisabled(h) \/ Deactivate(h)
  BY <1>2 DEF ChooseAddress, Check, Save, Enable, EnableDisabled, Deactivate, Outside
<1>3. CASE FindRequested(h) \/ ExistsUser(h) \/ CreateUser(h) \/ ChangeUser(h)
  BY <1>3 DEF FindRequested, ExistsUser, CreateUser, ChangeUser, Outside
<1>4. CASE AlreadyExists(h) \/ FindGroup(h) \/ CreateGroup(h) \/ AddMember(h) \/ MarkFailed(h)
  BY <1>4 DEF AlreadyExists, FindGroup, CreateGroup, AddMember, MarkFailed, Outside
<1>5. CASE \/ RemoveMember(h) \/ LeaveRemoved(h) \/ LeaveDisabled(h) \/ LeaveDeleted(h) \/ FreeUsername(h)
  BY <1>5 DEF RemoveMember, LeaveRemoved, LeaveDisabled, LeaveDeleted, LeaveAll, FreeUsername, Outside
<1>6. CASE UpdateAttributes(h) \/ RemoveAttributes(h) \/ DeleteRow(h)
  BY <1>6 DEF UpdateAttributes, RemoveAttributes, DeleteRow, Outside
<1> QED
  BY <1>1, <1>2, <1>3, <1>4, <1>5, <1>6 DEF Step

LEMMA EventCounts ==
    ASSUME HappensOutside PROVE Fine /\ overlaps' \in {overlaps, overlaps + 1}
<1>1. ASSUME NEW next, PublishAll(next) PROVE Fine /\ overlaps' \in {overlaps, overlaps + 1}
  BY <1>1 DEF PublishAll
<1> QED
  BY <1>1 DEF HappensOutside, Update, Rename, DeletePerson, UpdateRolle

LEMMA SmoothBefore ==
    ASSUME EmailTypeInv, [EmailNext]_emailVars, Smooth' PROVE Smooth
<1>1. failures \in Nat /\ overlaps \in Nat
  BY DEF EmailTypeInv, CountsOK
<1>2. /\ failures' = failures \/ failures' = failures + 1
      /\ overlaps' = overlaps \/ overlaps' = overlaps + 1
  BY StepCounts, EventCounts DEF EmailNext, Idle, emailVars, Fine, Trouble
<1> QED
  BY <1>1, <1>2 DEF Smooth

\* A step of a handler leaves what is others' alone.
LEMMA StepOwn ==
    ASSUME EmailAssumption, EmailTypeInv, EmailTypeInv', Separate, Smooth', NEW h \in Running, Step(h)
    PROVE  Separate' /\ OthersKept(h.p)
<1> failures' = 0
  BY DEF Smooth
<1>1. CASE HandlePerson(h) \/ DisableOne(h) \/ CreateOrEnable(h) \/ HandleRenamed(h) \/ Retire(h)
  BY <1>1, HandlePersonOwn, DisableOneOwn, CreateOrEnableOwn, HandleRenamedOwn, RetireOwn
<1>2. CASE ChooseAddress(h) \/ Check(h) \/ Save(h) \/ Enable(h) \/ EnableDisabled(h) \/ Deactivate(h)
  BY <1>2, ChooseAddressOwn, CheckOwn, SaveOwn, EnableOwn, EnableDisabledOwn, DeactivateOwn
<1>3. CASE FindRequested(h) \/ ExistsUser(h) \/ CreateUser(h) \/ ChangeUser(h)
  BY <1>3, FindRequestedOwn, ExistsUserOwn, CreateUserOwn, ChangeUserOwn
<1>4. CASE AlreadyExists(h) \/ FindGroup(h) \/ CreateGroup(h) \/ AddMember(h) \/ MarkFailed(h)
  BY <1>4, AlreadyExistsOwn, GroupsOwn, MarkFailedOwn
<1>5. CASE \/ RemoveMember(h) \/ LeaveRemoved(h) \/ LeaveDisabled(h) \/ LeaveDeleted(h) \/ FreeUsername(h)
           \/ UpdateAttributes(h) \/ RemoveAttributes(h) \/ DeleteRow(h)
  BY <1>5, LeavesOwn, FreeUsernameOwn, AttributesOwn, DeleteRowOwn
<1> QED
  BY <1>1, <1>2, <1>3, <1>4, <1>5 DEF Step

\* Of two persons, the one at least whose handlers do not run keeps their rows
\* and their users of OX.
OneChanges == \A p, q \in Persons : p = q \/ KeptFor(p) \/ KeptFor(q)

LEMMA NextSeparate ==
    ASSUME EmailAssumption, EmailTypeInv, EmailTypeInv', Separate, Smooth', [EmailNext]_emailVars
    PROVE  Separate' /\ OneChanges
<1>0. overlaps' = 0
  BY DEF Smooth
<1>1. CASE HappensOutside
  <2>1. ASSUME NEW p \in Persons, kc[p] # -1, NEW kontexte \in SUBSET Kontexte, Update(p, kontexte)
        PROVE  Separate' /\ OneChanges
    BY <2>1, <1>0, UpdateOwn DEF OthersKept, OneChanges
  <2>2. ASSUME NEW p \in Persons, kc[p] # -1, Rename(p) \/ DeletePerson(p) PROVE Separate' /\ OneChanges
    BY <2>2, <1>0, RenameOwn, DeletePersonOwn DEF OthersKept, OneChanges
  <2>3. ASSUME NEW r, UpdateRolle(r) PROVE Separate' /\ OneChanges
    BY <2>3, <1>0, UpdateRolleOwn DEF OneChanges
  <2> QED
    BY <1>1, <2>1, <2>2, <2>3 DEF HappensOutside
<1>2. ASSUME NEW h \in BagToSet(handlers), Step(h) PROVE Separate' /\ OneChanges
  BY <1>2, StepOwn DEF OthersKept, OneChanges, Running
<1>3. CASE UNCHANGED emailVars
  <2>1. UNCHANGED <<db, emails, updated, ox, kc, handlers>>
    BY <1>3 DEF emailVars
  <2>2. Separate'
    BY <2>1 DEF Separate, Running, Ended, RowsOf, Belongs, Mine, OwnHandler, OwnRow, KindOK, LeavingKind
  <2> QED
    BY <2>1, <2>2 DEF OneChanges, KeptFor, RowsOf, Users
<1> QED
  BY <1>1, <1>2, <1>3 DEF EmailNext, Idle

EachOwn == Smooth => Separate

\* While one event is handled at a time and no call fails, all handlers under
\* way are of one person, and none has a row, an address or a user of OX at
\* hand that is another's; a row never tells of another's user either, and
\* whoever is being deleted is only left, never given anything.
THEOREM EachItsOwn == EmailSpec => [](Smooth => Separate)
<1>1. EmailInit => EmailTypeInv /\ EachOwn
  BY EmailInitTyped, InitSeparate, EmailAssumption DEF EachOwn
<1>2. EmailTypeInv /\ EachOwn /\ [EmailNext]_emailVars => (EmailTypeInv /\ EachOwn)'
  BY NextTyped, NextSeparate, SmoothBefore, EmailAssumption DEF EachOwn
<1> QED
  BY <1>1, <1>2, PTL DEF EmailSpec, EachOwn

\* In the same way, no step changes rows or users of two persons.
THEOREM OneAtATime == EmailSpec => [][Smooth' => OneChanges]_emailVars
<1>1. EmailInit => EmailTypeInv /\ EachOwn
  BY EmailInitTyped, InitSeparate, EmailAssumption DEF EachOwn
<1>2. EmailTypeInv /\ EachOwn /\ [EmailNext]_emailVars => (EmailTypeInv /\ EachOwn)' /\ [Smooth' => OneChanges]_emailVars
  BY NextTyped, NextSeparate, SmoothBefore, EmailAssumption DEF EachOwn
<1> QED
  BY <1>1, <1>2, PTL DEF EmailSpec

-----------------------------------------------------------------------------
(* The way from one enabled address to the next, one event at a time.      *)

TheUser(n, p) == Users(p) = {n}
IsServed(p) == ServingOf(db[p].kontexte) # {}

\* At rest a person's rows tell of one and the same user, and one at most is
\* enabled.
RowsSound(p) ==
    /\ \A i \in RowsOf(p) : /\ emails[i].status # "FAILED"
                            /\ kc[p] # -1 /\ emails[i].status # "REQUESTED" => TheUser(emails[i].ox, p)
    /\ \A i, j \in WithStatus(p, "ENABLED") : i = j
    /\ \A i, j \in WithStatus(p, "REQUESTED") : i = j
    /\ kc[p] = -1 => ~IsRequested(p)
    /\ RowsOf(p) = {} /\ kc[p] # -1 => Users(p) = {}

\* How far others are under way.
Alone(h) == handlers[h] = 1 /\ \A g \in Running : g # h => g.kind = "oxUpdated"
Only(h) == handlers[h] = 1 /\ \A g \in Running : g # h => g.kind \notin {"person", "renamed"}

\* What a handler has at hand: the rows it has loaded, a row of the table that
\* it is about to write, a new row.
SeenOK(h) ==
    /\ DOMAIN h.seen # {}
    /\ \A i \in DOMAIN h.seen : /\ i \in DOMAIN emails /\ emails[i].owner = h.p
                                /\ emails[i].status \in {"ENABLED", "DISABLED"} /\ h.seen[i] > 0
Copies(h, r, from) ==
    /\ r.id \in WithStatus(h.p, from) /\ r.owner = h.p /\ r.address = emails[r.id].address
Unused(h) ==
    /\ h.row.id = New /\ h.row.status = "REQUESTED" /\ h.row.owner = h.p
    /\ \A i \in DOMAIN emails : emails[i].address # h.row.address
Named(h) == h.user = db[h.p].name

\* A handler on the way to a request.
RenameStarts(h) ==
    /\ h.kind = "renamed" /\ h.pc = "start"
    /\ IsServed(h.p) <=> Enabled(h.p)
    /\ RowsOf(h.p) # {} => SeenOK(h)
Retires(h) ==
    /\ h.kind = "renamed" /\ h.pc = "retire" /\ h.after = "changed" /\ IsServed(h.p) /\ SeenOK(h)
    /\ Copies(h, h.row, "ENABLED") /\ h.row.status = "DISABLED" /\ h.row.ox = emails[h.row.id].ox
AsksFirst(h) ==
    /\ h.kind = "person" /\ h.pc \in {"address", "check", "write"} /\ h.after = "generated" /\ h.todo = {}
    /\ IsServed(h.p) /\ RowsOf(h.p) = {}
    /\ h.pc # "address" => Unused(h)
AsksAgain(h) ==
    /\ h.kind = "renamed" /\ h.pc \in {"address", "check", "write"}
    /\ h.after = IF IsServed(h.p) THEN "changed" ELSE "disabled"
    /\ SeenOK(h) /\ ~Enabled(h.p)
    /\ h.pc # "address" => Unused(h)
AsksAt(h) == ~IsRequested(h.p) /\ (RenameStarts(h) \/ Retires(h) \/ AsksFirst(h) \/ AsksAgain(h))

\* A handler that carries a request on: a user is created, or changed, Keycloak
\* is told, the address is enabled or, of a user who is not served, disabled.
Creates(h) ==
    /\ h.kind = "create" /\ RowsOf(h.p) = WithStatus(h.p, "REQUESTED")
    /\ \/ h.pc = "start" /\ Users(h.p) = {}
       \/ /\ h.pc \in {"exists", "user"} /\ Users(h.p) = {} /\ Named(h)
          /\ Copies(h, h.row, "REQUESTED") /\ h.row.status = "REQUESTED"
       \/ /\ h.pc \in {"check", "write", "group", "createGroup", "add"} /\ Named(h)
          /\ TheUser(h.ox, h.p) /\ ox[h.ox].groups = {}
          /\ Copies(h, h.row, "REQUESTED") /\ h.row.status = "REQUESTED"
          /\ h.pc = "createGroup" => h.school \notin oxGroups
Changes(h) ==
    /\ h.kind \in {"change", "changeDisabled"}
    /\ \/ h.pc = "start" /\ SeenOK(h)
       \/ /\ h.pc = "user" /\ Named(h) /\ TheUser(h.ox, h.p)
          /\ Copies(h, h.row, "REQUESTED") /\ h.row.status = "REQUESTED"
Tells(h) ==
    /\ TheUser(h.ox, h.p) /\ h.after = ""
    /\ \/ /\ h.kind \in {"kcChanged", "metadata"} /\ h.pc = "start" /\ Named(h)
          /\ \E i \in WithStatus(h.p, "REQUESTED") : h.mail = emails[i].address
       \/ h.kind = "disabledOx" /\ h.pc = "start"
       \/ /\ h.kind = "metadata" /\ h.pc \in {"check", "write"} /\ h.row.status = "ENABLED"
          /\ Copies(h, h.row, "REQUESTED") /\ h.row.ox = h.ox
       \/ /\ h.kind = "disabledOx" /\ h.pc = "write" /\ h.row.status = "DISABLED"
          /\ Copies(h, h.row, "REQUESTED") /\ h.row.ox = h.ox
CarriesAt(h) ==
    /\ IsRequested(h.p) /\ ~Enabled(h.p)
    /\ h.kind \in {"create", "change", "kcChanged", "metadata"} <=> IsServed(h.p)
    /\ Creates(h) \/ Changes(h) \/ Tells(h)

\* The handler of a person's Personenkontexte, when nothing is requested.
Disables(h) ==
    h.kind = "person" /\ h.pc = "disable" => \/ db[h.p].gone
        \/ \A r \in h.todo :
              /\ \E from \in {"ENABLED", "DISABLED"} : Copies(h, r, from)
              /\ r.status = "DISABLED" /\ r.ox = emails[r.id].ox
AtSchool(h) ==
    /\ h.pc = "school" /\ IsServed(h.p) /\ h.todo # {}
    /\ RowsOf(h.p) = {} => \A s, t \in h.todo : s = t
Enables(h) ==
    /\ h.pc \in {"check", "write"} /\ IsServed(h.p) /\ h.after = "generated"
    /\ Copies(h, h.row, "DISABLED") /\ h.row.status = "ENABLED" /\ h.row.ox = emails[h.row.id].ox
    /\ h.pc = "write" => ~Enabled(h.p)
ServesAt(h) ==
    /\ h.kind = "person" /\ ~IsRequested(h.p)
    /\ \/ h.pc = "start" /\ h.removed = {}
       \/ /\ h.pc = "disable" /\ ~IsServed(h.p) /\ Disables(h)
          /\ \A i \in WithStatus(h.p, "ENABLED") : \E r \in h.todo : r.id = i
       \/ AtSchool(h) \/ Enables(h)

\* What goes on beside it.
BesideKind(h) ==
    \/ h.kind \in {"exists", "oxDisabled", "kcDisabled"}
    \/ h.kind \in {"create", "kcChanged", "metadata"} /\ h.pc = "start"

Asking(h) == Alone(h) /\ AsksAt(h)
Carrying(h) == Alone(h) /\ CarriesAt(h)
Serving(h) == Only(h) /\ ServesAt(h) /\ (h.pc = "start" \/ RowsOf(h.p) = {} => Alone(h))
Beside(h) == BesideKind(h) /\ ~IsRequested(h.p)
Local(h) ==
    \/ kc[h.p] # -1 /\ (h.kind = "oxUpdated" \/ Asking(h) \/ Carrying(h) \/ Serving(h) \/ Beside(h))
    \/ kc[h.p] = -1 /\ Disables(h)

\* Who is served has an enabled address, or a handler sees to it.
Promised(p) ==
    kc[p] # -1 =>
        \/ \E h \in Running : h.p = p /\ (Asking(h) \/ Carrying(h))
        \/ \E h \in Running : h.p = p /\ Serving(h)
        \/ ~IsRequested(p) /\ (IsServed(p) <=> Enabled(p))
Sound(p) == RowsSound(p) /\ Promised(p) /\ \A h \in Running : h.p = p => Local(h)
LastUse ==
    \A i \in DOMAIN emails :
        emails[i].status = "ENABLED" /\ (emails[i].owner = Nobody \/ kc[emails[i].owner] = -1) =>
            \E h \in Running : h.kind = "deleted" /\ h.mail = emails[i].address

LEMMA RunningChanged ==
    ASSUME EmailTypeInv, NEW h \in Running, NEW next, Become(h, next)
    PROVE  /\ Running' \subseteq Running \cup next /\ next \subseteq Running'
           /\ \A x \in Running : x # h => x \in Running'
           /\ \A x \in Running : x \notin next /\ x # h => handlers'[x] = handlers[x]
           /\ handlers[h] = 1 /\ h \notin next => h \notin Running'
           /\ \A x \in next : x \notin Running \/ (x = h /\ handlers[h] = 1) => handlers'[x] = 1
<1>1. IsABag(handlers) /\ h \in BagToSet(handlers)
  BY DEF EmailTypeInv, HandlersOK, Running
<1> QED
  BY <1>1, BagChanged DEF Running

\* A handler that is alone has gone on.
LEMMA SoundAlone ==
    ASSUME EmailTypeInv, NEW h \in Running, Alone(h), h.kind # "oxUpdated", kc'[h.p] # -1,
           NEW g, g.p = h.p, g.kind # "oxUpdated", Become(h, {g}),
           RowsSound(h.p)', AsksAt(g)' \/ CarriesAt(g)'
    PROVE  Sound(h.p)'
<1>1. /\ Running' \subseteq Running \cup {g} /\ g \in Running'
      /\ h # g => h \notin Running'
  BY RunningChanged DEF Alone
<1>2. \A x \in Running' : x # g => x.kind = "oxUpdated"
  BY <1>1 DEF Alone
<1>3. handlers'[g] = 1
  <2>1. g \notin Running \/ (g = h /\ handlers[h] = 1)
    BY DEF Alone
  <2> QED
    BY <2>1, RunningChanged
<1>4. Asking(g)' \/ Carrying(g)'
  BY <1>2, <1>3 DEF Alone, Asking, Carrying
<1>5. Promised(h.p)'
  BY <1>1, <1>4 DEF Promised
<1>6. \A x \in Running' : x.p = h.p => Local(x)'
  BY <1>2, <1>4 DEF Local
<1> QED
  BY <1>5, <1>6 DEF Sound

\* A handler that is alone is done with what was asked for.
LEMMA SoundDone ==
    ASSUME EmailTypeInv, NEW h \in Running, Alone(h), h.kind # "oxUpdated", kc'[h.p] # -1,
           NEW next, Become(h, next), \A x \in next : x.p = h.p /\ BesideKind(x),
           RowsSound(h.p)', ~IsRequested(h.p)', IsServed(h.p)' <=> Enabled(h.p)'
    PROVE  Sound(h.p)'
<1>1. \A x \in Running' : x \in next \/ x.kind = "oxUpdated"
  BY RunningChanged DEF Alone
<1>2. Promised(h.p)'
  BY DEF Promised
<1>3. \A x \in Running' : x.p = h.p => Local(x)'
  BY <1>1 DEF Local, Beside
<1> QED
  BY <1>2, <1>3 DEF Sound

\* Beside a handler that serves there is nothing that asks.
LEMMA BesideServing ==
    ASSUME NEW h \in Running, h.kind = "person", Only(h), Sound(h.p), kc[h.p] # -1, NEW x \in Running, x.p = h.p
    PROVE  x = h \/ x.kind = "oxUpdated" \/ BesideKind(x)
<1>1. Local(x)
  BY DEF Sound
<1>2. Alone(x) => x = h
  BY DEF Alone
<1>3. x.kind = "person" => x = h
  BY DEF Only
<1> QED
  BY <1>1, <1>2, <1>3 DEF Local, Asking, Carrying, Serving, ServesAt, Beside

LEMMA SoundServes ==
    ASSUME EmailTypeInv, Separate, NEW h \in Running, h.kind = "person", Only(h), Sound(h.p), kc[h.p] # -1, kc'[h.p] # -1,
           NEW next, Become(h, next), NEW g \in next, g.p = h.p, ServesAt(g)', g.pc # "start",
           \A x \in next : x = g \/ (x.p = h.p /\ BesideKind(x)),
           RowsOf(h.p)' # {} \/ (Alone(h) /\ next = {g}),
           RowsSound(h.p)'
    PROVE  Sound(h.p)'
<1>1. /\ Running' \subseteq Running \cup next /\ g \in Running'
      /\ h \notin next => h \notin Running'
  BY RunningChanged DEF Only
<1>2. g.kind = "person" /\ ~IsRequested(h.p)'
  BY DEF ServesAt
<1>3. h \in next => h = g
  BY DEF BesideKind
<1>4. \A x \in Running' : x = g \/ x.kind = "oxUpdated" \/ BesideKind(x)
  <2>1. \A x \in Running : x.p = h.p
    BY DEF Separate
  <2> QED
    BY <2>1, <1>1, <1>3, BesideServing
<1>5. handlers'[g] = 1
  <2>1. g \notin Running \/ (g = h /\ handlers[h] = 1)
    BY <1>2 DEF Only
  <2> QED
    BY <2>1, RunningChanged
<1>6. Only(g)'
  BY <1>4, <1>5 DEF Only, BesideKind
<1>7. RowsOf(h.p)' = {} => Alone(g)'
  <2> SUFFICES ASSUME RowsOf(h.p)' = {} PROVE Alone(g)'
    OBVIOUS
  <2>1. \A x \in Running' : x # g => x.kind = "oxUpdated"
    BY <1>1, <1>3 DEF Alone
  <2> QED
    BY <2>1, <1>5 DEF Alone
<1>8. Serving(g)'
  BY <1>6, <1>7 DEF Serving
<1>9. Promised(h.p)'
  BY <1>1, <1>8 DEF Promised
<1>10. \A x \in Running' : x.p = h.p => Local(x)'
  BY <1>2, <1>4, <1>8 DEF Local, Beside
<1> QED
  BY <1>9, <1>10 DEF Sound

LEMMA SoundServed ==
    ASSUME EmailTypeInv, Separate, NEW h \in Running, h.kind = "person", Only(h), Sound(h.p), kc[h.p] # -1, kc'[h.p] # -1,
           NEW next, Become(h, next), \A x \in next : x.p = h.p /\ BesideKind(x),
           RowsSound(h.p)', ~IsRequested(h.p)', IsServed(h.p)' <=> Enabled(h.p)'
    PROVE  Sound(h.p)'
<1>1. /\ Running' \subseteq Running \cup next
      /\ h \notin next => h \notin Running'
  BY RunningChanged DEF Only
<1>2. h \notin next
  BY DEF BesideKind
<1>3. \A x \in Running' : x.kind = "oxUpdated" \/ BesideKind(x)
  <2>1. \A x \in Running : x.p = h.p
    BY DEF Separate
  <2> QED
    BY <2>1, <1>1, <1>2, BesideServing
<1>4. Promised(h.p)'
  BY DEF Promised
<1>5. \A x \in Running' : x.p = h.p => Local(x)'
  BY <1>3 DEF Local, Beside
<1> QED
  BY <1>4, <1>5 DEF Sound

\* What a step leaves when it writes no row and gives no user a name.
SameRows == UNCHANGED <<db, serving, emails>> /\ KcEffect /\ (ox' = ox \/ OxSame)
LEMMA RowsSame ==
    ASSUME SameRows, NEW p \in Persons
    PROVE  /\ RowsOf(p)' = RowsOf(p) /\ \A s : WithStatus(p, s)' = WithStatus(p, s)
           /\ IsRequested(p)' <=> IsRequested(p)
           /\ Enabled(p)' <=> Enabled(p)
           /\ IsServed(p)' <=> IsServed(p)
           /\ Users(p)' = Users(p)
           /\ \A n : TheUser(n, p)' <=> TheUser(n, p)
<1>1. UNCHANGED <<db, serving, emails>> /\ DOMAIN ox' = DOMAIN ox /\ \A n \in DOMAIN ox : ox'[n].username = ox[n].username
  BY DEF SameRows, OxSame
<1>2. RowsOf(p)' = RowsOf(p) /\ \A s : WithStatus(p, s)' = WithStatus(p, s)
  BY <1>1 DEF RowsOf, WithStatus
<1>3. Users(p)' = Users(p)
  BY <1>1 DEF Users
<1>4. IsServed(p)' <=> IsServed(p)
  BY <1>1 DEF IsServed, ServingOf
<1>5. \A n : TheUser(n, p)' <=> TheUser(n, p)
  BY <1>1, <1>3 DEF TheUser
<1>6. (IsRequested(p)' <=> IsRequested(p)) /\ (Enabled(p)' <=> Enabled(p))
  BY <1>2 DEF IsRequested, Enabled
<1> QED
  BY <1>2, <1>3, <1>4, <1>5, <1>6

LEMMA RowsSoundKept ==
    ASSUME SameRows, NEW p \in Persons, RowsSound(p) PROVE RowsSound(p)'
<1>1. UNCHANGED emails /\ (kc'[p] = -1 <=> kc[p] = -1)
  BY DEF SameRows, KcEffect
<1> QED
  BY <1>1, RowsSame DEF RowsSound

LEMMA CopiesKept ==
    ASSUME SameRows, NEW h, h.p \in Persons
    PROVE  /\ \A r, from : Copies(h, r, from)' <=> Copies(h, r, from)
           /\ SeenOK(h)' <=> SeenOK(h)
           /\ Unused(h)' <=> Unused(h)
           /\ Named(h)' <=> Named(h)
           /\ Disables(h)' <=> Disables(h)
<1>1. UNCHANGED <<emails, db>>
  BY DEF SameRows
<1>2. \A r, from : Copies(h, r, from)' <=> Copies(h, r, from)
  BY <1>1, RowsSame DEF Copies
<1>3. (SeenOK(h)' <=> SeenOK(h)) /\ (Unused(h)' <=> Unused(h)) /\ (Named(h)' <=> Named(h))
  BY <1>1 DEF SeenOK, Unused, Named
<1>4. Disables(h)' <=> Disables(h)
  BY <1>1, <1>2 DEF Disables
<1> QED
  BY <1>2, <1>3, <1>4

LEMMA ServesKept ==
    ASSUME SameRows, NEW h, h.p \in Persons
    PROVE  (ServesAt(h) => ServesAt(h)') /\ (Beside(h) => Beside(h)')
<1>1. UNCHANGED <<emails, db>>
  BY DEF SameRows
<1>2. AtSchool(h) => AtSchool(h)'
  BY RowsSame DEF AtSchool
<1>3. Enables(h) => Enables(h)'
  BY <1>1, RowsSame, CopiesKept DEF Enables
<1>4. ServesAt(h) => ServesAt(h)'
  BY <1>2, <1>3, RowsSame, CopiesKept DEF ServesAt
<1> QED
  BY <1>4, RowsSame DEF Beside

LEMMA AsksKept ==
    ASSUME SameRows, NEW h, h.p \in Persons, AsksAt(h) PROVE AsksAt(h)'
<1>1. UNCHANGED <<emails, db>>
  BY DEF SameRows
<1>2. RenameStarts(h) => RenameStarts(h)'
  BY RowsSame, CopiesKept DEF RenameStarts
<1>3. Retires(h) => Retires(h)'
  BY <1>1, RowsSame, CopiesKept DEF Retires
<1>4. AsksFirst(h) => AsksFirst(h)'
  BY RowsSame, CopiesKept DEF AsksFirst
<1>5. AsksAgain(h) => AsksAgain(h)'
  BY RowsSame, CopiesKept DEF AsksAgain
<1> QED
  BY <1>2, <1>3, <1>4, <1>5, RowsSame DEF AsksAt

GroupsShrink == oxGroups' = oxGroups /\ \A n \in DOMAIN ox : ox'[n].groups \subseteq ox[n].groups
LEMMA CarriesKept ==
    ASSUME SameRows, GroupsShrink, NEW h, h.p \in Persons, CarriesAt(h) PROVE CarriesAt(h)'
<1>1. UNCHANGED <<emails, db, oxGroups>>
  BY DEF SameRows, GroupsShrink
<1>2. \A n : TheUser(n, h.p) /\ ox[n].groups = {} => ox'[n].groups = {}
  BY DEF GroupsShrink, TheUser, Users
<1>3. Creates(h) => Creates(h)'
  BY <1>1, <1>2, RowsSame, CopiesKept DEF Creates
<1>4. Changes(h) => Changes(h)'
  BY RowsSame, CopiesKept DEF Changes
<1>5. Tells(h) => Tells(h)'
  BY <1>1, RowsSame, CopiesKept DEF Tells
<1> QED
  BY <1>3, <1>4, <1>5, RowsSame DEF CarriesAt

\* A handler beside the others, or one that takes groups away, has gone on.
LEMMA SoundReads ==
    ASSUME EmailAssumption, EmailTypeInv, Separate, NEW h \in Running, Sound(h.p), SameRows, NEW next, Become(h, next),
           \A x \in next : x.p = h.p,
           \/ h.kind = "oxUpdated" /\ GroupsShrink /\ \A x \in next : x.kind = "oxUpdated"
           \/ Beside(h) /\ kc[h.p] # -1 /\ \A x \in next : BesideKind(x)
           \/ kc[h.p] = -1 /\ h.kind # "person" /\ \A x \in next : x.kind # "person"
    PROVE  Sound(h.p)'
<1>1. h.p \in Persons /\ (kc'[h.p] = -1 <=> kc[h.p] = -1)
  BY SeparateFacts DEF SameRows, KcEffect
<1>2. /\ Running' \subseteq Running \cup next
      /\ \A x \in Running : x # h => x \in Running'
      /\ \A x \in Running : x \notin next /\ x # h => handlers'[x] = handlers[x]
  BY RunningChanged
<1>3. RowsSound(h.p)'
  BY <1>1, RowsSoundKept DEF Sound
<1>4. \A x \in Running : x.p = h.p
  BY DEF Separate
<1>5. CASE kc[h.p] = -1
  <2>1. Promised(h.p)'
    BY <1>1, <1>5 DEF Promised
  <2>2. \A x \in Running : Disables(x)
    BY <1>4, <1>5 DEF Sound, Local
  <2>3. \A x \in next : x.kind # "person"
    BY <1>5
  <2>4. \A x \in Running' : Disables(x)'
    <3>1. \A x \in Running : Disables(x)'
      BY <2>2, <1>1, <1>4, CopiesKept
    <3>2. \A x \in next : Disables(x)'
      BY <2>3 DEF Disables
    <3> QED
      BY <3>1, <3>2, <1>2
  <2>5. \A x \in Running' : x.p = h.p => Local(x)'
    BY <2>4, <1>1, <1>5 DEF Local
  <2> QED
    BY <2>1, <2>5, <1>3 DEF Sound
<1>6. CASE kc[h.p] # -1
  <2>1. \A x \in next : x.kind = "oxUpdated" \/ Beside(x)'
    <3>1. h.kind = "oxUpdated" => \A x \in next : x.kind = "oxUpdated"
      BY <1>6 DEF Beside, BesideKind
    <3>2. h.kind # "oxUpdated" => \A x \in next : BesideKind(x) /\ ~IsRequested(x.p)'
      BY <1>1, <1>6, RowsSame DEF Beside
    <3> QED
      BY <3>1, <3>2 DEF Beside
  <2>2. ASSUME NEW x \in Running, Asking(x) \/ Carrying(x) PROVE x \in Running' /\ (Asking(x)' \/ Carrying(x)')
    <3>1. Alone(x)
      BY <2>2 DEF Asking, Carrying
    <3>2. x.kind # "oxUpdated" /\ ~(Beside(x) /\ Asking(x)) /\ (IsRequested(x.p) <=> Carrying(x))
      BY <2>2 DEF Asking, Carrying, AsksAt, CarriesAt, RenameStarts, Retires, AsksFirst, AsksAgain,
                  Creates, Changes, Tells, Beside, BesideKind
    <3>3. x # h
      BY <3>2, <2>2, <1>6 DEF Beside
    <3>4. h.kind = "oxUpdated" /\ GroupsShrink /\ \A y \in next : y.kind = "oxUpdated"
      BY <3>1, <3>3, <1>6 DEF Alone, Beside, BesideKind
    <3>5. x \in Running' /\ handlers'[x] = 1
      BY <3>1, <3>2, <3>3, <3>4, <1>2 DEF Alone
    <3>6. Alone(x)'
      BY <3>1, <3>4, <3>5, <1>2 DEF Alone
    <3> QED
      BY <3>4, <3>5, <3>6, <2>2, <1>1, <1>4, AsksKept, CarriesKept DEF Asking, Carrying
  <2>3. ASSUME NEW x \in Running, Serving(x) PROVE x \in Running' /\ Serving(x)'
    <3>1. x.kind = "person" /\ Only(x) /\ ServesAt(x)
      BY <2>3 DEF Serving, ServesAt
    <3>2. x # h /\ x \notin next
      BY <3>1, <1>6, <2>1 DEF Beside, BesideKind
    <3>3. x \in Running' /\ handlers'[x] = 1
      BY <3>1, <3>2, <1>2 DEF Only
    <3>4. Only(x)'
      BY <3>1, <3>3, <2>1, <1>2 DEF Only, Beside, BesideKind
    <3>5. Alone(x) => Alone(x)'
      <4> SUFFICES ASSUME Alone(x) PROVE Alone(x)'
        OBVIOUS
      <4>1. h.kind = "oxUpdated"
        BY <3>2 DEF Alone
      <4>2. \A y \in next : y.kind = "oxUpdated"
        BY <4>1, <1>6 DEF Beside, BesideKind
      <4> QED
        BY <4>2, <3>3, <1>2 DEF Alone
    <3>6. ServesAt(x)' /\ RowsOf(x.p)' = RowsOf(x.p)
      BY <3>1, <1>1, <1>4, ServesKept, RowsSame
    <3> QED
      BY <2>3, <3>3, <3>4, <3>5, <3>6 DEF Serving
  <2>4. Promised(h.p)'
    <3>1. Promised(h.p)
      BY DEF Sound
    <3> QED
      BY <3>1, <2>2, <2>3, <1>1, <1>6, RowsSame DEF Promised
  <2>5. \A x \in Running' : x.p = h.p => Local(x)'
    <3> SUFFICES ASSUME NEW x \in Running', x.p = h.p PROVE Local(x)'
      OBVIOUS
    <3>1. CASE x \in next
      BY <3>1, <2>1, <1>1, <1>6 DEF Local
    <3>2. CASE x \in Running
      <4>1. Local(x)
        BY <3>2 DEF Sound
      <4>2. Beside(x) => Beside(x)'
        BY <1>1, ServesKept
      <4> QED
        BY <4>1, <4>2, <3>2, <2>2, <2>3, <1>1, <1>6 DEF Local
    <3> QED
      BY <3>1, <3>2, <1>2
  <2> QED
    BY <2>4, <2>5, <1>3 DEF Sound
<1> QED
  BY <1>5, <1>6

LEMMA OneRead ==
    ASSUME EmailAssumption, EmailTypeInv, Separate, NEW h \in Running, Sound(h.p), SameRows, NEW g, Become(h, {g}),
           g.p = h.p, g.kind = h.kind,
           \/ h.kind = "oxUpdated" /\ GroupsShrink
           \/ h.kind \in {"exists", "oxDisabled", "kcDisabled"}
           \/ kc[h.p] = -1 /\ h.kind # "person"
    PROVE  Sound(h.p)'
<1>1. PICK next : next = {g}
  OBVIOUS
<1>2. Become(h, next) /\ \A x \in next : x.p = h.p /\ x.kind = h.kind
  BY <1>1
<1>3. h.kind \in {"exists", "oxDisabled", "kcDisabled"} => kc[h.p] = -1 \/ Beside(h)
  BY DEF Sound, Local, Asking, Carrying, Serving, AsksAt, CarriesAt, ServesAt, RenameStarts, Retires, AsksFirst, AsksAgain,
         Creates, Changes, Tells
<1>4. h.kind \in {"exists", "oxDisabled", "kcDisabled"} => \A x \in next : BesideKind(x)
  BY <1>2 DEF BesideKind
<1>5. \/ h.kind = "oxUpdated" /\ GroupsShrink /\ \A x \in next : x.kind = "oxUpdated"
      \/ Beside(h) /\ kc[h.p] # -1 /\ \A x \in next : BesideKind(x)
      \/ kc[h.p] = -1 /\ h.kind # "person" /\ \A x \in next : x.kind # "person"
  BY <1>2, <1>3, <1>4
<1> QED
  BY <1>2, <1>5, SoundReads

LEMMA EndRead ==
    ASSUME EmailAssumption, EmailTypeInv, Separate, NEW h \in Running, Sound(h.p), SameRows, Become(h, {}),
           \/ h.kind = "oxUpdated" /\ GroupsShrink
           \/ h.kind \in {"exists", "oxDisabled", "kcDisabled"} \/ Beside(h)
           \/ kc[h.p] = -1 /\ h.kind # "person"
    PROVE  Sound(h.p)'
<1>1. PICK next : next = {}
  OBVIOUS
<1>2. Become(h, next) /\ \A x \in next : FALSE
  BY <1>1
<1>3. h.kind \in {"exists", "oxDisabled", "kcDisabled"} => kc[h.p] = -1 \/ Beside(h)
  BY DEF Sound, Local, Asking, Carrying, Serving, AsksAt, CarriesAt, ServesAt, RenameStarts, Retires, AsksFirst, AsksAgain,
         Creates, Changes, Tells
<1>4. Beside(h) => h.kind # "person"
  BY DEF Beside, BesideKind
<1>5. \/ h.kind = "oxUpdated" /\ GroupsShrink
      \/ Beside(h) /\ kc[h.p] # -1
      \/ kc[h.p] = -1 /\ h.kind # "person"
  BY <1>3, <1>4
<1> QED
  BY <1>2, <1>5, SoundReads

LEMMA SameRowsIf ==
    ASSUME UNCHANGED <<db, serving, table, kc>>, ox' = ox \/ OxSame PROVE SameRows
BY DEF SameRows, KcEffect, table

LEMMA AlreadyExistsSound ==
    ASSUME EmailAssumption, EmailTypeInv, Separate, NEW h \in Running, Sound(h.p), AlreadyExists(h)
    PROVE  Sound(h.p)'
<1>1. HandlerOK(h)
  BY SeparateFacts
<1>2. h.kind = "exists" /\ UNCHANGED <<db, serving, table, ox, oxGroups, kc, twice>>
      /\ (Become(h, {}) \/ \E g : Become(h, {g}) /\ g.kind = "exists" /\ g.p = h.p)
  BY <1>1, AlreadyExistsDoes
<1>3. SameRows
  BY <1>2, SameRowsIf
<1> QED
  BY <1>2, <1>3, OneRead, EndRead

LEMMA LeavesSound ==
    ASSUME EmailAssumption, EmailTypeInv, Separate, failures' = 0, NEW h \in Running, Sound(h.p),
           RemoveMember(h) \/ LeaveRemoved(h) \/ LeaveDisabled(h) \/ LeaveDeleted(h)
    PROVE  Sound(h.p)'
<1>1. HandlerOK(h) /\ (h.kind = "oxDeleted" => kc[h.p] = -1)
  BY SeparateFacts DEF KindOK, Ending
<1>2. h.kind \in {"oxUpdated", "oxDisabled", "oxDeleted"} /\ SameRows /\ GroupsShrink
      /\ (Become(h, {}) \/ \E g : Become(h, {g}) /\ g.kind = h.kind /\ g.p = h.p)
  <2>1. CASE RemoveMember(h)
    BY <1>1, <2>1, RemoveMemberDoes, SameRowsIf DEF GroupsShrink
  <2>2. CASE LeaveRemoved(h) \/ LeaveDisabled(h)
    BY <1>1, <2>2, LeaveDoes, SameRowsIf DEF GroupsShrink
  <2>3. CASE LeaveDeleted(h)
    BY <1>1, <2>3, LeaveDeletedDoes, SameRowsIf DEF GroupsShrink
  <2> QED
    BY <2>1, <2>2, <2>3
<1> QED
  BY <1>1, <1>2, OneRead, EndRead

\* The event handlers of Keycloak.
LEMMA RemoveAttributesSound ==
    ASSUME EmailAssumption, EmailTypeInv, Separate, failures' = 0, NEW h \in Running, Sound(h.p), RemoveAttributes(h)
    PROVE  Sound(h.p)'
<1>1. HandlerOK(h) /\ h.p \in Persons
  BY SeparateFacts
<1>2. h.kind = "kcDisabled"
  BY DEF RemoveAttributes
<1>3. UNCHANGED <<db, serving, table, ox, oxGroups, twice>> /\ KcEffect /\ Become(h, {})
  BY <1>1, <1>2, AttributesDoes
<1>4. SameRows
  BY <1>3 DEF SameRows, table
<1> QED
  BY <1>2, <1>3, <1>4, EndRead

\* A user who leaves for good.
LEMMA FreeUsernameSound ==
    ASSUME EmailAssumption, EmailTypeInv, EmailTypeInv', Separate, NEW h \in Running, Sound(h.p), FreeUsername(h)
    PROVE  Sound(h.p)'
<1>1. HandlerOK(h) /\ h.p \in Persons /\ kc[h.p] = -1 /\ h.p # Nobody
  <2>1. HandlerOK(h) /\ h.p \in Persons /\ KindOK(h) /\ h.p # Nobody
    BY SeparateFacts
  <2>2. h.kind = "oxDeleted"
    BY <2>1 DEF FreeUsername, HandlerOK, PcOK
  <2> QED
    BY <2>1, <2>2 DEF KindOK, Ending
<1>2. UNCHANGED <<db, emails, kc>> /\ Become(h, {}) /\ DOMAIN ox' = DOMAIN ox
      /\ \A n \in DOMAIN ox : ox'[n].username \in {ox[n].username, Freed}
  <2>1. UNCHANGED <<db, emails, kc>> /\ Become(h, {}) /\ (ox' = ox \/ ox' = [ox EXCEPT ![h.ox].username = Freed])
    BY DEF FreeUsername, table, Outside, End
  <2>2. DOMAIN ox' = DOMAIN ox
    BY <2>1
  <2>3. \A n \in DOMAIN ox : ox[n] \in OxUser
    BY DEF EmailTypeInv, OxOK
  <2>4. \A n \in DOMAIN ox : ox'[n].username \in {ox[n].username, Freed}
    BY <2>1, <2>3 DEF OxUser
  <2> QED
    BY <2>1, <2>2, <2>4
<1>5. RowsOf(h.p)' = RowsOf(h.p) /\ \A s : WithStatus(h.p, s)' = WithStatus(h.p, s)
  BY <1>2 DEF RowsOf, WithStatus
<1>6. RowsSound(h.p)'
  BY <1>1, <1>2, <1>5 DEF Sound, RowsSound, IsRequested
<1>7. \A x \in Running' : x \in Running /\ x.p = h.p
  BY <1>2, RunningChanged DEF Separate
<1>8. \A x \in Running' : Disables(x)'
  <2>1. \A x \in Running : x.p = h.p => Disables(x)
    BY <1>1 DEF Sound, Local
  <2>2. \A x \in Running : x.p = h.p => \A r, from : Copies(x, r, from)' <=> Copies(x, r, from)
    BY <1>2, <1>5 DEF Copies
  <2> QED
    BY <2>1, <2>2, <1>2, <1>7 DEF Disables
<1> QED
  BY <1>1, <1>2, <1>6, <1>7, <1>8 DEF Sound, Promised, Local

\* A row of p is written over.
LEMMA RowReplaced ==
    ASSUME EmailTypeInv, NEW p, NEW row, row.id \in RowsOf(p), row.owner = p, Write(row)
    PROVE  /\ DOMAIN emails' = DOMAIN emails /\ emails'[row.id] = row
           /\ \A j \in DOMAIN emails : j # row.id => emails'[j] = emails[j]
           /\ RowsOf(p)' = RowsOf(p)
           /\ row.status = "ENABLED" => WithStatus(p, "ENABLED")' = WithStatus(p, "ENABLED") \cup {row.id}
           /\ row.status # "ENABLED" => WithStatus(p, "ENABLED")' = WithStatus(p, "ENABLED") \ {row.id}
           /\ row.status = "REQUESTED" => WithStatus(p, "REQUESTED")' = WithStatus(p, "REQUESTED") \cup {row.id}
           /\ row.status # "REQUESTED" => WithStatus(p, "REQUESTED")' = WithStatus(p, "REQUESTED") \ {row.id}
<1>1. row.id \in DOMAIN emails /\ emails[row.id].owner = p
  BY DEF RowsOf
<1>2. /\ DOMAIN emails' = DOMAIN emails /\ emails'[row.id] = row
      /\ \A j \in DOMAIN emails : j # row.id => emails'[j] = emails[j]
  BY <1>1, RowWritten
<1>3. RowsOf(p)' = RowsOf(p)
  BY <1>1, <1>2 DEF RowsOf
<1>4. \A s : WithStatus(p, s)' = {i \in RowsOf(p) : emails'[i].status = s}
  BY <1>3 DEF WithStatus
<1>5. \A s : WithStatus(p, s) = {i \in RowsOf(p) : emails[i].status = s}
  BY DEF WithStatus
<1>6. \A i \in RowsOf(p) : i # row.id => emails'[i] = emails[i]
  BY <1>2 DEF RowsOf
<1> QED
  BY <1>2, <1>3, <1>4, <1>5, <1>6

\* A row of p is added.
LEMMA RowAdded ==
    ASSUME EmailTypeInv, NEW p, NEW row, RowOK(row), row.id = New, row.owner = p, row.status = "REQUESTED", Write(row)
    PROVE  \E i : /\ i \notin DOMAIN emails /\ DOMAIN emails' = DOMAIN emails \cup {i}
                  /\ \A j \in DOMAIN emails : emails'[j] = emails[j]
                  /\ emails'[i].status = "REQUESTED"
                  /\ RowsOf(p)' = RowsOf(p) \cup {i}
                  /\ WithStatus(p, "ENABLED")' = WithStatus(p, "ENABLED")
                  /\ WithStatus(p, "REQUESTED")' = WithStatus(p, "REQUESTED") \cup {i}
<1>1. emails \in Seq(Row) /\ \A j \in DOMAIN emails : j # New
  BY DEF EmailTypeInv, EmailsOK, New
<1>2. PICK i : i = Len(emails) + 1
  OBVIOUS
<1>3. PICK new : new = [row EXCEPT !.id = i]
  OBVIOUS
<1>4. row \in Row
  BY DEF RowOK
<1>5. /\ new.address = row.address /\ new.owner = p /\ new.status = row.status /\ new.ox = row.ox /\ new.id = i
  BY <1>3, <1>4 DEF Row
<1>6. emails' = Append(emails, new)
  BY <1>2, <1>3, Zenon DEF Write
<1>7. new \in Row
  BY <1>1, <1>2, <1>3, <1>4 DEF Row
<1>8. /\ i \notin DOMAIN emails /\ DOMAIN emails' = DOMAIN emails \cup {i} /\ emails'[i] = new
      /\ \A j \in DOMAIN emails : emails'[j] = emails[j]
  BY <1>1, <1>2, <1>6, <1>7
<1>9. RowsOf(p)' = RowsOf(p) \cup {i}
  BY <1>5, <1>8 DEF RowsOf
<1>10. \A j \in RowsOf(p) : emails'[j] = emails[j]
  BY <1>8 DEF RowsOf
<1>11. i \notin RowsOf(p)
  BY <1>8 DEF RowsOf
<1>12. /\ WithStatus(p, "ENABLED")' = WithStatus(p, "ENABLED")
       /\ WithStatus(p, "REQUESTED")' = WithStatus(p, "REQUESTED") \cup {i}
  BY <1>5, <1>8, <1>9, <1>10, <1>11 DEF WithStatus
<1> QED
  BY <1>5, <1>8, <1>9, <1>12

\* Who still has rows to disable is not disturbed when one of them is disabled.
LEMMA DisablesKept ==
    ASSUME NEW p, NEW i \in DOMAIN emails, RowsOf(p)' = RowsOf(p), DOMAIN emails' = DOMAIN emails,
           emails'[i].status = "DISABLED", emails'[i].ox = emails[i].ox, emails'[i].address = emails[i].address,
           \A j \in DOMAIN emails : j # i => emails'[j] = emails[j], UNCHANGED db
    PROVE  \A x : x.p = p /\ Disables(x) => Disables(x)'
<1>1. ASSUME NEW x, x.p = p, NEW r, NEW from \in {"ENABLED", "DISABLED"}, Copies(x, r, from), r.ox = emails[r.id].ox
      PROVE  /\ \E to \in {"ENABLED", "DISABLED"} : Copies(x, r, to)'
             /\ r.ox = emails'[r.id].ox
  <2>1. r.id \in RowsOf(p) /\ r.id \in DOMAIN emails /\ emails[r.id].status = from
    BY <1>1 DEF Copies, WithStatus, RowsOf
  <2>2. emails'[r.id].address = emails[r.id].address /\ emails'[r.id].ox = emails[r.id].ox
        /\ emails'[r.id].status \in {"ENABLED", "DISABLED"}
    BY <2>1, <1>1
  <2>3. PICK to \in {"ENABLED", "DISABLED"} : emails'[r.id].status = to
    BY <2>2
  <2>4. r.id \in WithStatus(p, to)'
    BY <2>1, <2>3, <1>1 DEF WithStatus
  <2>5. Copies(x, r, to)'
    BY <2>2, <2>4, <1>1 DEF Copies
  <2> QED
    BY <2>2, <2>5, <1>1
<1> QED
  BY <1>1 DEF Disables

\* Rows of somebody who is being deleted are only disabled.
LEMMA LeavingWrites ==
    ASSUME EmailAssumption, EmailTypeInv, EmailTypeInv', Separate, NEW h \in Running, Sound(h.p), kc[h.p] = -1,
           NEW i \in DOMAIN emails, emails[i].owner \in {h.p, Nobody}, DOMAIN emails' = DOMAIN emails,
           emails'[i].status = "DISABLED", emails'[i].owner = emails[i].owner, emails'[i].ox = emails[i].ox,
           emails'[i].address = emails[i].address, emails'[i].id = emails[i].id,
           \A j \in DOMAIN emails : j # i => emails'[j] = emails[j], UNCHANGED <<db, ox, kc>>,
           NEW next, Become(h, next), \A x \in next : x.p = h.p /\ Disables(x)
    PROVE  Sound(h.p)'
<1>1. h.p # Nobody
  BY SeparateFacts
<1>2. RowsOf(h.p)' = RowsOf(h.p)
  BY DEF RowsOf
<1>3. \A j \in RowsOf(h.p) : j # i => emails'[j] = emails[j]
  BY DEF RowsOf
<1>4. i \in RowsOf(h.p) \/ \A j \in RowsOf(h.p) : emails'[j] = emails[j]
  BY <1>1, <1>3 DEF RowsOf
<1>5. \A n : TheUser(n, h.p)' <=> TheUser(n, h.p)
  BY DEF TheUser, Users
<1>6. RowsSound(h.p)'
  <2>1. RowsSound(h.p)
    BY DEF Sound
  <2>2. /\ WithStatus(h.p, "ENABLED")' \subseteq WithStatus(h.p, "ENABLED")
        /\ WithStatus(h.p, "REQUESTED")' \subseteq WithStatus(h.p, "REQUESTED")
    BY <1>2, <1>3, <1>4 DEF WithStatus
  <2>3. \A j \in RowsOf(h.p) : emails[j].status # "REQUESTED"
    BY <2>1 DEF RowsSound, IsRequested, WithStatus
  <2> QED
    BY <2>1, <2>2, <2>3, <1>2, <1>3, <1>4, <1>5 DEF RowsSound, IsRequested
<1>7. \A x : x.p = h.p /\ Disables(x) => Disables(x)'
  BY <1>2, DisablesKept
<1>8. \A x \in Running' : (x \in Running \/ x \in next) /\ x.p = h.p
  BY RunningChanged DEF Separate
<1>9. \A x \in Running' : Disables(x)'
  <2>1. \A x \in Running : x.p = h.p => Disables(x)
    BY DEF Sound, Local
  <2> QED
    BY <2>1, <1>7, <1>8
<1> QED
  BY <1>6, <1>8, <1>9 DEF Sound, Promised, Local

LEMMA DeactivateSound ==
    ASSUME EmailAssumption, EmailTypeInv, EmailTypeInv', Separate, NEW h \in Running, Sound(h.p), Deactivate(h)
    PROVE  Sound(h.p)'
<1>1. HandlerOK(h) /\ h.p \in Persons /\ OwnHandler(h) /\ KindOK(h)
  BY SeparateFacts
<1>2. /\ h.kind = "deleted" /\ h.pc = "start" /\ Become(h, {})
      /\ UNCHANGED <<db, serving, ox, oxGroups, kc, twice>>
  BY <1>1, DeactivateDoes
<1>3. kc[h.p] = -1
  BY <1>1, <1>2 DEF KindOK, Ending
<1>4. CASE UNCHANGED table
  BY <1>2, <1>3, <1>4, SameRowsIf, EndRead
<1>5. ASSUME NEW i \in DOMAIN emails, emails[i].address = h.mail, DOMAIN emails' = DOMAIN emails,
             emails'[i] = [emails[i] EXCEPT !.status = "DISABLED"],
             \A j \in DOMAIN emails : j # i => emails'[j] = emails[j]
      PROVE  Sound(h.p)'
  <2>1. emails[i].owner \in {h.p, Nobody}
    BY <1>1, <1>2, <1>5 DEF OwnHandler
  <2>2. emails[i] \in Row
    BY DEF EmailTypeInv, EmailsOK
  <2>3. /\ emails'[i].status = "DISABLED" /\ emails'[i].owner = emails[i].owner /\ emails'[i].ox = emails[i].ox
        /\ emails'[i].address = emails[i].address /\ emails'[i].id = emails[i].id
    BY <1>5, <2>2 DEF Row
  <2>4. PICK next : next = {}
    OBVIOUS
  <2>5. Become(h, next) /\ \A x \in next : FALSE
    BY <2>4, <1>2
  <2> QED
    BY <2>1, <2>3, <2>5, <1>2, <1>3, <1>5, LeavingWrites
<1> QED
  BY <1>1, <1>4, <1>5, DeactivateDoes

LEMMA DeleteRowSound ==
    ASSUME EmailAssumption, EmailTypeInv, EmailTypeInv', Separate, NEW h \in Running, Sound(h.p), DeleteRow(h)
    PROVE  Sound(h.p)'
<1>1. HandlerOK(h) /\ h.p \in Persons /\ KindOK(h) /\ h.p # Nobody
  BY SeparateFacts
<1>2. /\ h.kind = "deleteRow" /\ Become(h, {}) /\ UNCHANGED <<serving, updated, ox, oxGroups, kc, twice>>
      /\ db'[h.p].gone /\ DOMAIN emails' = DOMAIN emails
      /\ \A i \in DOMAIN emails : /\ emails[i].owner # h.p => emails'[i] = emails[i]
                                  /\ emails[i].owner = h.p => emails'[i].owner = Nobody
  BY <1>1, DeleteRowDoes
<1>3. kc'[h.p] = -1
  BY <1>1, <1>2 DEF KindOK, Ending
<1>4. RowsOf(h.p)' = {}
  BY <1>1, <1>2 DEF RowsOf
<1>5. RowsSound(h.p)'
  BY <1>3, <1>4 DEF RowsSound, WithStatus, IsRequested
<1>6. \A x : x.p = h.p => Disables(x)'
  BY <1>2 DEF Disables
<1> QED
  BY <1>3, <1>5, <1>6 DEF Sound, Promised, Local

\* Whose turn it is.
LEMMA LocalIs ==
    ASSUME NEW h, Local(h), kc[h.p] # -1
    PROVE  /\ h.kind = "renamed" => /\ Alone(h) /\ ~IsRequested(h.p)
                                    /\ RenameStarts(h) \/ Retires(h) \/ AsksAgain(h)
           /\ h.kind = "person" => \/ Alone(h) /\ ~IsRequested(h.p) /\ AsksFirst(h)
                                   \/ Serving(h)
           /\ h.kind = "create" => \/ Alone(h) /\ CarriesAt(h) /\ Creates(h)
                                   \/ h.pc = "start" /\ Beside(h)
           /\ h.kind \in {"change", "changeDisabled"} => Alone(h) /\ CarriesAt(h) /\ Changes(h)
           /\ h.kind \in {"kcChanged", "metadata"} => \/ Alone(h) /\ CarriesAt(h) /\ Tells(h)
                                                      \/ h.pc = "start" /\ Beside(h)
           /\ h.kind = "disabledOx" => Alone(h) /\ CarriesAt(h) /\ Tells(h)
           /\ h.kind \notin {"deleted", "oxDeleted", "deleteRow"}
<1>1. Asking(h) => /\ Alone(h) /\ ~IsRequested(h.p)
                   /\ \/ h.kind = "renamed" /\ (RenameStarts(h) \/ Retires(h) \/ AsksAgain(h))
                      \/ h.kind = "person" /\ AsksFirst(h)
  BY DEF Asking, AsksAt, RenameStarts, Retires, AsksFirst, AsksAgain
<1>2. Carrying(h) => /\ Alone(h) /\ CarriesAt(h)
                     /\ \/ h.kind = "create" /\ Creates(h)
                        \/ h.kind \in {"change", "changeDisabled"} /\ Changes(h)
                        \/ h.kind \in {"kcChanged", "metadata", "disabledOx"} /\ Tells(h)
  BY DEF Carrying, CarriesAt, Creates, Changes, Tells
<1>3. Serving(h) => h.kind = "person"
  BY DEF Serving, ServesAt
<1>4. Beside(h) => \/ h.kind \in {"exists", "oxDisabled", "kcDisabled"}
                   \/ h.kind \in {"create", "kcChanged", "metadata"} /\ h.pc = "start"
  BY DEF Beside, BesideKind
<1>5. h.kind = "oxUpdated" \/ Asking(h) \/ Carrying(h) \/ Serving(h) \/ Beside(h)
  BY DEF Local
<1>6. CASE h.kind = "oxUpdated"
  BY <1>6
<1>7. CASE Asking(h)
  BY <1>1, <1>7
<1>8. CASE Carrying(h)
  BY <1>2, <1>8
<1>9. CASE Serving(h)
  BY <1>3, <1>9
<1>10. CASE Beside(h)
  BY <1>4, <1>10
<1> QED
  BY <1>5, <1>6, <1>7, <1>8, <1>9, <1>10

\* A person is there, and has handlers that do more than leave.
LEMMA StaysThere ==
    ASSUME EmailAssumption, EmailTypeInv, Separate, NEW h \in Running, Sound(h.p),
           h.kind \notin Ending \cup {"oxUpdated", "oxDisabled", "kcDisabled"},
           h.kind = "person" => h.pc \notin {"start", "disable"}
    PROVE  kc[h.p] # -1 /\ ~db[h.p].gone /\ Local(h)
<1>1. h.p \in Persons /\ KindOK(h) /\ Ended(h.p) /\ Local(h)
  BY SeparateFacts DEF Separate, Sound
<1>2. kc[h.p] # -1
  BY <1>1 DEF KindOK, LeavingKind
<1> QED
  BY <1>1, <1>2 DEF Ended

\* A handler that asks or carries on has read something.
LEMMA SoundGoesOn ==
    ASSUME EmailAssumption, EmailTypeInv, Separate, NEW h \in Running, Sound(h.p), SameRows, Alone(h),
           h.kind # "oxUpdated", kc[h.p] # -1, NEW g, Become(h, {g}), g.p = h.p, g.kind # "oxUpdated",
           AsksAt(g)' \/ CarriesAt(g)' \/ AsksAt(g) \/ (GroupsShrink /\ CarriesAt(g))
    PROVE  Sound(h.p)'
<1>1. h.p \in Persons
  BY SeparateFacts
<1>2. RowsSound(h.p)' /\ kc'[h.p] # -1
  BY <1>1, RowsSoundKept DEF Sound, SameRows, KcEffect
<1>3. AsksAt(g)' \/ CarriesAt(g)'
  BY <1>1, AsksKept, CarriesKept
<1> QED
  BY <1>2, <1>3, SoundAlone

LEMMA SoundEnds ==
    ASSUME EmailAssumption, EmailTypeInv, Separate, NEW h \in Running, Sound(h.p), SameRows, Alone(h),
           h.kind # "oxUpdated", kc[h.p] # -1, Become(h, {}), ~IsRequested(h.p), IsServed(h.p) <=> Enabled(h.p)
    PROVE  Sound(h.p)'
<1>1. h.p \in Persons
  BY SeparateFacts
<1>2. RowsSound(h.p)' /\ kc'[h.p] # -1
  BY <1>1, RowsSoundKept DEF Sound, SameRows, KcEffect
<1>3. ~IsRequested(h.p)' /\ (IsServed(h.p)' <=> Enabled(h.p)')
  BY <1>1, RowsSame
<1>4. PICK next : next = {}
  OBVIOUS
<1>5. Become(h, next) /\ \A x \in next : FALSE
  BY <1>4
<1> QED
  BY <1>2, <1>3, <1>5, SoundDone

LEMMA SoundBeside ==
    ASSUME EmailAssumption, EmailTypeInv, Separate, NEW h \in Running, Sound(h.p), SameRows, Beside(h), kc[h.p] # -1,
           NEW g, Become(h, {g}), g.p = h.p, BesideKind(g)
    PROVE  Sound(h.p)'
<1>1. PICK next : next = {g}
  OBVIOUS
<1>2. Become(h, next) /\ \A x \in next : x.p = h.p /\ BesideKind(x)
  BY <1>1
<1> QED
  BY <1>2, SoundReads

LEMMA HandleRenamedSound ==
    ASSUME EmailAssumption, EmailTypeInv, Separate, NEW h \in Running, Sound(h.p), HandleRenamed(h)
    PROVE  Sound(h.p)'
<1>1. HandlerOK(h) /\ h.p \in Persons
  BY SeparateFacts
<1>2. h.kind = "renamed" /\ h.pc = "start" /\ UNCHANGED <<db, serving, table, ox, kc, twice>>
  BY <1>1, HandleRenamedDoes
<1>3. kc[h.p] # -1 /\ Local(h) /\ SameRows
  BY <1>2, StaysThere, SameRowsIf DEF Ending
<1>4. Alone(h) /\ ~IsRequested(h.p) /\ RenameStarts(h)
  BY <1>2, <1>3, LocalIs DEF Retires, AsksAgain
<1>5. IsServed(h.p) <=> Enabled(h.p)
  BY <1>4 DEF RenameStarts
<1>6. ASSUME NEW g, Become(h, {g}), Moves(h, g), AsksAt(g) PROVE Sound(h.p)'
  BY <1>2, <1>3, <1>4, <1>6, SoundGoesOn DEF Moves
<1>7. ASSUME NEW i \in WithStatus(h.p, "ENABLED"), NEW g, Become(h, {g}), Moves(h, g), IsServed(h.p),
             g.pc = "retire", g.after = "changed", g.row = [emails[i] EXCEPT !.status = "DISABLED"]
      PROVE  Sound(h.p)'
  <2>1. i \in RowsOf(h.p) /\ i \in DOMAIN emails /\ emails[i].owner = h.p /\ emails[i].status = "ENABLED"
    BY <1>7 DEF WithStatus, RowsOf
  <2>2. emails[i] \in Row /\ emails[i].id = i
    BY <2>1 DEF EmailTypeInv, EmailsOK
  <2>3. g.row.id = i /\ g.row.owner = h.p /\ g.row.address = emails[i].address /\ g.row.status = "DISABLED"
        /\ g.row.ox = emails[i].ox
    BY <1>7, <2>1, <2>2 DEF Row
  <2>4. g.p = h.p /\ g.kind = "renamed" /\ g.seen = h.seen
    BY <1>2, <1>7 DEF Moves
  <2>5. SeenOK(g)
    BY <1>4, <2>1, <2>4 DEF RenameStarts, SeenOK
  <2>6. Copies(g, g.row, "ENABLED")
    BY <1>7, <2>3, <2>4 DEF Copies
  <2>7. Retires(g)
    BY <1>7, <2>3, <2>4, <2>5, <2>6 DEF Retires
  <2> QED
    BY <1>4, <1>6, <1>7, <2>4, <2>7 DEF AsksAt
<1>8. ASSUME NEW g, Become(h, {g}), Moves(h, g), g.pc = "address", ~IsServed(h.p), g.after = "disabled",
             WithStatus(h.p, "DISABLED") # {}
      PROVE  Sound(h.p)'
  <2>1. g.p = h.p /\ g.kind = "renamed" /\ g.seen = h.seen
    BY <1>2, <1>8 DEF Moves
  <2>2. SeenOK(g)
    BY <1>4, <1>8, <2>1 DEF RenameStarts, SeenOK, WithStatus
  <2>3. AsksAgain(g)
    BY <1>5, <1>8, <2>1, <2>2 DEF AsksAgain
  <2> QED
    BY <1>4, <1>6, <1>8, <2>1, <2>3 DEF AsksAt
<1>9. CASE Become(h, {})
  BY <1>2, <1>3, <1>4, <1>5, <1>9, SoundEnds
<1>10. \/ \E i \in WithStatus(h.p, "ENABLED") : \E g :
             /\ Become(h, {g}) /\ Moves(h, g) /\ IsServed(h.p)
             /\ g.pc = "retire" /\ g.after = "changed" /\ g.row = [emails[i] EXCEPT !.status = "DISABLED"]
       \/ \E g : /\ Become(h, {g}) /\ Moves(h, g) /\ g.pc = "address" /\ ~IsServed(h.p) /\ g.after = "disabled"
                 /\ WithStatus(h.p, "DISABLED") # {}
       \/ Become(h, {})
  BY <1>1, <1>5, HandleRenamedDoes DEF IsServed
<1> QED
  BY <1>7, <1>8, <1>9, <1>10

\* The unique key and the foreign key let through what is in the table already.
LEMMA CopyIsFine ==
    ASSUME EmailTypeInv, NEW h, ~db[h.p].gone, NEW row, NEW from, Copies(h, row, from)
    PROVE  ~Violates(row) /\ row.id \in RowsOf(h.p) /\ row.id \in DOMAIN emails /\ row.owner = h.p
<1>1. row.id \in RowsOf(h.p) /\ row.id \in DOMAIN emails /\ row.owner = h.p /\ row.address = emails[row.id].address
  BY DEF Copies, WithStatus, RowsOf
<1>2. \A i \in DOMAIN emails : i # row.id => emails[i].address # row.address
  BY <1>1 DEF EmailTypeInv, EmailsOK
<1> QED
  BY <1>1, <1>2 DEF Violates

\* The rows of h.p are sound after one has been written over by its copy.
LEMMA CopyWritten ==
    ASSUME EmailTypeInv, NEW h, NEW row, NEW from, Copies(h, row, from), Write(row), UNCHANGED kc,
           RowsSound(h.p), kc[h.p] # -1, Users(h.p)' = Users(h.p),
           row.status \in {"ENABLED", "DISABLED", "REQUESTED"}, row.status # "REQUESTED" => TheUser(row.ox, h.p),
           row.status = "ENABLED" => from = "ENABLED" \/ ~Enabled(h.p),
           row.status = "REQUESTED" => from = "REQUESTED" \/ ~IsRequested(h.p)
    PROVE  RowsSound(h.p)'
<1>1. row.id \in RowsOf(h.p) /\ row.owner = h.p /\ row.id \in WithStatus(h.p, from)
  BY DEF Copies, WithStatus
<1>2. /\ DOMAIN emails' = DOMAIN emails /\ emails'[row.id] = row
      /\ \A j \in DOMAIN emails : j # row.id => emails'[j] = emails[j]
      /\ RowsOf(h.p)' = RowsOf(h.p)
      /\ row.status = "ENABLED" => WithStatus(h.p, "ENABLED")' = WithStatus(h.p, "ENABLED") \cup {row.id}
      /\ row.status # "ENABLED" => WithStatus(h.p, "ENABLED")' = WithStatus(h.p, "ENABLED") \ {row.id}
      /\ row.status = "REQUESTED" => WithStatus(h.p, "REQUESTED")' = WithStatus(h.p, "REQUESTED") \cup {row.id}
      /\ row.status # "REQUESTED" => WithStatus(h.p, "REQUESTED")' = WithStatus(h.p, "REQUESTED") \ {row.id}
  BY <1>1, RowReplaced
<1>3. \A j \in RowsOf(h.p) : j # row.id => emails'[j] = emails[j]
  BY <1>2 DEF RowsOf
<1>5. \A i \in RowsOf(h.p) : /\ emails'[i].status # "FAILED"
                             /\ emails'[i].status # "REQUESTED" => TheUser(emails'[i].ox, h.p)
  BY <1>2, <1>3 DEF RowsSound
<1>6. \A i, j \in WithStatus(h.p, "ENABLED")' : i = j
  BY <1>1, <1>2 DEF RowsSound, Enabled
<1>7. \A i, j \in WithStatus(h.p, "REQUESTED")' : i = j
  BY <1>1, <1>2 DEF RowsSound, IsRequested
<1> QED
  BY <1>1, <1>2, <1>5, <1>6, <1>7 DEF RowsSound, TheUser

LEMMA RetireSound ==
    ASSUME EmailAssumption, EmailTypeInv, Separate, NEW h \in Running, Sound(h.p), Retire(h)
    PROVE  Sound(h.p)'
<1>1. HandlerOK(h) /\ h.p \in Persons
  BY SeparateFacts
<1>2. h.kind = "renamed" /\ h.pc = "retire" /\ UNCHANGED <<db, serving, ox, kc>>
  BY DEF Retire, Outside, OxData
<1>3. kc[h.p] # -1 /\ ~db[h.p].gone /\ Local(h)
  BY <1>2, StaysThere DEF Ending
<1>4. Alone(h) /\ ~IsRequested(h.p) /\ Retires(h)
  BY <1>2, <1>3, LocalIs DEF RenameStarts, AsksAgain
<1>5. Copies(h, h.row, "ENABLED") /\ h.row.status = "DISABLED" /\ h.row.ox = emails[h.row.id].ox
      /\ IsServed(h.p) /\ SeenOK(h) /\ h.after = "changed"
  BY <1>4 DEF Retires
<1>6. ~Violates(h.row) /\ h.row.id \in RowsOf(h.p) /\ h.row.owner = h.p /\ emails[h.row.id].status = "ENABLED"
  BY <1>3, <1>5, CopyIsFine DEF Copies, WithStatus
<1>7. PICK g : g = [h EXCEPT !.pc = "address", !.row = NoRow]
  OBVIOUS
<1>8. g.p = h.p /\ g.kind = "renamed" /\ g.seen = h.seen /\ g.pc = "address" /\ g.after = "changed"
  BY <1>1, <1>2, <1>5, <1>7 DEF HandlerOK, Fields
<1>9. Write(h.row) /\ Become(h, {g})
  BY <1>6, <1>7 DEF Retire
<1>10. /\ DOMAIN emails' = DOMAIN emails /\ emails'[h.row.id] = h.row
       /\ \A j \in DOMAIN emails : j # h.row.id => emails'[j] = emails[j]
       /\ WithStatus(h.p, "ENABLED")' = WithStatus(h.p, "ENABLED") \ {h.row.id}
       /\ WithStatus(h.p, "REQUESTED")' = WithStatus(h.p, "REQUESTED") \ {h.row.id}
  <2>1. PICK row : row = h.row
    OBVIOUS
  <2>2. row.id \in RowsOf(h.p) /\ row.owner = h.p /\ Write(row) /\ row.status = "DISABLED"
    BY <1>5, <1>6, <1>9, <2>1
  <2>3. /\ DOMAIN emails' = DOMAIN emails /\ emails'[row.id] = row
        /\ \A j \in DOMAIN emails : j # row.id => emails'[j] = emails[j]
        /\ WithStatus(h.p, "ENABLED")' = WithStatus(h.p, "ENABLED") \ {row.id}
        /\ WithStatus(h.p, "REQUESTED")' = WithStatus(h.p, "REQUESTED") \ {row.id}
    BY <2>2, RowReplaced
  <2> QED
    BY <2>1, <2>3
<1>11. RowsSound(h.p)
  BY DEF Sound
<1>12. TheUser(h.row.ox, h.p)
  BY <1>3, <1>5, <1>6, <1>11 DEF RowsSound
<1>13. Users(h.p)' = Users(h.p)
  BY <1>2 DEF Users
<1>14. RowsSound(h.p)'
  BY <1>2, <1>3, <1>5, <1>9, <1>11, <1>12, <1>13, CopyWritten
<1>15. ~Enabled(h.p)' /\ ~IsRequested(h.p)'
  <2>1. h.row.id \in WithStatus(h.p, "ENABLED")
    BY <1>5 DEF Copies
  <2> QED
    BY <2>1, <1>4, <1>5, <1>10, <1>11 DEF RowsSound, Enabled, IsRequested
<1>16. SeenOK(g)'
  BY <1>1, <1>5, <1>6, <1>8, <1>10 DEF SeenOK
<1>17. IsServed(h.p)'
  BY <1>2, <1>5 DEF IsServed, ServingOf
<1>18. AsksAt(g)'
  BY <1>8, <1>15, <1>16, <1>17 DEF AsksAt, AsksAgain
<1> QED
  BY <1>2, <1>3, <1>4, <1>8, <1>9, <1>14, <1>18, SoundAlone

LEMMA ChooseAddressSound ==
    ASSUME EmailAssumption, EmailTypeInv, Separate, failures' = 0, NEW h \in Running, Sound(h.p), ChooseAddress(h)
    PROVE  Sound(h.p)'
<1>1. HandlerOK(h) /\ h.p \in Persons /\ PcOK(h) /\ DbOK /\ EmailsOK
  BY SeparateFacts DEF EmailTypeInv
<1>2. h.kind \in {"person", "renamed"} /\ h.pc = "address"
  BY <1>1 DEF ChooseAddress, PcOK
<1>3. kc[h.p] # -1 /\ ~db[h.p].gone /\ Local(h)
  BY <1>2, StaysThere DEF Ending
<1>4. Alone(h) /\ ~IsRequested(h.p) /\ (AsksFirst(h) \/ AsksAgain(h))
  BY <1>2, <1>3, LocalIs DEF RenameStarts, Retires, Serving, ServesAt, AtSchool, Enables
<1>5. PICK row : row = NewRow(h.p, FreeAddress(db[h.p].name), "REQUESTED")
  OBVIOUS
<1>6. row.id = New /\ row.owner = h.p /\ row.status = "REQUESTED" /\ row.address = FreeAddress(db[h.p].name)
  BY <1>5 DEF NewRow
<1>7. \A i \in DOMAIN emails : emails[i].address # row.address
  <2>1. db[h.p].name \in Nat \ {0}
    BY <1>1 DEF DbOK
  <2> QED
    BY <2>1, <1>1, <1>6, FreeAddressIsFree
<1>8. PICK g : g = [h EXCEPT !.pc = "check", !.row = row]
  OBVIOUS
<1>9. g.p = h.p /\ g.kind = h.kind /\ g.seen = h.seen /\ g.pc = "check" /\ g.row = row /\ g.after = h.after
      /\ g.todo = h.todo
  BY <1>1, <1>8 DEF HandlerOK, Fields
<1>10. ~Trouble
  BY NoTrouble
<1>11. Become(h, {g}) /\ UNCHANGED table
  BY <1>3, <1>5, <1>8, <1>10 DEF ChooseAddress
<1>12. SameRows
  BY <1>11, SameRowsIf DEF ChooseAddress, Outside, OxData
<1>13. Unused(g)
  BY <1>6, <1>7, <1>9 DEF Unused
<1>14. AsksAt(g)
  <2>1. CASE AsksFirst(h)
    BY <2>1, <1>4, <1>9, <1>13 DEF AsksFirst, AsksAt
  <2>2. CASE AsksAgain(h)
    BY <2>2, <1>4, <1>9, <1>13 DEF AsksAgain, AsksAt, SeenOK
  <2> QED
    BY <2>1, <2>2, <1>4
<1> QED
  BY <1>2, <1>3, <1>4, <1>9, <1>11, <1>12, <1>14, SoundGoesOn

\* A new row is written, and its event tells of it.
LEMMA RequestSaved ==
    ASSUME EmailAssumption, EmailTypeInv, Separate, NEW h \in Running, Sound(h.p), kc[h.p] # -1, ~db[h.p].gone,
           Alone(h), ~IsRequested(h.p), AsksFirst(h) \/ AsksAgain(h), h.pc = "write", Save(h)
    PROVE  Sound(h.p)'
<1>1. HandlerOK(h) /\ h.p \in Persons /\ h.kind \in {"person", "renamed"} /\ h.todo = {}
  <2>1. HandlerOK(h) /\ h.p \in Persons
    BY SeparateFacts
  <2> QED
    BY <2>1 DEF AsksFirst, AsksAgain, HandlerOK, Listing
<1>2. UNCHANGED <<db, serving, ox, oxGroups, kc, twice>> /\ WithRow(h)
  BY <1>1, SaveDoes
<1>3. Unused(h)
  BY DEF AsksFirst, AsksAgain
<1>4. RowOK(h.row) /\ h.row.id = New /\ h.row.status = "REQUESTED" /\ h.row.owner = h.p /\ ~Violates(h.row)
  BY <1>1, <1>2, <1>3 DEF HandlerOK, Unused, Violates
<1>5. Write(h.row) /\ Become(h, NextSchool(h) \cup Published(h))
  BY <1>1, <1>4, SaveDoes
<1>15. PICK row : row = h.row
  OBVIOUS
<1>16. RowOK(row) /\ row.id = New /\ row.owner = h.p /\ Write(row) /\ row.status = "REQUESTED"
  BY <1>4, <1>5, <1>15
<1>6. PICK i : /\ i \notin DOMAIN emails /\ DOMAIN emails' = DOMAIN emails \cup {i}
               /\ \A j \in DOMAIN emails : emails'[j] = emails[j]
               /\ RowsOf(h.p)' = RowsOf(h.p) \cup {i} /\ emails'[i].status = "REQUESTED"
               /\ WithStatus(h.p, "REQUESTED")' = WithStatus(h.p, "REQUESTED") \cup {i}
               /\ WithStatus(h.p, "ENABLED")' = WithStatus(h.p, "ENABLED")
  BY <1>16, RowAdded
<1>7. RowsSound(h.p)
  BY DEF Sound
<1>8. Users(h.p)' = Users(h.p)
  BY <1>2 DEF Users
<1>9. RowsSound(h.p)'
  <2>1. \A j \in RowsOf(h.p) : emails'[j] = emails[j]
    BY <1>6 DEF RowsOf
  <2>2. WithStatus(h.p, "REQUESTED") = {}
    BY DEF IsRequested
  <2>3. \A x, y \in WithStatus(h.p, "REQUESTED")' : x = y
    BY <2>2, <1>6
  <2>4. \A x, y \in WithStatus(h.p, "ENABLED")' : x = y
    BY <1>6, <1>7 DEF RowsSound
  <2>5. \A x \in RowsOf(h.p)' : /\ emails'[x].status # "FAILED"
                                /\ emails'[x].status # "REQUESTED" => TheUser(emails'[x].ox, h.p)
    BY <2>1, <1>6, <1>7 DEF RowsSound
  <2> QED
    BY <2>3, <2>4, <2>5, <1>2, <1>6, <1>8 DEF RowsSound, TheUser
<1>10. IsRequested(h.p)' /\ (Enabled(h.p)' <=> Enabled(h.p)) /\ (IsServed(h.p)' <=> IsServed(h.p))
  BY <1>2, <1>6 DEF IsRequested, Enabled, IsServed, ServingOf
<1>11. NextSchool(h) = {}
  BY <1>1, NextSchoolIs
<1>12. CASE AsksFirst(h)
  <2>1. PICK g : g = Sub(h, "create")
    OBVIOUS
  <2>2. g.kind = "create" /\ g.p = h.p /\ g.pc = "start"
    BY <2>1, <1>1 DEF Sub, Handler
  <2>3. Published(h) = {g}
    BY <2>1, <1>12, PublishedIs DEF AsksFirst
  <2>4. Become(h, {g})
    BY <2>3, <1>5, <1>11
  <2>5. RowsOf(h.p) = {} /\ IsServed(h.p) /\ WithStatus(h.p, "ENABLED") = {}
    BY <1>12 DEF AsksFirst, WithStatus
  <2>6. Users(h.p)' = {} /\ RowsOf(h.p)' = WithStatus(h.p, "REQUESTED")' /\ ~Enabled(h.p)'
    BY <2>5, <1>6, <1>7, <1>8, <1>10 DEF RowsSound, WithStatus, Enabled
  <2>7. CarriesAt(g)'
    BY <2>2, <2>5, <2>6, <1>10 DEF CarriesAt, Creates
  <2> QED
    BY <2>2, <2>4, <2>7, <1>1, <1>2, <1>9, SoundAlone
<1>13. CASE AsksAgain(h)
  <2>1. PICK g : g = Sub(h, IF IsServed(h.p) THEN "change" ELSE "changeDisabled")
    OBVIOUS
  <2>2. g.kind = (IF IsServed(h.p) THEN "change" ELSE "changeDisabled") /\ g.p = h.p /\ g.pc = "start" /\ g.seen = h.seen
    BY <2>1, <1>1 DEF Sub, Handler
  <2>3. Published(h) = {g}
    <3>1. h.after = IF IsServed(h.p) THEN "changed" ELSE "disabled"
      BY <1>13 DEF AsksAgain
    <3> QED
      BY <3>1, <2>1, PublishedIs
  <2>4. Become(h, {g})
    BY <2>3, <1>5, <1>11
  <2>5. SeenOK(h) /\ ~Enabled(h.p)
    BY <1>13 DEF AsksAgain
  <2>6. SeenOK(g)'
    BY <2>2, <2>5, <1>6 DEF SeenOK
  <2>7. CarriesAt(g)'
    BY <2>2, <2>5, <2>6, <1>10 DEF CarriesAt, Changes
  <2> QED
    BY <2>2, <2>4, <2>7, <1>1, <1>2, <1>9, SoundAlone
<1> QED
  BY <1>12, <1>13

\* The rows that were loaded are the first ones, and tell of the person's user.
LEMMA SeenUser ==
    ASSUME EmailAssumption, EmailTypeInv, Separate, NEW h \in Running, SeenOK(h), RowsSound(h.p), kc[h.p] # -1,
           NEW ids \in Collections(h)
    PROVE  TheUser(OxUserId(h, ids), h.p) /\ OxUserId(h, ids) # 0
<1>1. HandlerOK(h) /\ EmailsOK /\ OxOK
  BY SeparateFacts DEF EmailTypeInv
<1>2. ids \subseteq DOMAIN emails /\ DOMAIN h.seen \subseteq ids
  BY <1>1, CollectionsAreRows DEF Collections
<1> DEFINE good == {i \in ids : emails[i].status # "FAILED"}
<1>3. PICK j : j \in DOMAIN h.seen
  BY DEF SeenOK
<1>4. j \in good /\ good \subseteq DOMAIN emails
  BY <1>2, <1>3 DEF SeenOK
<1>5. First(h, good) \in good /\ Place(h, First(h, good)) <= Place(h, j)
  BY <1>1, <1>4, FirstIsMember
<1>6. OxUserId(h, ids) = emails[First(h, good)].ox
  BY <1>4 DEF OxUserId
<1> HIDE DEF good
<1>7. PICK i : i = First(h, good)
  OBVIOUS
<1>8. i \in DOMAIN emails /\ Place(h, i) <= Place(h, j) /\ emails \in Seq(Row)
  BY <1>1, <1>4, <1>5, <1>7 DEF EmailsOK
<1>9. i \in DOMAIN h.seen
  <2>1. h.seen[j] \in Nat /\ h.seen[j] > 0
    BY <1>1, <1>3 DEF HandlerOK, SeenOK
  <2>2. Place(h, j) = -h.seen[j]
    BY <1>3 DEF Place
  <2>3. i \in Nat
    BY <1>8
  <2>4. i \notin DOMAIN h.seen => Place(h, i) = i
    BY DEF Place
  <2> QED
    BY <2>1, <2>2, <2>3, <2>4, <1>8
<1>10. i \in RowsOf(h.p) /\ emails[i].status # "REQUESTED"
  BY <1>9 DEF SeenOK, RowsOf
<1>11. TheUser(emails[i].ox, h.p)
  BY <1>10 DEF RowsSound
<1>12. 0 \notin DOMAIN ox
  BY <1>1 DEF OxOK
<1>13. emails[i].ox # 0
  BY <1>11, <1>12 DEF TheUser, Users
<1> QED
  BY <1>6, <1>7, <1>11, <1>13

LEMMA FindRequestedSound ==
    ASSUME EmailAssumption, EmailTypeInv, Separate, NEW h \in Running, Sound(h.p), FindRequested(h)
    PROVE  Sound(h.p)'
<1>1. HandlerOK(h) /\ h.p \in Persons
  BY SeparateFacts
<1>2. h.kind \in {"create", "change", "changeDisabled"} /\ h.pc = "start"
      /\ UNCHANGED <<db, serving, table, ox, oxGroups, kc, twice>>
  BY <1>1, FindRequestedDoes
<1>3. kc[h.p] # -1 /\ ~db[h.p].gone /\ Local(h) /\ SameRows /\ RowsSound(h.p)
  BY <1>2, StaysThere, SameRowsIf DEF Ending, Sound
<1>4. CASE Beside(h)
  <2>1. ~IsRequested(h.p)
    BY <1>4 DEF Beside
  <2>2. Become(h, {})
    BY <2>1, <1>1, FindRequestedDoes
  <2> QED
    BY <2>2, <1>3, <1>4, EndRead
<1>5. CASE ~Beside(h)
  <2>1. Alone(h) /\ CarriesAt(h) /\ (h.kind = "create" => Creates(h)) /\ (h.kind # "create" => Changes(h))
    BY <1>2, <1>3, <1>5, LocalIs
  <2>2. IsRequested(h.p) /\ ~Enabled(h.p)
    BY <2>1 DEF CarriesAt
  <2>3. h.kind # "create" => SeenOK(h)
    BY <2>1, <1>2 DEF Changes
  <2>4. PICK ids \in Collections(h) :
           \/ /\ IsRequested(h.p) /\ (h.kind = "create" \/ OxUserId(h, ids) # 0)
              /\ \E g : /\ Become(h, {g}) /\ g.kind = h.kind /\ g.p = h.p
                        /\ g.pc = (IF h.kind = "create" THEN "exists" ELSE "user")
                        /\ g.row = Requested(h.p) /\ g.user = db[h.p].name
                        /\ g.ox = IF h.kind = "create" THEN 0 ELSE OxUserId(h, ids)
           \/ /\ db[h.p].gone \/ ~IsRequested(h.p) \/ (h.kind # "create" /\ OxUserId(h, ids) = 0)
              /\ Become(h, {})
    BY <1>1, FindRequestedDoes
  <2>5. h.kind # "create" => TheUser(OxUserId(h, ids), h.p) /\ OxUserId(h, ids) # 0
    BY <2>3, <1>3, SeenUser
  <2>6. PICK g : /\ Become(h, {g}) /\ g.kind = h.kind /\ g.p = h.p
                 /\ g.pc = (IF h.kind = "create" THEN "exists" ELSE "user")
                 /\ g.row = Requested(h.p) /\ g.user = db[h.p].name
                 /\ g.ox = IF h.kind = "create" THEN 0 ELSE OxUserId(h, ids)
    BY <2>2, <2>4, <2>5, <1>3
  <2>7. PICK i \in WithStatus(h.p, "REQUESTED") :
              /\ Requested(h.p) = emails[i] /\ emails[i].id = i /\ emails[i].owner = h.p /\ emails[i].status = "REQUESTED"
    BY <2>2, <1>1, RequestedIs
  <2>8. Copies(g, g.row, "REQUESTED") /\ g.row.status = "REQUESTED" /\ Named(g)
    BY <2>6, <2>7 DEF Copies, Named
  <2>9. CASE h.kind = "create"
    <3>1. Creates(g)
      BY <2>1, <2>6, <2>8, <2>9, <1>2 DEF Creates
    <3>2. AsksAt(g)' \/ CarriesAt(g)' \/ AsksAt(g) \/ (GroupsShrink /\ CarriesAt(g))
      BY <3>1, <2>1, <2>6, <1>2 DEF CarriesAt, GroupsShrink
    <3> QED
      BY <3>2, <2>1, <2>6, <2>9, <1>3, SoundGoesOn
  <2>10. CASE h.kind # "create"
    <3>1. TheUser(g.ox, g.p) /\ g.pc = "user" /\ g.kind \in {"change", "changeDisabled"}
      BY <2>5, <2>6, <2>10, <1>2
    <3>2. Changes(g)
      BY <3>1, <2>8 DEF Changes
    <3>3. AsksAt(g)' \/ CarriesAt(g)' \/ AsksAt(g) \/ (GroupsShrink /\ CarriesAt(g))
      BY <3>2, <2>1, <2>6, <1>2 DEF CarriesAt, GroupsShrink
    <3> QED
      BY <3>1, <3>3, <2>1, <2>6, <1>2, <1>3, SoundGoesOn
  <2> QED
    BY <2>9, <2>10
<1> QED
  BY <1>4, <1>5

LEMMA ExistsUserSound ==
    ASSUME EmailAssumption, EmailTypeInv, Separate, failures' = 0, NEW h \in Running, Sound(h.p), ExistsUser(h)
    PROVE  Sound(h.p)'
<1>1. HandlerOK(h) /\ h.p \in Persons
  BY SeparateFacts
<1>2. h.kind = "create" /\ h.pc = "exists" /\ UNCHANGED <<db, serving, table, ox, oxGroups, kc, twice>>
  BY <1>1, ExistsUserDoes
<1>3. kc[h.p] # -1 /\ Local(h) /\ SameRows
  BY <1>2, StaysThere, SameRowsIf DEF Ending
<1>4. Alone(h) /\ CarriesAt(h) /\ Creates(h)
  BY <1>2, <1>3, LocalIs
<1>5. Users(h.p) = {} /\ Named(h) /\ Copies(h, h.row, "REQUESTED") /\ h.row.status = "REQUESTED"
  BY <1>2, <1>4 DEF Creates
<1>6. ~Taken(<<h.p, h.user>>)
  BY <1>5 DEF Taken, Users
<1>7. PICK g : Become(h, {g}) /\ Stays(h, g) /\ g.pc = "user"
  BY <1>1, <1>6, ExistsUserDoes
<1>8. g.kind = h.kind /\ g.p = h.p /\ g.row = h.row /\ g.user = h.user
  BY <1>7 DEF Stays, Moves
<1>9. Creates(g)
  BY <1>4, <1>5, <1>7, <1>8 DEF Creates, Named, Copies
<1>10. AsksAt(g)' \/ CarriesAt(g)' \/ AsksAt(g) \/ (GroupsShrink /\ CarriesAt(g))
  BY <1>2, <1>4, <1>8, <1>9 DEF CarriesAt, GroupsShrink
<1> QED
  BY <1>2, <1>3, <1>4, <1>7, <1>8, <1>10, SoundGoesOn

LEMMA CreateUserSound ==
    ASSUME EmailAssumption, EmailTypeInv, Separate, failures' = 0, NEW h \in Running, Sound(h.p), CreateUser(h)
    PROVE  Sound(h.p)'
<1>1. HandlerOK(h) /\ h.p \in Persons
  BY SeparateFacts
<1>2. h.kind = "create" /\ h.pc = "user" /\ UNCHANGED <<db, serving, emails, oxGroups, kc>> /\ WithRow(h)
  BY <1>1, CreateUserDoes DEF table
<1>3. kc[h.p] # -1 /\ Local(h)
  BY <1>2, StaysThere DEF Ending
<1>4. Alone(h) /\ CarriesAt(h) /\ Creates(h)
  BY <1>2, <1>3, LocalIs
<1>5. Users(h.p) = {} /\ Named(h) /\ Copies(h, h.row, "REQUESTED") /\ h.row.status = "REQUESTED"
  BY <1>2, <1>4 DEF Creates
<1>6. ~Taken(<<h.p, h.user>>)
  BY <1>5 DEF Taken, Users
<1>7. PICK n : n = Len(ox) + 1
  OBVIOUS
<1>8. /\ DOMAIN ox' = DOMAIN ox \cup {n} /\ \A m \in DOMAIN ox : ox'[m] = ox[m]
      /\ ox'[n].username = <<h.p, h.user>> /\ ox'[n].groups = {}
      /\ \E g : /\ Become(h, {g}) /\ g.kind = h.kind /\ g.p = h.p /\ g.user = h.user
                /\ g.pc = "check" /\ g.ox = n /\ g.row = [h.row EXCEPT !.ox = n]
  BY <1>1, <1>6, <1>7, CreateUserDoes
<1>9. PICK g : /\ Become(h, {g}) /\ g.kind = h.kind /\ g.p = h.p /\ g.user = h.user
               /\ g.pc = "check" /\ g.ox = n /\ g.row = [h.row EXCEPT !.ox = n]
  BY <1>8
<1>10. n \notin DOMAIN ox
  <2>1. ox \in Seq(OxUser)
    BY DEF EmailTypeInv, OxOK
  <2> QED
    BY <2>1, <1>7
<1>11. Users(h.p)' = {n}
  BY <1>5, <1>8, <1>10 DEF Users
<1>12. h.row \in Row
  BY <1>1, <1>2 DEF HandlerOK, RowOK
<1>13. g.row.id = h.row.id /\ g.row.owner = h.row.owner /\ g.row.address = h.row.address /\ g.row.status = h.row.status
  BY <1>9, <1>12 DEF Row
<1>14. \A s : WithStatus(h.p, s)' = WithStatus(h.p, s)
  BY <1>2 DEF WithStatus, RowsOf
<1>15. RowsOf(h.p)' = RowsOf(h.p)
  BY <1>2 DEF RowsOf
<1>16. Copies(g, g.row, "REQUESTED")'
  BY <1>2, <1>5, <1>9, <1>13, <1>14 DEF Copies
<1>17. RowsOf(h.p) = WithStatus(h.p, "REQUESTED") /\ IsRequested(h.p) /\ ~Enabled(h.p) /\ IsServed(h.p)
  BY <1>2, <1>4 DEF CarriesAt, Creates
<1>18. Creates(g)'
  BY <1>2, <1>5, <1>8, <1>9, <1>11, <1>13, <1>14, <1>15, <1>16, <1>17 DEF Creates, TheUser, Named
<1>19. CarriesAt(g)'
  BY <1>2, <1>9, <1>14, <1>17, <1>18 DEF CarriesAt, IsRequested, Enabled, IsServed, ServingOf
<1>20. RowsSound(h.p)'
  <2>1. RowsSound(h.p)
    BY DEF Sound
  <2>2. \A i \in RowsOf(h.p) : emails[i].status = "REQUESTED"
    BY <1>17 DEF WithStatus
  <2>3. RowsOf(h.p) # {}
    BY <1>17 DEF IsRequested
  <2> QED
    BY <2>1, <2>2, <2>3, <1>2, <1>3, <1>14, <1>15 DEF RowsSound
<1> QED
  BY <1>2, <1>3, <1>4, <1>9, <1>19, <1>20, SoundAlone

LEMMA ChangeUserSound ==
    ASSUME EmailAssumption, EmailTypeInv, Separate, failures' = 0, NEW h \in Running, Sound(h.p), ChangeUser(h)
    PROVE  Sound(h.p)'
<1>1. HandlerOK(h) /\ h.p \in Persons
  BY SeparateFacts
<1>2. h.kind \in {"change", "changeDisabled"} /\ h.pc = "user" /\ UNCHANGED <<db, serving, emails, oxGroups, kc>>
  BY <1>1, ChangeUserDoes DEF table
<1>3. kc[h.p] # -1 /\ Local(h)
  BY <1>2, StaysThere DEF Ending
<1>4. Alone(h) /\ CarriesAt(h) /\ Changes(h)
  BY <1>2, <1>3, LocalIs
<1>5. Users(h.p) = {h.ox} /\ Named(h) /\ Copies(h, h.row, "REQUESTED") /\ h.row.status = "REQUESTED"
  BY <1>2, <1>4 DEF Changes, TheUser
<1>6. h.ox \in DOMAIN ox
  BY <1>5 DEF Users
<1>7. ~\E i \in DOMAIN ox \ {h.ox} : ox[i].username = <<h.p, h.user>>
  BY <1>5 DEF Users
<1>8. /\ DOMAIN ox' = DOMAIN ox /\ \A n \in DOMAIN ox : n # h.ox => ox'[n] = ox[n]
      /\ ox'[h.ox].username = <<h.p, h.user>>
      /\ \E g : /\ Become(h, {g}) /\ g.kind = (IF h.kind = "change" THEN "kcChanged" ELSE "disabledOx")
                /\ g.p = h.p /\ g.pc = "start" /\ g.user = h.user /\ g.ox = h.ox
                /\ g.mail = h.row.address /\ g.after = ""
  BY <1>1, <1>6, <1>7, ChangeUserDoes
<1>9. PICK g : /\ Become(h, {g}) /\ g.kind = (IF h.kind = "change" THEN "kcChanged" ELSE "disabledOx")
               /\ g.p = h.p /\ g.pc = "start" /\ g.user = h.user /\ g.ox = h.ox
               /\ g.mail = h.row.address /\ g.after = ""
  BY <1>8
<1>10. Users(h.p)' = {h.ox}
  <2>1. ox'[h.ox].username[1] = h.p
    <3>1. PICK name : name = <<h.p, h.user>>
      OBVIOUS
    <3>2. name[1] = h.p
      BY <3>1
    <3>3. ox'[h.ox].username = name
      BY <3>1, <1>8
    <3> QED
      BY <3>2, <3>3
  <2>2. \A n \in DOMAIN ox : n # h.ox => ox'[n].username[1] # h.p
    BY <1>5, <1>8 DEF Users
  <2> QED
    BY <2>1, <2>2, <1>6, <1>8 DEF Users
<1>11. \A s : WithStatus(h.p, s)' = WithStatus(h.p, s)
  BY <1>2 DEF WithStatus, RowsOf
<1>12. RowsOf(h.p)' = RowsOf(h.p)
  BY <1>2 DEF RowsOf
<1>13. h.row.id \in WithStatus(h.p, "REQUESTED") /\ g.mail = emails[h.row.id].address
  BY <1>5, <1>9 DEF Copies
<1>14. Tells(g)'
  BY <1>2, <1>5, <1>9, <1>10, <1>11, <1>13 DEF Tells, TheUser, Named
<1>15. CarriesAt(g)'
  BY <1>2, <1>4, <1>9, <1>11, <1>14 DEF CarriesAt, IsRequested, Enabled, IsServed, ServingOf
<1>16. RowsSound(h.p)'
  BY <1>2, <1>5, <1>10, <1>11, <1>12 DEF Sound, RowsSound, TheUser, IsRequested
<1> QED
  BY <1>2, <1>3, <1>4, <1>9, <1>15, <1>16, SoundAlone

\* The groups: of a user who is new, or beside.
LEMMA GroupsSound ==
    ASSUME EmailAssumption, EmailTypeInv, Separate, failures' = 0, NEW h \in Running, Sound(h.p),
           FindGroup(h) \/ CreateGroup(h) \/ AddMember(h)
    PROVE  Sound(h.p)'
<1>1. HandlerOK(h) /\ h.p \in Persons
  BY SeparateFacts
<1>2. h.kind \in {"create", "exists"} /\ h.pc \in {"group", "createGroup", "add"} /\ SameRows
  <2>1. CASE FindGroup(h)
    BY <2>1, <1>1, FindGroupDoes, SameRowsIf
  <2>2. CASE CreateGroup(h)
    BY <2>2, <1>1, CreateGroupDoes, SameRowsIf
  <2>3. CASE AddMember(h)
    BY <2>3, <1>1, AddMemberDoes, SameRowsIf
  <2> QED
    BY <2>1, <2>2, <2>3
<1>3. kc[h.p] # -1 /\ ~db[h.p].gone /\ Local(h)
  BY <1>2, StaysThere DEF Ending
<1>4. CASE h.kind = "exists"
  <2>1. Beside(h)
    BY <1>3, <1>4 DEF Local, Asking, Carrying, Serving, AsksAt, CarriesAt, ServesAt, RenameStarts, Retires, AsksFirst,
                      AsksAgain, Creates, Changes, Tells
  <2>2. Become(h, {}) \/ \E g : Become(h, {g}) /\ g.p = h.p /\ (g.kind = "exists" \/ (g.kind = "kcChanged" /\ g.pc = "start"))
    <3>1. CASE FindGroup(h)
      <4>1. PICK g : Become(h, {g}) /\ Stays(h, g)
        BY <3>1, <1>1, FindGroupDoes
      <4> QED
        BY <4>1, <1>4 DEF Stays, Moves
    <3>2. CASE CreateGroup(h)
      BY <3>2, <1>1, <1>4, CreateGroupDoes DEF Stays, Moves
    <3>3. CASE AddMember(h)
      BY <3>3, <1>1, <1>4, AddMemberDoes DEF Stays, Moves
    <3> QED
      BY <3>1, <3>2, <3>3
  <2>3. CASE Become(h, {})
    BY <2>1, <2>3, <1>2, <1>3, EndRead
  <2>4. ASSUME NEW g, Become(h, {g}), g.p = h.p, g.kind = "exists" \/ (g.kind = "kcChanged" /\ g.pc = "start")
        PROVE  Sound(h.p)'
    <3>1. BesideKind(g)
      BY <2>4 DEF BesideKind
    <3> QED
      BY <3>1, <2>1, <2>4, <1>2, <1>3, SoundBeside
  <2> QED
    BY <2>2, <2>3, <2>4
<1>5. CASE h.kind = "create"
  <2>1. Alone(h) /\ CarriesAt(h) /\ Creates(h)
    BY <1>2, <1>3, <1>5, LocalIs
  <2>2. Named(h) /\ TheUser(h.ox, h.p) /\ ox[h.ox].groups = {} /\ Copies(h, h.row, "REQUESTED")
        /\ h.row.status = "REQUESTED" /\ (h.pc = "createGroup" => h.school \notin oxGroups)
        /\ RowsOf(h.p) = WithStatus(h.p, "REQUESTED")
    BY <2>1, <1>2 DEF Creates
  <2>3. CASE FindGroup(h)
    <3>1. PICK g : Become(h, {g}) /\ Stays(h, g) /\ (g.pc = "add" \/ (g.pc = "createGroup" /\ h.school \notin oxGroups))
      BY <2>3, <1>1, FindGroupDoes
    <3>2. g.kind = h.kind /\ g.p = h.p /\ g.row = h.row /\ g.user = h.user /\ g.ox = h.ox /\ g.school = h.school
      BY <3>1 DEF Stays, Moves
    <3>3. UNCHANGED <<ox, oxGroups>>
      BY <2>3, <1>1, FindGroupDoes
    <3>4. Creates(g)
      BY <3>1, <3>2, <2>2, <1>5 DEF Creates, Named, Copies
    <3>5. CarriesAt(g) /\ GroupsShrink
      BY <3>2, <3>3, <3>4, <2>1, <1>5 DEF CarriesAt, GroupsShrink
    <3> QED
      BY <3>1, <3>2, <3>5, <2>1, <1>2, <1>3, <1>5, SoundGoesOn
  <2>4. CASE CreateGroup(h)
    <3>1. h.school \notin oxGroups /\ UNCHANGED ox
      BY <2>2, <2>4, <1>1, CreateGroupDoes
    <3>2. PICK g : Become(h, {g}) /\ Stays(h, g) /\ g.pc = "add"
      BY <3>1, <2>4, <1>1, <1>5, CreateGroupDoes
    <3>3. g.kind = h.kind /\ g.p = h.p /\ g.row = h.row /\ g.user = h.user /\ g.ox = h.ox /\ g.school = h.school
      BY <3>2 DEF Stays, Moves
    <3>4. Named(h)' /\ TheUser(h.ox, h.p)' /\ ox'[h.ox].groups = {} /\ Copies(h, h.row, "REQUESTED")'
          /\ RowsOf(h.p)' = WithStatus(h.p, "REQUESTED")'
      BY <3>1, <2>2, <1>1, <1>2, CopiesKept, RowsSame
    <3>5. Creates(g)'
      BY <3>2, <3>3, <3>4, <2>2, <1>5 DEF Creates, Named, Copies
    <3>6. IsRequested(h.p)' /\ ~Enabled(h.p)' /\ IsServed(h.p)'
      BY <2>1, <1>1, <1>2, <1>5, RowsSame DEF CarriesAt
    <3>7. CarriesAt(g)'
      BY <3>3, <3>5, <3>6, <1>5 DEF CarriesAt
    <3> QED
      BY <3>2, <3>3, <3>7, <2>1, <1>2, <1>3, <1>5, SoundGoesOn
  <2>5. CASE AddMember(h)
    <3>1. PICK g : /\ Become(h, {g}) /\ g.kind = "kcChanged" /\ g.p = h.p /\ g.pc = "start" /\ g.user = h.user
                   /\ g.ox = h.ox /\ g.after = "" /\ g.mail = h.row.address
      <4>1. h.school \notin ox[h.ox].groups
        BY <2>2
      <4> QED
        BY <4>1, <2>5, <1>1, <1>5, AddMemberDoes
    <3>2. h.row.id \in WithStatus(h.p, "REQUESTED") /\ g.mail = emails[h.row.id].address
      BY <3>1, <2>2 DEF Copies
    <3>3. UNCHANGED <<db, emails>>
      BY <1>2 DEF SameRows
    <3>4. TheUser(h.ox, h.p)' /\ WithStatus(h.p, "REQUESTED")' = WithStatus(h.p, "REQUESTED")
      BY <2>2, <1>1, <1>2, RowsSame
    <3>5. Tells(g)'
      BY <3>1, <3>2, <3>3, <3>4, <2>2 DEF Tells, Named
    <3>6. IsRequested(h.p)' /\ ~Enabled(h.p)' /\ IsServed(h.p)'
      BY <2>1, <1>1, <1>2, <1>5, RowsSame DEF CarriesAt
    <3>7. CarriesAt(g)'
      BY <3>1, <3>5, <3>6 DEF CarriesAt
    <3> QED
      BY <3>1, <3>7, <2>1, <1>2, <1>3, <1>5, SoundGoesOn
  <2> QED
    BY <2>3, <2>4, <2>5
<1> QED
  BY <1>2, <1>4, <1>5

LEMMA UpdateAttributesSound ==
    ASSUME EmailAssumption, EmailTypeInv, Separate, failures' = 0, NEW h \in Running, Sound(h.p), UpdateAttributes(h)
    PROVE  Sound(h.p)'
<1>1. HandlerOK(h) /\ h.p \in Persons
  BY SeparateFacts
<1>2. h.kind = "kcChanged"
  BY DEF UpdateAttributes
<1>3. h.pc = "start" /\ UNCHANGED <<db, serving, table, ox, oxGroups, twice>> /\ KcEffect
      /\ ((~KnownInKeycloak(h) /\ Become(h, {}))
          \/ \E g : /\ Become(h, {g}) /\ g.kind = "metadata" /\ g.p = h.p /\ g.pc = "start" /\ g.user = h.user
                    /\ g.ox = h.ox /\ g.mail = h.mail /\ g.after = "")
  BY <1>1, <1>2, AttributesDoes
<1>4. kc[h.p] # -1 /\ Local(h) /\ SameRows /\ GroupsShrink
  BY <1>2, <1>3, StaysThere DEF Ending, SameRows, table, GroupsShrink
<1>5. CASE Beside(h)
  <2>1. CASE Become(h, {})
    BY <2>1, <1>4, <1>5, EndRead
  <2>2. ASSUME NEW g, Become(h, {g}), g.kind = "metadata", g.p = h.p, g.pc = "start" PROVE Sound(h.p)'
    <3>1. BesideKind(g)
      BY <2>2 DEF BesideKind
    <3> QED
      BY <3>1, <2>2, <1>4, <1>5, SoundBeside
  <2> QED
    BY <2>1, <2>2, <1>3
<1>6. CASE ~Beside(h)
  <2>1. Alone(h) /\ CarriesAt(h) /\ Tells(h)
    BY <1>2, <1>4, <1>6, LocalIs
  <2>2. Named(h)
    BY <2>1, <1>2 DEF Tells
  <2>3. KnownInKeycloak(h)
    BY <2>2, <1>4 DEF KnownInKeycloak, Named
  <2>4. PICK g : /\ Become(h, {g}) /\ g.kind = "metadata" /\ g.p = h.p /\ g.pc = "start" /\ g.user = h.user
                 /\ g.ox = h.ox /\ g.mail = h.mail /\ g.after = ""
    BY <2>3, <1>3
  <2>5. Tells(g)
    BY <2>1, <2>2, <2>4, <1>2 DEF Tells, Named
  <2>6. CarriesAt(g)
    BY <2>1, <2>4, <2>5, <1>2 DEF CarriesAt
  <2> QED
    BY <2>1, <2>4, <2>6, <1>2, <1>4, SoundGoesOn
<1> QED
  BY <1>5, <1>6

LEMMA EnableSound ==
    ASSUME EmailAssumption, EmailTypeInv, Separate, NEW h \in Running, Sound(h.p), Enable(h) \/ EnableDisabled(h)
    PROVE  Sound(h.p)'
<1>1. HandlerOK(h) /\ h.p \in Persons
  BY SeparateFacts
<1>2. /\ h.kind \in {"metadata", "disabledOx"} /\ h.pc = "start"
      /\ UNCHANGED <<db, serving, table, ox, oxGroups, kc, twice>>
      /\ ~IsRequested(h.p) => Become(h, {})
  BY <1>1, EnableDoes, EnableDisabledDoes
<1>3. kc[h.p] # -1 /\ Local(h) /\ SameRows /\ GroupsShrink
  BY <1>2, StaysThere, SameRowsIf DEF Ending, GroupsShrink
<1>4. CASE Beside(h)
  BY <1>2, <1>3, <1>4, EndRead DEF Beside
<1>5. CASE ~Beside(h)
  <2>1. Alone(h) /\ CarriesAt(h) /\ Tells(h)
    BY <1>2, <1>3, <1>5, LocalIs
  <2>2. IsRequested(h.p) /\ ~Enabled(h.p) /\ TheUser(h.ox, h.p) /\ h.after = ""
    BY <2>1 DEF CarriesAt, Tells
  <2>3. PICK i \in WithStatus(h.p, "REQUESTED") :
              /\ Requested(h.p) = emails[i] /\ emails[i].id = i /\ emails[i].owner = h.p /\ emails[i] \in Row
    BY <2>2, <1>1, RequestedIs
  <2>4. h.kind = "metadata" => h.mail = emails[i].address
    BY <2>1, <2>3, <1>2 DEF Tells, Sound, RowsSound
  <2>5. PICK g : /\ Become(h, {g}) /\ Moves(h, g) /\ g.after = h.after
                 /\ g.row.id = i /\ g.row.owner = h.p /\ g.row.ox = h.ox /\ g.row.address = emails[i].address
                 /\ \/ h.kind = "metadata" /\ g.pc = "check" /\ g.row.status = "ENABLED"
                    \/ h.kind = "disabledOx" /\ g.pc = "write" /\ g.row.status = "DISABLED"
    <3>1. CASE Enable(h)
      <4>1. PICK g : /\ Become(h, {g}) /\ Moves(h, g) /\ g.pc = "check" /\ g.after = h.after
                     /\ g.row = [emails[i] EXCEPT !.address = h.mail, !.status = "ENABLED", !.ox = h.ox]
        BY <3>1, <2>2, <2>3, <1>1, EnableDoes
      <4>2. g.row.id = i /\ g.row.owner = h.p /\ g.row.ox = h.ox /\ g.row.address = h.mail /\ g.row.status = "ENABLED"
        BY <4>1, <2>3 DEF Row
      <4>3. h.kind = "metadata"
        BY <3>1, <1>1, EnableDoes
      <4> QED
        BY <4>1, <4>2, <4>3, <2>4
    <3>2. CASE EnableDisabled(h)
      <4>1. PICK g : /\ Become(h, {g}) /\ Moves(h, g) /\ g.pc = "write" /\ g.after = h.after
                     /\ g.row = [emails[i] EXCEPT !.status = "DISABLED", !.ox = h.ox]
        BY <3>2, <2>2, <2>3, <1>1, EnableDisabledDoes
      <4>2. g.row.id = i /\ g.row.owner = h.p /\ g.row.ox = h.ox /\ g.row.address = emails[i].address
            /\ g.row.status = "DISABLED"
        BY <4>1, <2>3 DEF Row
      <4>3. h.kind = "disabledOx"
        BY <3>2, <1>1, EnableDisabledDoes
      <4> QED
        BY <4>1, <4>2, <4>3
    <3> QED
      BY <3>1, <3>2
  <2>6. g.kind = h.kind /\ g.p = h.p /\ g.ox = h.ox
    BY <2>5 DEF Moves
  <2>7. Copies(g, g.row, "REQUESTED")
    BY <2>3, <2>5, <2>6 DEF Copies
  <2>8. Tells(g)
    BY <2>2, <2>5, <2>6, <2>7 DEF Tells
  <2>9. CarriesAt(g)
    BY <2>1, <2>6, <2>8 DEF CarriesAt
  <2> QED
    BY <2>1, <2>5, <2>6, <2>9, <1>2, <1>3, SoundGoesOn
<1> QED
  BY <1>4, <1>5

\* The answer is saved, and the request is done with.
LEMMA AnswerSaved ==
    ASSUME EmailAssumption, EmailTypeInv, Separate, NEW h \in Running, Sound(h.p), kc[h.p] # -1, ~db[h.p].gone,
           Alone(h), CarriesAt(h), Tells(h), h.pc = "write", Save(h)
    PROVE  Sound(h.p)'
<1>1. HandlerOK(h) /\ h.p \in Persons /\ h.kind \in {"metadata", "disabledOx"} /\ h.todo = {}
  <2>1. HandlerOK(h) /\ h.p \in Persons
    BY SeparateFacts
  <2> QED
    BY <2>1 DEF Tells, HandlerOK, Listing
<1>2. UNCHANGED <<db, serving, ox, oxGroups, kc, twice>>
  BY <1>1, SaveDoes
<1>3. PICK row : row = h.row
  OBVIOUS
<1>4. /\ TheUser(h.ox, h.p) /\ h.after = "" /\ Copies(h, row, "REQUESTED") /\ row.ox = h.ox
      /\ \/ h.kind = "metadata" /\ row.status = "ENABLED"
         \/ h.kind = "disabledOx" /\ row.status = "DISABLED"
  BY <1>1, <1>3 DEF Tells
<1>5. ~Violates(row) /\ row.id \in RowsOf(h.p) /\ row.owner = h.p
  BY <1>4, CopyIsFine
<1>6. NextSchool(h) = {} /\ Published(h) = {}
  BY <1>1, <1>4, NextSchoolIs, PublishedIs
<1>7. Write(row) /\ Become(h, {})
  BY <1>1, <1>3, <1>5, <1>6, SaveDoes
<1>8. /\ row.status = "ENABLED" => WithStatus(h.p, "ENABLED")' = WithStatus(h.p, "ENABLED") \cup {row.id}
      /\ row.status # "ENABLED" => WithStatus(h.p, "ENABLED")' = WithStatus(h.p, "ENABLED") \ {row.id}
      /\ row.status # "REQUESTED" => WithStatus(h.p, "REQUESTED")' = WithStatus(h.p, "REQUESTED") \ {row.id}
  BY <1>5, <1>7, RowReplaced
<1>9. RowsSound(h.p) /\ Users(h.p)' = Users(h.p)
  BY <1>2 DEF Sound, Users
<1>10. ~Enabled(h.p) /\ (h.kind = "metadata" <=> IsServed(h.p))
  BY <1>1 DEF CarriesAt
<1>11. RowsSound(h.p)'
  BY <1>2, <1>4, <1>7, <1>9, <1>10, CopyWritten
<1>12. ~IsRequested(h.p)'
  <2>1. row.id \in WithStatus(h.p, "REQUESTED")
    BY <1>4 DEF Copies
  <2> QED
    BY <2>1, <1>4, <1>8, <1>9 DEF RowsSound, IsRequested
<1>13. IsServed(h.p)' <=> Enabled(h.p)'
  BY <1>2, <1>4, <1>8, <1>10 DEF IsServed, ServingOf, Enabled
<1>14. PICK next : next = {}
  OBVIOUS
<1>15. Become(h, next) /\ \A x \in next : FALSE
  BY <1>7, <1>14
<1> QED
  BY <1>1, <1>2, <1>11, <1>12, <1>13, <1>15, SoundDone

\* The number of the new user is saved.
LEMMA UserSaved ==
    ASSUME EmailAssumption, EmailTypeInv, Separate, NEW h \in Running, Sound(h.p), kc[h.p] # -1, ~db[h.p].gone,
           Alone(h), CarriesAt(h), Creates(h), h.pc = "write", Save(h)
    PROVE  Sound(h.p)'
<1>1. HandlerOK(h) /\ h.p \in Persons /\ h.kind = "create"
  BY SeparateFacts DEF Creates
<1>2. UNCHANGED <<db, serving, ox, oxGroups, kc, twice>>
  BY <1>1, SaveDoes
<1>3. PICK row : row = h.row
  OBVIOUS
<1>4. /\ TheUser(h.ox, h.p) /\ Named(h) /\ Copies(h, row, "REQUESTED") /\ row.status = "REQUESTED"
      /\ ox[h.ox].groups = {} /\ RowsOf(h.p) = WithStatus(h.p, "REQUESTED")
  BY <1>1, <1>3 DEF Creates
<1>5. ~Violates(row) /\ row.id \in RowsOf(h.p) /\ row.owner = h.p /\ row.id \in WithStatus(h.p, "REQUESTED")
  BY <1>4, CopyIsFine DEF Copies
<1>6. PICK g : Become(h, {g}) /\ Stays(h, g) /\ g.pc = "group"
  BY <1>1, <1>3, <1>5, SaveDoes
<1>7. Write(row)
  BY <1>1, <1>3, <1>5, SaveDoes
<1>8. g.kind = h.kind /\ g.p = h.p /\ g.row = row /\ g.user = h.user /\ g.ox = h.ox
  BY <1>3, <1>6 DEF Stays, Moves
<1>9. /\ row.status = "REQUESTED" => WithStatus(h.p, "REQUESTED")' = WithStatus(h.p, "REQUESTED") \cup {row.id}
      /\ row.status # "ENABLED" => WithStatus(h.p, "ENABLED")' = WithStatus(h.p, "ENABLED") \ {row.id}
      /\ RowsOf(h.p)' = RowsOf(h.p) /\ emails'[row.id] = row
  BY <1>5, <1>7, RowReplaced
<1>10. RowsSound(h.p) /\ Users(h.p)' = Users(h.p)
  BY <1>2 DEF Sound, Users
<1>11. RowsSound(h.p)'
  BY <1>2, <1>4, <1>7, <1>10, CopyWritten
<1>12. WithStatus(h.p, "REQUESTED")' = WithStatus(h.p, "REQUESTED")
  BY <1>4, <1>5, <1>9
<1>13. Creates(g)'
  BY <1>1, <1>2, <1>4, <1>5, <1>6, <1>8, <1>9, <1>10, <1>12 DEF Creates, Named, Copies, TheUser
<1>14. CarriesAt(g)'
  BY <1>1, <1>2, <1>4, <1>8, <1>9, <1>12, <1>13 DEF CarriesAt, IsRequested, Enabled, IsServed, ServingOf
<1> QED
  BY <1>1, <1>2, <1>6, <1>8, <1>11, <1>14, SoundAlone

\* The handler of a person who is served and has an enabled address goes on with
\* the next school, if there is one.
LEMMA SchoolsGoOn ==
    ASSUME EmailTypeInv, Separate, NEW h \in Running, h.kind = "person", Only(h), Sound(h.p), kc[h.p] # -1, kc'[h.p] # -1,
           NEW x, HandlerOK(x), x.kind = "person", x.p = h.p, NEW told, \A y \in told : y.p = h.p /\ BesideKind(y),
           Become(h, NextSchool(x) \cup told), RowsSound(h.p)', ~IsRequested(h.p)', IsServed(h.p)', Enabled(h.p)'
    PROVE  Sound(h.p)'
<1>1. PICK next : next = NextSchool(x) \cup told
  OBVIOUS
<1>2. Become(h, next)
  BY <1>1
<1>3. CASE x.todo = {}
  <2>1. NextSchool(x) = {}
    BY <1>3, NextSchoolIs
  <2>2. \A y \in next : y.p = h.p /\ BesideKind(y)
    BY <2>1, <1>1
  <2> QED
    BY <2>2, <1>2, SoundServed
<1>4. CASE x.todo # {}
  <2>1. PICK g : NextSchool(x) = {g} /\ Moves(x, g) /\ g.pc = "school"
    BY <1>4, NextSchoolIs
  <2>2. g \in next /\ \A y \in next : y = g \/ (y.p = h.p /\ BesideKind(y))
    BY <2>1, <1>1
  <2>3. g.p = h.p /\ g.kind = "person" /\ g.todo # {} /\ g.pc # "start"
    BY <2>1, <1>4 DEF Moves
  <2>4. RowsOf(h.p)' # {}
    BY DEF Enabled, WithStatus
  <2>5. ServesAt(g)'
    BY <2>1, <2>3, <2>4 DEF ServesAt, AtSchool
  <2> QED
    BY <2>2, <2>3, <2>4, <2>5, <1>2, SoundServes
<1> QED
  BY <1>3, <1>4

LEMMA CheckSound ==
    ASSUME EmailAssumption, EmailTypeInv, Separate, NEW h \in Running, Sound(h.p), Check(h)
    PROVE  Sound(h.p)'
<1>1. HandlerOK(h) /\ h.p \in Persons
  BY SeparateFacts
<1>2. h.kind \in {"person", "renamed", "create", "metadata"} /\ h.pc = "check"
      /\ UNCHANGED <<db, serving, table, ox, oxGroups, kc, twice>>
  BY <1>1, CheckDoes
<1>3. kc[h.p] # -1 /\ ~db[h.p].gone /\ Local(h) /\ SameRows /\ GroupsShrink
  BY <1>2, StaysThere, SameRowsIf DEF Ending, GroupsShrink
<1>4. \/ MaySave(h.row) /\ \E g : Become(h, {g}) /\ Stays(h, g) /\ g.pc = "write"
      \/ ~MaySave(h.row) /\ h.kind # "create" /\ Become(h, NextSchool(h))
      \/ ~MaySave(h.row) /\ h.kind = "create"
  BY <1>1, CheckDoes
<1>5. CASE Serving(h)
  <2>1. Only(h) /\ Enables(h) /\ ~IsRequested(h.p) /\ h.kind = "person"
    BY <1>2, <1>5 DEF Serving, ServesAt, AtSchool
  <2>2. IsServed(h.p) /\ h.after = "generated" /\ Copies(h, h.row, "DISABLED") /\ h.row.status = "ENABLED"
        /\ h.row.ox = emails[h.row.id].ox
    BY <2>1 DEF Enables
  <2>3. h.row.id \in RowsOf(h.p) /\ h.row.owner = h.p
    BY <2>2, <1>3, CopyIsFine
  <2>4. RowsSound(h.p)' /\ kc'[h.p] # -1
    BY <1>1, <1>2, <1>3, RowsSoundKept DEF Sound
  <2>5. CASE MaySave(h.row)
    <3>1. PICK g : Become(h, {g}) /\ Stays(h, g) /\ g.pc = "write"
      BY <2>5, <1>4
    <3>2. g.kind = h.kind /\ g.p = h.p /\ g.row = h.row /\ g.after = h.after
      BY <3>1 DEF Stays, Moves
    <3>3. ~Enabled(h.p)
      BY <2>2, <2>3, <2>5 DEF MaySave
    <3>4. Enables(g)
      BY <3>1, <3>2, <3>3, <2>2 DEF Enables, Copies
    <3>5. ServesAt(g)
      BY <3>2, <3>4, <2>1 DEF ServesAt
    <3>6. ServesAt(g)' /\ RowsOf(h.p)' # {}
      BY <3>2, <3>5, <2>3, <1>1, <1>3, ServesKept, RowsSame
    <3>7. PICK next : next = {g}
      OBVIOUS
    <3>8. Become(h, next) /\ g \in next /\ \A x \in next : x = g
      BY <3>1, <3>7
    <3> QED
      BY <3>1, <3>2, <3>6, <3>8, <2>1, <2>4, <1>3, SoundServes
  <2>6. CASE ~MaySave(h.row)
    <3>1. Become(h, NextSchool(h))
      BY <2>1, <2>6, <1>4
    <3>2. Enabled(h.p)
      BY <2>3, <2>6 DEF MaySave
    <3>3. Enabled(h.p)' /\ IsServed(h.p)' /\ ~IsRequested(h.p)'
      BY <3>2, <2>1, <2>2, <1>1, <1>3, RowsSame
    <3>4. PICK told : told = {}
      OBVIOUS
    <3>5. Become(h, NextSchool(h) \cup told) /\ \A y \in told : FALSE
      BY <3>1, <3>4
    <3> QED
      BY <3>3, <3>5, <2>1, <2>4, <1>1, <1>3, SchoolsGoOn
  <2> QED
    BY <2>5, <2>6
<1>6. CASE ~Serving(h)
  <2>1. Alone(h)
    BY <1>2, <1>3, <1>6, LocalIs
  <2>2. \/ h.kind \in {"person", "renamed"} /\ ~IsRequested(h.p) /\ (AsksFirst(h) \/ AsksAgain(h))
        \/ h.kind = "create" /\ CarriesAt(h) /\ Creates(h)
        \/ h.kind = "metadata" /\ CarriesAt(h) /\ Tells(h)
    BY <1>2, <1>3, <1>6, LocalIs DEF RenameStarts, Retires
  <2>3. h.row.owner = h.p
    BY <2>2, <1>2 DEF AsksFirst, AsksAgain, Unused, Creates, Tells, Copies
  <2>4. ~Enabled(h.p)
    <3>1. RowsOf(h.p) = {} => ~Enabled(h.p)
      BY DEF Enabled, WithStatus
    <3> QED
      BY <3>1, <2>2 DEF AsksFirst, AsksAgain, CarriesAt
  <2>5. PICK g : Become(h, {g}) /\ Stays(h, g) /\ g.pc = "write"
    BY <2>3, <2>4, <1>4 DEF MaySave
  <2>6. /\ g.kind = h.kind /\ g.p = h.p /\ g.row = h.row /\ g.user = h.user /\ g.ox = h.ox /\ g.seen = h.seen
        /\ g.after = h.after /\ g.todo = h.todo
    BY <2>5 DEF Stays, Moves
  <2>7. AsksFirst(h) => AsksFirst(g)
    BY <2>5, <2>6, <1>2 DEF AsksFirst, Unused
  <2>8. AsksAgain(h) => AsksAgain(g)
    BY <2>5, <2>6, <1>2 DEF AsksAgain, Unused, SeenOK
  <2>9. Creates(h) => Creates(g)
    BY <2>5, <2>6, <1>2 DEF Creates, Named, Copies
  <2>10. h.kind = "metadata" /\ Tells(h) => Tells(g)
    BY <2>5, <2>6, <1>2 DEF Tells, Copies
  <2>11. AsksAt(g) \/ CarriesAt(g)
    BY <2>2, <2>6, <2>7, <2>8, <2>9, <2>10 DEF AsksAt, CarriesAt
  <2> QED
    BY <2>1, <2>5, <2>6, <2>11, <1>2, <1>3, SoundGoesOn
<1> QED
  BY <1>5, <1>6

LEMMA SaveSound ==
    ASSUME EmailAssumption, EmailTypeInv, Separate, NEW h \in Running, Sound(h.p), Save(h)
    PROVE  Sound(h.p)'
<1>1. HandlerOK(h) /\ h.p \in Persons
  BY SeparateFacts
<1>2. h.kind \in {"person", "renamed", "create", "metadata", "disabledOx"} /\ h.pc = "write"
      /\ UNCHANGED <<db, serving, ox, oxGroups, kc, twice>>
  BY <1>1, SaveDoes
<1>3. kc[h.p] # -1 /\ ~db[h.p].gone /\ Local(h)
  BY <1>2, StaysThere DEF Ending
<1>4. CASE Serving(h)
  <2>1. Only(h) /\ Enables(h) /\ ~IsRequested(h.p) /\ h.kind = "person"
    BY <1>2, <1>4 DEF Serving, ServesAt, AtSchool
  <2>2. PICK row : row = h.row
    OBVIOUS
  <2>3. IsServed(h.p) /\ h.after = "generated" /\ Copies(h, row, "DISABLED") /\ row.status = "ENABLED"
        /\ row.ox = emails[row.id].ox /\ ~Enabled(h.p)
    BY <2>1, <2>2, <1>2 DEF Enables
  <2>4. ~Violates(row) /\ row.id \in RowsOf(h.p) /\ row.owner = h.p /\ emails[row.id].status = "DISABLED"
    BY <2>3, <1>3, CopyIsFine DEF Copies, WithStatus
  <2>5. Write(row) /\ Become(h, NextSchool(h) \cup Published(h))
    BY <2>1, <2>2, <2>4, <1>1, SaveDoes
  <2>6. /\ row.status = "ENABLED" => WithStatus(h.p, "ENABLED")' = WithStatus(h.p, "ENABLED") \cup {row.id}
        /\ row.status # "REQUESTED" => WithStatus(h.p, "REQUESTED")' = WithStatus(h.p, "REQUESTED") \ {row.id}
    BY <2>4, <2>5, RowReplaced
  <2>7. RowsSound(h.p) /\ Users(h.p)' = Users(h.p)
    BY <1>2 DEF Sound, Users
  <2>8. TheUser(row.ox, h.p)
    BY <2>3, <2>4, <2>7, <1>3 DEF RowsSound
  <2>9. RowsSound(h.p)' /\ kc'[h.p] # -1
    BY <2>3, <2>5, <2>7, <2>8, <1>2, <1>3, CopyWritten
  <2>10. IsServed(h.p)' /\ Enabled(h.p)' /\ ~IsRequested(h.p)'
    BY <2>1, <2>3, <2>6, <1>2 DEF IsServed, ServingOf, Enabled, IsRequested
  <2>11. PICK told : told = Published(h)
    OBVIOUS
  <2>12. \A y \in told : y.p = h.p /\ BesideKind(y)
    <3>1. told = {Sub(h, "create")}
      BY <2>3, <2>11, PublishedIs
    <3>2. Sub(h, "create").kind = "create" /\ Sub(h, "create").p = h.p /\ Sub(h, "create").pc = "start"
      BY DEF Sub, Handler
    <3> QED
      BY <3>1, <3>2 DEF BesideKind
  <2>13. Become(h, NextSchool(h) \cup told)
    BY <2>5, <2>11
  <2> QED
    BY <2>1, <2>9, <2>10, <2>12, <2>13, <1>1, <1>3, SchoolsGoOn
<1>5. CASE ~Serving(h)
  <2>1. Alone(h)
    BY <1>2, <1>3, <1>5, LocalIs
  <2>2. \/ h.kind \in {"person", "renamed"} /\ ~IsRequested(h.p) /\ (AsksFirst(h) \/ AsksAgain(h))
        \/ h.kind = "create" /\ CarriesAt(h) /\ Creates(h)
        \/ h.kind \in {"metadata", "disabledOx"} /\ CarriesAt(h) /\ Tells(h)
    BY <1>2, <1>3, <1>5, LocalIs DEF RenameStarts, Retires
  <2> QED
    BY <2>1, <2>2, <1>2, <1>3, RequestSaved, UserSaved, AnswerSaved
<1> QED
  BY <1>4, <1>5

\* The handler of the Personenkontexte begins.
LEMMA LeavingReads ==
    ASSUME EmailAssumption, EmailTypeInv, Separate, NEW h \in Running, Sound(h.p), kc[h.p] = -1, SameRows,
           NEW next, Become(h, next), \A x \in next : x.p = h.p /\ Disables(x)
    PROVE  Sound(h.p)'
<1>1. h.p \in Persons
  BY SeparateFacts
<1>2. RowsSound(h.p)' /\ kc'[h.p] = -1
  BY <1>1, RowsSoundKept DEF Sound, SameRows, KcEffect
<1>3. \A x \in Running' : (x \in Running \/ x \in next) /\ x.p = h.p
  BY RunningChanged DEF Separate
<1>4. \A x \in Running' : Disables(x)'
  <2>1. \A x \in Running : x.p = h.p => Disables(x)
    BY DEF Sound, Local
  <2>2. \A x : x.p = h.p /\ Disables(x) => Disables(x)'
    BY <1>1, CopiesKept
  <2> QED
    BY <2>1, <2>2, <1>3
<1> QED
  BY <1>2, <1>3, <1>4 DEF Sound, Promised, Local

LEMMA HandlePersonDoes ==
    ASSUME EmailAssumption, EmailTypeInv, NEW h, HandlerOK(h), h.p \in Persons, HandlePerson(h), h.p \notin twice'
    PROVE  /\ h.kind = "person" /\ h.pc = "start" /\ UNCHANGED <<db, serving, table, ox, oxGroups, kc>>
           /\ \/ /\ ServingOf(db[h.p].kontexte \ h.removed) # {}
                 /\ \E g : /\ Become(h, {g}) /\ g.kind = "person" /\ g.p = h.p /\ g.pc = "school" /\ g.todo # {}
                           /\ RowsOf(h.p) = {} => \A s, t \in g.todo : s = t
              \/ /\ ServingOf(db[h.p].kontexte \ h.removed) = {}
                 /\ Become(h, {}) /\ \A i \in RowsOf(h.p) : emails[i].status = "DISABLED"
              \/ /\ ServingOf(db[h.p].kontexte \ h.removed) = {}
                 /\ \E g : /\ Become(h, {g}) /\ g.kind = "person" /\ g.p = h.p /\ g.pc = "disable"
                           /\ \A r \in g.todo : \E i \in RowsOf(h.p) :
                                 emails[i].status # "DISABLED" /\ r = [emails[i] EXCEPT !.status = "DISABLED"]
                           /\ \A i \in RowsOf(h.p) : emails[i].status # "DISABLED" => \E r \in g.todo : r.id = i
<1> DEFINE kontexte == db[h.p].kontexte \ h.removed
           rolle(r) == {k.school : k \in {x \in kontexte : x.rolle = r}}
           left == {i \in RowsOf(h.p) : emails[i].status # "DISABLED"}
           rows == {[emails[i] EXCEPT !.status = "DISABLED"] : i \in left}
<1>1. h.kind = "person" /\ h.pc = "start" /\ UNCHANGED <<db, serving, table, ox, oxGroups, kc>>
  BY DEF HandlePerson, OxData
<1>2. \/ \E r \in {k.rolle : k \in ServingOf(kontexte)} :
            /\ Become(h, {[h EXCEPT !.pc = "school", !.removed = {}, !.todo = rolle(r)]})
            /\ twice' = IF RowsOf(h.p) = {} /\ Cardinality(rolle(r)) > 1 THEN twice \cup {h.p} ELSE twice
      \/ ServingOf(kontexte) = {} /\ left = {} /\ End(h)
      \/ /\ ServingOf(kontexte) = {}
         /\ Become(h, {[h EXCEPT !.pc = "disable", !.removed = {}, !.todo = rows]})
  BY DEF HandlePerson
<1>3. ASSUME NEW r \in {k.rolle : k \in ServingOf(kontexte)}, NEW rest, rest = rolle(r),
             Become(h, {[h EXCEPT !.pc = "school", !.removed = {}, !.todo = rest]}),
             twice' = IF RowsOf(h.p) = {} /\ Cardinality(rest) > 1 THEN twice \cup {h.p} ELSE twice
      PROVE  /\ ServingOf(kontexte) # {}
             /\ \E g : /\ Become(h, {g}) /\ g.kind = "person" /\ g.p = h.p /\ g.pc = "school" /\ g.todo # {}
                       /\ RowsOf(h.p) = {} => \A s, t \in g.todo : s = t
  <2>1. ServingOf(kontexte) # {} /\ rest # {}
    BY <1>3 DEF ServingOf
  <2>2. PICK g : g = [h EXCEPT !.pc = "school", !.removed = {}, !.todo = rest]
    OBVIOUS
  <2>3. g.kind = "person" /\ g.p = h.p /\ g.pc = "school" /\ g.todo = rest
    BY <2>2, <1>1 DEF HandlerOK, Fields
  <2>4. rest \subseteq OxSchools
    <3>1. db[h.p].kontexte \subseteq Kontexte
      BY DEF EmailTypeInv, DbOK
    <3> QED
      BY <3>1, <1>3 DEF OxSchools
  <2>5. ASSUME RowsOf(h.p) = {}, NEW s \in rest, NEW t \in rest, s # t PROVE FALSE
    <3>1. IsFiniteSet(rest) /\ Cardinality(rest) \in Nat
      BY <2>4, FS_Subset, FS_CardinalityType DEF EmailAssumption
    <3>2. Cardinality(rest \ {s}) = Cardinality(rest) - 1 /\ IsFiniteSet(rest \ {s})
      BY <3>1, FS_RemoveElement
    <3>3. Cardinality(rest \ {s}) # 0 /\ Cardinality(rest \ {s}) \in Nat
      <4>1. PICK others : others = rest \ {s}
        OBVIOUS
      <4>2. IsFiniteSet(others) /\ others # {}
        BY <4>1, <3>2, <2>5
      <4>3. Cardinality(others) # 0 /\ Cardinality(others) \in Nat
        BY <4>2, FS_EmptySet, FS_CardinalityType
      <4> QED
        BY <4>1, <4>3
    <3>4. Cardinality(rest) > 1
      BY <3>1, <3>2, <3>3
    <3> QED
      BY <3>4, <2>5, <1>3
  <2>6. Become(h, {g})
    BY <2>2, <1>3
  <2> QED
    BY <2>1, <2>3, <2>5, <2>6
<1>4. ASSUME Become(h, {[h EXCEPT !.pc = "disable", !.removed = {}, !.todo = rows]})
      PROVE  \E g : /\ Become(h, {g}) /\ g.kind = "person" /\ g.p = h.p /\ g.pc = "disable"
                    /\ \A r \in g.todo : \E i \in RowsOf(h.p) :
                          emails[i].status # "DISABLED" /\ r = [emails[i] EXCEPT !.status = "DISABLED"]
                    /\ \A i \in RowsOf(h.p) : emails[i].status # "DISABLED" => \E r \in g.todo : r.id = i
  <2>1. PICK g : g = [h EXCEPT !.pc = "disable", !.removed = {}, !.todo = rows]
    OBVIOUS
  <2>2. g.kind = "person" /\ g.pc = "disable" /\ g.p = h.p /\ g.todo = rows
    BY <2>1, <1>1 DEF HandlerOK, Fields
  <2>3. Become(h, {g})
    BY <2>1, <1>4
  <2>4. ASSUME NEW i \in RowsOf(h.p), emails[i].status # "DISABLED" PROVE \E r \in rows : r.id = i
    <3>1. emails[i] \in Row /\ emails[i].id = i
      BY DEF EmailTypeInv, EmailsOK, RowsOf
    <3>2. PICK r : r = [emails[i] EXCEPT !.status = "DISABLED"]
      OBVIOUS
    <3>3. r.id = i
      BY <3>1, <3>2 DEF Row
    <3>4. r \in rows
      BY <3>2, <2>4
    <3> QED
      BY <3>3, <3>4
  <2>5. \A r \in rows : \E i \in RowsOf(h.p) :
           emails[i].status # "DISABLED" /\ r = [emails[i] EXCEPT !.status = "DISABLED"]
    OBVIOUS
  <2> HIDE DEF rows, left
  <2>6. /\ \A r \in g.todo : \E i \in RowsOf(h.p) :
              emails[i].status # "DISABLED" /\ r = [emails[i] EXCEPT !.status = "DISABLED"]
        /\ \A i \in RowsOf(h.p) : emails[i].status # "DISABLED" => \E r \in g.todo : r.id = i
    BY <2>2, <2>4, <2>5, Zenon
  <2> QED
    BY <2>2, <2>3, <2>6, Zenon
<1>5. left = {} => \A i \in RowsOf(h.p) : emails[i].status = "DISABLED"
  OBVIOUS
<1> HIDE DEF left, rows
<1> QED
  BY <1>1, <1>2, <1>3, <1>4, <1>5 DEF End

LEMMA HandlePersonSound ==
    ASSUME EmailAssumption, EmailTypeInv, Separate, NEW h \in Running, Sound(h.p), HandlePerson(h), h.p \notin twice'
    PROVE  Sound(h.p)'
<1>1. HandlerOK(h) /\ h.p \in Persons /\ KindOK(h)
  BY SeparateFacts
<1>2. h.kind = "person" /\ h.pc = "start" /\ UNCHANGED <<db, serving, table, ox, oxGroups, kc>> /\ SameRows
  BY <1>1, HandlePersonDoes, SameRowsIf
<1>3. RowsSound(h.p) /\ RowsSound(h.p)'
  BY <1>1, <1>2, RowsSoundKept DEF Sound
<1>4. kc[h.p] # -1 => Only(h) /\ Alone(h) /\ ~IsRequested(h.p) /\ h.removed = {}
  <2>1. kc[h.p] # -1 => Serving(h)
    BY <1>2, LocalIs DEF Sound, AsksFirst
  <2> QED
    BY <2>1, <1>2 DEF Serving, ServesAt, AtSchool, Enables
<1>5. ~IsRequested(h.p)
  BY <1>3, <1>4 DEF RowsSound
<1>6. \A i \in RowsOf(h.p) : /\ i \in DOMAIN emails /\ emails[i] \in Row /\ emails[i].id = i /\ emails[i].owner = h.p
                             /\ emails[i].status \in {"ENABLED", "DISABLED"}
  <2>1. \A i \in RowsOf(h.p) : i \in DOMAIN emails /\ emails[i] \in Row /\ emails[i].id = i /\ emails[i].owner = h.p
    BY DEF EmailTypeInv, EmailsOK, RowsOf
  <2>2. \A i \in RowsOf(h.p) : emails[i].status # "FAILED" /\ emails[i].status # "REQUESTED"
    BY <1>3, <1>5 DEF RowsSound, IsRequested, WithStatus
  <2> QED
    BY <2>1, <2>2 DEF Row, AddressStatus
<1>7. CASE ServingOf(db[h.p].kontexte \ h.removed) # {}
  <2>1. kc[h.p] # -1
    BY <1>1, <1>2, <1>7 DEF KindOK, LeavingKind, Ending, ServingOf
  <2>2. IsServed(h.p)
    BY <2>1, <1>4, <1>7 DEF IsServed, ServingOf
  <2>3. PICK g : /\ Become(h, {g}) /\ g.kind = "person" /\ g.p = h.p /\ g.pc = "school" /\ g.todo # {}
                 /\ RowsOf(h.p) = {} => \A s, t \in g.todo : s = t
    BY <1>1, <1>7, HandlePersonDoes
  <2>4. ServesAt(g)
    BY <2>2, <2>3, <1>5 DEF ServesAt, AtSchool
  <2>5. ServesAt(g)'
    BY <2>3, <2>4, <1>1, <1>2, ServesKept
  <2>6. PICK next : next = {g}
    OBVIOUS
  <2>7. Become(h, next) /\ g \in next /\ \A x \in next : x = g
    BY <2>3, <2>6
  <2>8. g.pc # "start" /\ kc'[h.p] # -1
    BY <2>1, <2>3, <1>2
  <2> QED
    BY <2>1, <2>3, <2>5, <2>6, <2>7, <2>8, <1>2, <1>3, <1>4, SoundServes
<1>8. CASE ServingOf(db[h.p].kontexte \ h.removed) = {}
  <2>1. kc[h.p] # -1 => ~IsServed(h.p)
    BY <1>4, <1>8 DEF IsServed, ServingOf
  <2>2. CASE Become(h, {}) /\ \A i \in RowsOf(h.p) : emails[i].status = "DISABLED"
    <3>1. PICK next : next = {}
      OBVIOUS
    <3>2. Become(h, next) /\ \A x \in next : FALSE
      BY <3>1, <2>2
    <3>3. CASE kc[h.p] = -1
      BY <3>2, <3>3, <1>2, LeavingReads
    <3>4. CASE kc[h.p] # -1
      <4>1. ~Enabled(h.p)
        BY <2>2 DEF Enabled, WithStatus
      <4>2. ~IsRequested(h.p)' /\ (IsServed(h.p)' <=> Enabled(h.p)') /\ kc'[h.p] # -1
        BY <4>1, <3>4, <2>1, <1>1, <1>2, <1>5, RowsSame
      <4> QED
        BY <4>2, <3>2, <3>4, <1>2, <1>3, <1>4, SoundServed
    <3> QED
      BY <3>3, <3>4
  <2>3. ASSUME NEW g, Become(h, {g}), g.kind = "person", g.p = h.p, g.pc = "disable",
               \A r \in g.todo : \E i \in RowsOf(h.p) :
                  emails[i].status # "DISABLED" /\ r = [emails[i] EXCEPT !.status = "DISABLED"],
               \A i \in RowsOf(h.p) : emails[i].status # "DISABLED" => \E r \in g.todo : r.id = i
        PROVE  Sound(h.p)'
    <3>1. Disables(g)
      <4>1. ASSUME NEW r \in g.todo
            PROVE  /\ \E from \in {"ENABLED", "DISABLED"} : Copies(g, r, from)
                   /\ r.status = "DISABLED" /\ r.ox = emails[r.id].ox
        <5>1. PICK i \in RowsOf(h.p) : r = [emails[i] EXCEPT !.status = "DISABLED"]
          BY <2>3, <4>1
        <5>2. /\ r.id = i /\ r.owner = h.p /\ r.address = emails[i].address /\ r.status = "DISABLED"
              /\ r.ox = emails[i].ox
          BY <5>1, <1>6 DEF Row
        <5>3. PICK from \in {"ENABLED", "DISABLED"} : emails[i].status = from
          BY <1>6
        <5>4. i \in WithStatus(h.p, from)
          BY <5>3 DEF WithStatus
        <5>5. Copies(g, r, from)
          BY <5>2, <5>4, <2>3 DEF Copies
        <5> QED
          BY <5>2, <5>5
      <4> QED
        BY <4>1 DEF Disables
    <3>2. PICK next : next = {g}
      OBVIOUS
    <3>3. Become(h, next) /\ g \in next /\ \A x \in next : x = g
      BY <3>2, <2>3
    <3>4. CASE kc[h.p] = -1
      BY <3>1, <3>3, <3>4, <2>3, <1>2, LeavingReads
    <3>5. CASE kc[h.p] # -1
      <4>1. \A i \in WithStatus(h.p, "ENABLED") : \E r \in g.todo : r.id = i
        BY <2>3 DEF WithStatus
      <4>2. ServesAt(g)
        BY <4>1, <3>1, <3>5, <2>1, <2>3, <1>5 DEF ServesAt
      <4>3. ServesAt(g)'
        BY <4>2, <2>3, <1>1, <1>2, ServesKept
      <4>4. g.pc # "start" /\ kc'[h.p] # -1
        BY <3>5, <2>3, <1>2
      <4> QED
        BY <4>3, <4>4, <3>2, <3>3, <3>5, <2>3, <1>2, <1>3, <1>4, SoundServes
    <3> QED
      BY <3>4, <3>5
  <2> QED
    BY <2>2, <2>3, <1>1, <1>8, HandlePersonDoes
<1> QED
  BY <1>7, <1>8

\* A row is disabled, and at the end the others are told.
LEMMA DisableOneDoes ==
    ASSUME NEW h, HandlerOK(h), DisableOne(h)
    PROVE  /\ h.kind = "person" /\ h.pc = "disable" /\ UNCHANGED <<db, serving, ox, oxGroups, kc, twice>>
           /\ \E row \in h.todo :
                 /\ IF Violates(row) THEN UNCHANGED table ELSE Write(row)
                 /\ \/ \E g : /\ Become(h, {g}) /\ g.kind = "person" /\ g.pc = "disable" /\ g.p = h.p
                              /\ g.todo = h.todo \ {row}
                    \/ /\ h.todo \ {row} = {}
                       /\ \E next : /\ Become(h, next)
                                    /\ \A x \in next : x.p = h.p /\ x.kind \in {"oxDisabled", "kcDisabled"}
<1>1. h.kind = "person" /\ h.pc = "disable" /\ UNCHANGED <<db, serving, ox, oxGroups, kc, twice>>
  BY DEF DisableOne, Outside, OxData
<1>2. PICK row \in h.todo :
           LET left == h.todo \ {row}
           IN  /\ IF Violates(row) THEN UNCHANGED table ELSE Write(row)
               /\ Become(h, CASE left # {} -> {[h EXCEPT !.todo = left]}
                              [] left = {} /\ db[h.p].gone -> {}
                              [] OTHER -> {Sub(h, "oxDisabled"), Sub(h, "kcDisabled")})
  BY Zenon DEF DisableOne
<1>3. \/ Become(h, {[h EXCEPT !.todo = h.todo \ {row}]})
      \/ h.todo \ {row} = {} /\ Become(h, {})
      \/ h.todo \ {row} = {} /\ Become(h, {Sub(h, "oxDisabled"), Sub(h, "kcDisabled")})
  BY <1>2
<1>4. CASE Become(h, {[h EXCEPT !.todo = h.todo \ {row}]})
  <2>1. PICK g : g = [h EXCEPT !.todo = h.todo \ {row}]
    OBVIOUS
  <2>2. g.kind = "person" /\ g.pc = "disable" /\ g.p = h.p /\ g.todo = h.todo \ {row}
    BY <2>1, <1>1 DEF HandlerOK, Fields
  <2>3. Become(h, {g})
    BY <2>1, <1>4
  <2> QED
    BY <2>2, <2>3, <1>1, <1>2
<1>5. CASE h.todo \ {row} = {} /\ Become(h, {})
  BY <1>1, <1>2, <1>5
<1>6. CASE h.todo \ {row} = {} /\ Become(h, {Sub(h, "oxDisabled"), Sub(h, "kcDisabled")})
  <2>1. \A x \in {Sub(h, "oxDisabled"), Sub(h, "kcDisabled")} : x.p = h.p /\ x.kind \in {"oxDisabled", "kcDisabled"}
    BY DEF Sub, Handler
  <2> QED
    BY <2>1, <1>1, <1>2, <1>6
<1> QED
  BY <1>3, <1>4, <1>5, <1>6

LEMMA DisableOneSound ==
    ASSUME EmailAssumption, EmailTypeInv, EmailTypeInv', Separate, NEW h \in Running, Sound(h.p), DisableOne(h)
    PROVE  Sound(h.p)'
<1>1. HandlerOK(h) /\ h.p \in Persons /\ OwnHandler(h)
  BY SeparateFacts
<1>2. h.kind = "person" /\ h.pc = "disable" /\ UNCHANGED <<db, serving, ox, oxGroups, kc, twice>>
  BY <1>1, DisableOneDoes
<1>3. PICK row \in h.todo :
                 /\ IF Violates(row) THEN UNCHANGED table ELSE Write(row)
                 /\ \/ \E g : /\ Become(h, {g}) /\ g.kind = "person" /\ g.pc = "disable" /\ g.p = h.p
                              /\ g.todo = h.todo \ {row}
                    \/ /\ h.todo \ {row} = {}
                       /\ \E next : /\ Become(h, next)
                                    /\ \A x \in next : x.p = h.p /\ x.kind \in {"oxDisabled", "kcDisabled"}
  BY <1>1, DisableOneDoes
<1>4. Disables(h)
  <2>1. kc[h.p] # -1 => Serving(h)
    BY <1>2, LocalIs DEF Sound, AsksFirst
  <2> QED
    BY <2>1, <1>2 DEF Sound, Local, Serving, ServesAt, AtSchool, Enables
<1>5. PICK next : /\ Become(h, next)
                  /\ \/ \E g \in next : /\ next = {g} /\ g.kind = "person" /\ g.pc = "disable" /\ g.p = h.p
                                        /\ g.todo = h.todo \ {row}
                     \/ h.todo \ {row} = {} /\ \A x \in next : x.p = h.p /\ x.kind \in {"oxDisabled", "kcDisabled"}
  <2>1. ASSUME NEW g, Become(h, {g}), g.kind = "person" /\ g.pc = "disable" /\ g.p = h.p /\ g.todo = h.todo \ {row}
        PROVE  \E next : /\ Become(h, next)
                         /\ \E x \in next : /\ next = {x} /\ x.kind = "person" /\ x.pc = "disable" /\ x.p = h.p
                                            /\ x.todo = h.todo \ {row}
    <3>1. PICK next : next = {g}
      OBVIOUS
    <3> QED
      BY <3>1, <2>1
  <2> QED
    BY <2>1, <1>3
<1>6. \A x \in next : x.p = h.p /\ Disables(x)
  BY <1>1, <1>2, <1>4, <1>5 DEF Disables, Copies
<1>7. CASE db[h.p].gone
  <2>1. kc[h.p] = -1
    BY <1>1, <1>7 DEF Separate, Ended
  <2>2. row.owner = h.p /\ h.p # Nobody
    BY <1>1, <1>2, SeparateFacts DEF OwnHandler, OwnRow
  <2>3. UNCHANGED table
    BY <2>2, <1>3, <1>7 DEF Violates
  <2>4. SameRows
    BY <2>3, <1>2, SameRowsIf
  <2> QED
    BY <2>1, <2>4, <1>5, <1>6, LeavingReads
<1>8. CASE ~db[h.p].gone
  <2>1. PICK from \in {"ENABLED", "DISABLED"} : Copies(h, row, from)
    BY <1>2, <1>4, <1>8 DEF Disables
  <2>2. row.status = "DISABLED" /\ row.ox = emails[row.id].ox /\ row.address = emails[row.id].address
    BY <2>1, <1>2, <1>4, <1>8 DEF Disables, Copies
  <2>3. ~Violates(row) /\ row.id \in RowsOf(h.p) /\ row.id \in DOMAIN emails /\ row.owner = h.p
    BY <2>1, <1>8, CopyIsFine
  <2>4. Write(row)
    BY <2>3, <1>3
  <2>5. /\ DOMAIN emails' = DOMAIN emails /\ emails'[row.id] = row
        /\ \A j \in DOMAIN emails : j # row.id => emails'[j] = emails[j]
        /\ RowsOf(h.p)' = RowsOf(h.p)
        /\ WithStatus(h.p, "ENABLED")' = WithStatus(h.p, "ENABLED") \ {row.id}
        /\ WithStatus(h.p, "REQUESTED")' = WithStatus(h.p, "REQUESTED") \ {row.id}
    BY <2>2, <2>3, <2>4, RowReplaced
  <2>6. emails[row.id].owner = h.p /\ emails[row.id].id = row.id
    BY <2>3 DEF EmailTypeInv, EmailsOK, RowsOf
  <2>7. CASE kc[h.p] = -1
    <3>1. PICK i \in DOMAIN emails : i = row.id
      BY <2>3
    <3>2. /\ emails'[i].status = "DISABLED" /\ emails'[i].owner = emails[i].owner /\ emails'[i].ox = emails[i].ox
          /\ emails'[i].address = emails[i].address /\ emails'[i].id = emails[i].id
          /\ emails[i].owner \in {h.p, Nobody}
      BY <3>1, <2>2, <2>3, <2>5, <2>6
    <3> QED
      BY <3>1, <3>2, <2>5, <2>7, <1>2, <1>5, <1>6, LeavingWrites
  <2>8. CASE kc[h.p] # -1
    <3>1. Serving(h)
      BY <2>8, <1>2, LocalIs DEF Sound, AsksFirst
    <3>2. Only(h) /\ ~IsRequested(h.p) /\ ~IsServed(h.p)
          /\ \A i \in WithStatus(h.p, "ENABLED") : \E r \in h.todo : r.id = i
      BY <3>1, <1>2 DEF Serving, ServesAt, AtSchool, Enables
    <3>3. RowsSound(h.p) /\ Users(h.p)' = Users(h.p)
      BY <1>2 DEF Sound, Users
    <3>4. TheUser(row.ox, h.p)
      BY <3>3, <2>1, <2>2, <2>3, <2>8 DEF RowsSound, Copies, WithStatus
    <3>5. RowsSound(h.p)' /\ kc'[h.p] # -1
      BY <3>3, <3>4, <2>1, <2>2, <2>4, <2>8, <1>2, CopyWritten
    <3>6. ~IsRequested(h.p)' /\ ~IsServed(h.p)' /\ RowsOf(h.p)' # {}
      BY <3>2, <2>3, <2>5, <1>2 DEF IsRequested, IsServed, ServingOf
    <3>7. \A x : x.p = h.p /\ Disables(x) => Disables(x)'
      <4>1. PICK i \in DOMAIN emails : i = row.id
        BY <2>3
      <4>2. emails'[i].status = "DISABLED" /\ emails'[i].ox = emails[i].ox /\ emails'[i].address = emails[i].address
        BY <4>1, <2>2, <2>5
      <4> QED
        BY <4>1, <4>2, <2>5, <1>2, DisablesKept
    <3>8. ASSUME NEW g \in next, next = {g}, g.kind = "person" /\ g.pc = "disable" /\ g.p = h.p,
                 g.todo = h.todo \ {row}
          PROVE  Sound(h.p)'
      <4>1. \A i \in WithStatus(h.p, "ENABLED")' : \E r \in g.todo : r.id = i
        <5> SUFFICES ASSUME NEW i \in WithStatus(h.p, "ENABLED")' PROVE \E r \in g.todo : r.id = i
          OBVIOUS
        <5>1. i \in WithStatus(h.p, "ENABLED") /\ i # row.id
          BY <2>5
        <5>2. PICK r \in h.todo : r.id = i
          BY <5>1, <3>2
        <5> QED
          BY <5>1, <5>2, <3>8
      <4>2. Disables(g)'
        BY <3>7, <3>8, <1>6
      <4>3. ServesAt(g)'
        BY <4>1, <4>2, <3>6, <3>8 DEF ServesAt
      <4>4. g.pc # "start" /\ \A x \in next : x = g
        BY <3>8
      <4> QED
        BY <4>3, <4>4, <3>2, <3>5, <3>6, <3>8, <2>8, <1>2, <1>5, SoundServes
    <3>9. CASE h.todo \ {row} = {} /\ \A x \in next : x.p = h.p /\ x.kind \in {"oxDisabled", "kcDisabled"}
      <4>1. ~Enabled(h.p)'
        <5> SUFFICES ASSUME NEW i \in WithStatus(h.p, "ENABLED")' PROVE FALSE
          BY DEF Enabled
        <5>1. i \in WithStatus(h.p, "ENABLED") /\ i # row.id
          BY <2>5
        <5>2. PICK r \in h.todo : r.id = i
          BY <5>1, <3>2
        <5> QED
          BY <5>1, <5>2, <3>9
      <4>2. \A x \in next : x.p = h.p /\ BesideKind(x)
        BY <3>9 DEF BesideKind
      <4> QED
        BY <4>1, <4>2, <3>2, <3>5, <3>6, <2>8, <1>2, <1>5, SoundServed
    <3> QED
      BY <3>8, <3>9, <1>5
  <2> QED
    BY <2>7, <2>8
<1> QED
  BY <1>7, <1>8

\* One school: whoever has an address keeps it, or gets it back.
LEMMA CreateOrEnableDoes ==
    ASSUME EmailTypeInv, NEW h, HandlerOK(h), CreateOrEnable(h), ~db[h.p].gone
    PROVE  /\ h.kind = "person" /\ h.pc = "school" /\ UNCHANGED <<db, serving, table, ox, oxGroups, kc, twice>>
           /\ \E told : \E s \in h.todo :
                 /\ \A y \in told : y.p = h.p /\ y.kind = "exists"
                 /\ RowsOf(h.p) = {} => told = {}
                 /\ \/ /\ \A i \in RowsOf(h.p) : emails[i].status \notin {"ENABLED", "DISABLED"}
                       /\ \E g : /\ Become(h, told \cup {g}) /\ g.kind = "person" /\ g.p = h.p /\ g.pc = "address"
                                 /\ g.after = "generated" /\ g.todo = h.todo \ {s}
                    \/ /\ Enabled(h.p)
                       /\ \E x : Become(h, NextSchool(x) \cup told) /\ HandlerOK(x) /\ x.kind = "person" /\ x.p = h.p
                    \/ \E i \in WithStatus(h.p, "DISABLED") :
                       \E g : /\ Become(h, told \cup {g}) /\ g.kind = "person" /\ g.p = h.p /\ g.pc = "check"
                              /\ g.after = "generated" /\ g.row = [emails[i] EXCEPT !.status = "ENABLED"]
<1>1. h.kind = "person" /\ h.pc = "school" /\ UNCHANGED <<db, serving, table, ox, oxGroups, kc, twice>>
  BY DEF CreateOrEnable, Outside, OxData
<1>2. PICK s \in h.todo :
        LET g == [h EXCEPT !.todo = @ \ {s}, !.school = s, !.after = "generated"]
            rows == RowsOf(h.p)
            usable == {i \in rows : emails[i].status \in {"ENABLED", "DISABLED"}}
            newest == emails[Newest(usable)]
            told == IF rows = {} THEN {} ELSE {Sub(g, "exists")}
        IN  \/ /\ db[h.p].gone
               /\ Become(h, NextSchool(g))
            \/ /\ ~db[h.p].gone /\ usable = {}
               /\ Become(h, told \cup {[g EXCEPT !.pc = "address"]})
            \/ /\ ~db[h.p].gone /\ usable # {} /\ newest.status = "ENABLED"
               /\ Become(h, told \cup NextSchool(g))
            \/ /\ ~db[h.p].gone /\ usable # {} /\ newest.status = "DISABLED"
               /\ Become(h, told \cup {[g EXCEPT !.pc = "check",
                                         !.row = [newest EXCEPT !.status = "ENABLED"]]})
  BY Zenon DEF CreateOrEnable
<1> DEFINE usable == {i \in RowsOf(h.p) : emails[i].status \in {"ENABLED", "DISABLED"}}
<1>3. PICK x : x = [h EXCEPT !.todo = @ \ {s}, !.school = s, !.after = "generated"]
  OBVIOUS
<1>4. /\ DOMAIN x = Fields /\ x.kind = "person" /\ x.pc = "school" /\ x.p = h.p /\ x.user = h.user /\ x.row = h.row
      /\ x.removed = h.removed /\ x.ox = h.ox /\ x.mail = h.mail /\ x.seen = h.seen /\ x.todo = h.todo \ {s}
      /\ x.after = "generated"
  BY <1>1, <1>3 DEF HandlerOK, Fields
<1>5. HandlerOK(x)
  BY <1>1, <1>4 DEF HandlerOK, PcOK, WithRow, Listing
<1>6. PICK told : told = IF RowsOf(h.p) = {} THEN {} ELSE {Sub(x, "exists")}
  OBVIOUS
<1>7. (\A y \in told : y.p = h.p /\ y.kind = "exists") /\ (RowsOf(h.p) = {} => told = {})
  BY <1>4, <1>6 DEF Sub, Handler
<1>8. \/ usable = {} /\ Become(h, told \cup {[x EXCEPT !.pc = "address"]})
      \/ usable # {} /\ emails[Newest(usable)].status = "ENABLED" /\ Become(h, told \cup NextSchool(x))
      \/ /\ usable # {} /\ emails[Newest(usable)].status = "DISABLED"
         /\ Become(h, told \cup {[x EXCEPT !.pc = "check",
                                     !.row = [emails[Newest(usable)] EXCEPT !.status = "ENABLED"]]})
  BY <1>2, <1>3, <1>6
<1>9. usable # {} => Newest(usable) \in usable
  <2>1. EmailsOK /\ usable \subseteq DOMAIN emails
    BY DEF EmailTypeInv, RowsOf
  <2> QED
    BY <2>1, NewestIsMember
<1>10. \A i \in usable : i \in RowsOf(h.p)
  OBVIOUS
<1>11. usable = {} => \A i \in RowsOf(h.p) : emails[i].status \notin {"ENABLED", "DISABLED"}
  OBVIOUS
<1> HIDE DEF usable
<1>12. ASSUME usable = {} /\ Become(h, told \cup {[x EXCEPT !.pc = "address"]})
       PROVE  \E g : /\ Become(h, told \cup {g}) /\ g.kind = "person" /\ g.p = h.p /\ g.pc = "address"
                     /\ g.after = "generated" /\ g.todo = h.todo \ {s}
  <2>1. PICK g : g = [x EXCEPT !.pc = "address"]
    OBVIOUS
  <2>2. g.kind = "person" /\ g.p = h.p /\ g.pc = "address" /\ g.after = "generated" /\ g.todo = h.todo \ {s}
    BY <2>1, <1>4 DEF Fields
  <2>3. Become(h, told \cup {g})
    BY <2>1, <1>12
  <2> QED
    BY <2>2, <2>3
<1>13. ASSUME usable # {} /\ emails[Newest(usable)].status = "ENABLED" /\ Become(h, told \cup NextSchool(x))
       PROVE  Enabled(h.p) /\ Become(h, NextSchool(x) \cup told)
  <2>1. Enabled(h.p)
    BY <1>9, <1>10, <1>13 DEF Enabled, WithStatus
  <2>2. told \cup NextSchool(x) = NextSchool(x) \cup told
    OBVIOUS
  <2>3. Become(h, NextSchool(x) \cup told)
    BY <2>2, <1>13
  <2> QED
    BY <2>1, <2>3
<1>14. ASSUME /\ usable # {} /\ emails[Newest(usable)].status = "DISABLED"
              /\ Become(h, told \cup {[x EXCEPT !.pc = "check",
                                     !.row = [emails[Newest(usable)] EXCEPT !.status = "ENABLED"]]})
       PROVE  \E i \in WithStatus(h.p, "DISABLED") :
              \E g : /\ Become(h, told \cup {g}) /\ g.kind = "person" /\ g.p = h.p /\ g.pc = "check"
                     /\ g.after = "generated" /\ g.row = [emails[i] EXCEPT !.status = "ENABLED"]
  <2>1. PICK i : i = Newest(usable)
    OBVIOUS
  <2>2. i \in WithStatus(h.p, "DISABLED")
    BY <2>1, <1>9, <1>10, <1>14 DEF WithStatus
  <2>3. PICK g : g = [x EXCEPT !.pc = "check", !.row = [emails[i] EXCEPT !.status = "ENABLED"]]
    OBVIOUS
  <2>4. /\ g.kind = "person" /\ g.p = h.p /\ g.pc = "check" /\ g.after = "generated"
        /\ g.row = [emails[i] EXCEPT !.status = "ENABLED"]
    BY <2>3, <1>4 DEF Fields
  <2>5. Become(h, told \cup {g})
    BY <2>1, <2>3, <1>14
  <2> QED
    BY <2>2, <2>4, <2>5
<1>15. \/ /\ \A i \in RowsOf(h.p) : emails[i].status \notin {"ENABLED", "DISABLED"}
          /\ \E g : /\ Become(h, told \cup {g}) /\ g.kind = "person" /\ g.p = h.p /\ g.pc = "address"
                    /\ g.after = "generated" /\ g.todo = h.todo \ {s}
       \/ /\ Enabled(h.p)
          /\ \E y : Become(h, NextSchool(y) \cup told) /\ HandlerOK(y) /\ y.kind = "person" /\ y.p = h.p
       \/ \E i \in WithStatus(h.p, "DISABLED") :
          \E g : /\ Become(h, told \cup {g}) /\ g.kind = "person" /\ g.p = h.p /\ g.pc = "check"
                 /\ g.after = "generated" /\ g.row = [emails[i] EXCEPT !.status = "ENABLED"]
  BY <1>4, <1>5, <1>8, <1>11, <1>12, <1>13, <1>14, Zenon
<1> QED
  BY <1>1, <1>2, <1>7, <1>15, Zenon

LEMMA CreateOrEnableSound ==
    ASSUME EmailAssumption, EmailTypeInv, Separate, NEW h \in Running, Sound(h.p), CreateOrEnable(h)
    PROVE  Sound(h.p)'
<1>1. HandlerOK(h) /\ h.p \in Persons
  BY SeparateFacts
<1>2. h.kind = "person" /\ h.pc = "school"
  BY DEF CreateOrEnable
<1>3. kc[h.p] # -1 /\ ~db[h.p].gone /\ Local(h)
  BY <1>2, StaysThere DEF Ending
<1>4. UNCHANGED <<db, serving, table, ox, oxGroups, kc, twice>> /\ SameRows /\ GroupsShrink
  BY <1>1, <1>3, CreateOrEnableDoes, SameRowsIf DEF GroupsShrink
<1>5. PICK told : \E s \in h.todo :
                 /\ \A y \in told : y.p = h.p /\ y.kind = "exists"
                 /\ RowsOf(h.p) = {} => told = {}
                 /\ \/ /\ \A i \in RowsOf(h.p) : emails[i].status \notin {"ENABLED", "DISABLED"}
                       /\ \E g : /\ Become(h, told \cup {g}) /\ g.kind = "person" /\ g.p = h.p /\ g.pc = "address"
                                 /\ g.after = "generated" /\ g.todo = h.todo \ {s}
                    \/ /\ Enabled(h.p)
                       /\ \E x : Become(h, NextSchool(x) \cup told) /\ HandlerOK(x) /\ x.kind = "person" /\ x.p = h.p
                    \/ \E i \in WithStatus(h.p, "DISABLED") :
                       \E g : /\ Become(h, told \cup {g}) /\ g.kind = "person" /\ g.p = h.p /\ g.pc = "check"
                              /\ g.after = "generated" /\ g.row = [emails[i] EXCEPT !.status = "ENABLED"]
  BY <1>1, <1>3, CreateOrEnableDoes
<1>6. Serving(h)
  BY <1>2, <1>3, LocalIs DEF AsksFirst
<1>7. /\ Only(h) /\ ~IsRequested(h.p) /\ IsServed(h.p)
      /\ RowsOf(h.p) = {} => Alone(h) /\ \A s, t \in h.todo : s = t
  BY <1>2, <1>6 DEF Serving, ServesAt, AtSchool, Enables
<1>8. RowsSound(h.p) /\ RowsSound(h.p)' /\ kc'[h.p] # -1
  BY <1>1, <1>3, <1>4, RowsSoundKept DEF Sound
<1>9. ~IsRequested(h.p)' /\ IsServed(h.p)' /\ (Enabled(h.p)' <=> Enabled(h.p)) /\ RowsOf(h.p)' = RowsOf(h.p)
  BY <1>1, <1>4, <1>7, RowsSame
<1>10. \A y \in told : y.p = h.p /\ BesideKind(y)
  BY <1>5 DEF BesideKind
<1>11. ASSUME NEW s \in h.todo, \A i \in RowsOf(h.p) : emails[i].status \notin {"ENABLED", "DISABLED"},
              NEW g, Become(h, told \cup {g}), g.kind = "person", g.p = h.p, g.pc = "address", g.after = "generated",
              g.todo = h.todo \ {s}
       PROVE  Sound(h.p)'
  <2>1. RowsOf(h.p) = {}
    <3> SUFFICES ASSUME NEW i \in RowsOf(h.p) PROVE FALSE
      OBVIOUS
    <3>1. emails[i] \in Row
      BY DEF RowsOf, EmailTypeInv, EmailsOK
    <3>2. emails[i].status \in {"REQUESTED", "FAILED"}
      BY <3>1, <1>11 DEF Row, AddressStatus
    <3> QED
      BY <3>2, <1>7, <1>8 DEF RowsSound, IsRequested, WithStatus
  <2>2. Become(h, {g}) /\ g.todo = {} /\ Alone(h)
    <3>1. told \cup {g} = {g}
      BY <2>1, <1>5
    <3> QED
      BY <3>1, <2>1, <1>7, <1>11
  <2>3. AsksAt(g)
    BY <2>1, <2>2, <1>7, <1>11 DEF AsksAt, AsksFirst
  <2> QED
    BY <2>2, <2>3, <1>2, <1>3, <1>4, <1>11, SoundGoesOn
<1>12. ASSUME Enabled(h.p), NEW x, Become(h, NextSchool(x) \cup told), HandlerOK(x), x.kind = "person", x.p = h.p
       PROVE  Sound(h.p)'
  BY <1>2, <1>3, <1>7, <1>8, <1>9, <1>10, <1>12, SchoolsGoOn
<1>13. ASSUME NEW i \in WithStatus(h.p, "DISABLED"), NEW g, Become(h, told \cup {g}), g.kind = "person", g.p = h.p,
              g.pc = "check", g.after = "generated", g.row = [emails[i] EXCEPT !.status = "ENABLED"]
       PROVE  Sound(h.p)'
  <2>1. i \in RowsOf(h.p) /\ emails[i] \in Row /\ emails[i].id = i /\ emails[i].owner = h.p
    BY DEF WithStatus, RowsOf, EmailTypeInv, EmailsOK
  <2>2. PICK row : row = g.row
    OBVIOUS
  <2>3. /\ row.id = i /\ row.owner = h.p /\ row.address = emails[i].address /\ row.ox = emails[i].ox
        /\ row.status = "ENABLED"
    BY <2>1, <2>2, <1>13 DEF Row
  <2>4. Copies(g, row, "DISABLED")
    BY <2>3, <1>13 DEF Copies
  <2>5. Enables(g)
    BY <2>2, <2>3, <2>4, <1>7, <1>13 DEF Enables
  <2>6. ServesAt(g)
    BY <2>5, <1>7, <1>13 DEF ServesAt
  <2>7. ServesAt(g)' /\ RowsOf(h.p)' # {} /\ g.pc # "start"
    BY <2>1, <2>6, <1>1, <1>4, <1>9, <1>13, ServesKept
  <2>8. PICK next : next = told \cup {g}
    OBVIOUS
  <2>9. Become(h, next) /\ g \in next /\ \A x \in next : x = g \/ (x.p = h.p /\ BesideKind(x))
    BY <2>8, <1>10, <1>13
  <2> QED
    BY <2>7, <2>9, <1>2, <1>3, <1>7, <1>8, <1>13, SoundServes
<1> QED
  BY <1>5, <1>11, <1>12, <1>13

\* Nothing fails that nobody has been told of.
LEMMA MarkFailedSound ==
    ASSUME EmailAssumption, EmailTypeInv, Separate, NEW h \in Running, Sound(h.p), MarkFailed(h)
    PROVE  Sound(h.p)'
<1>1. HandlerOK(h)
  BY SeparateFacts
<1>2. h.kind \in {"create", "change", "changeDisabled"} /\ h.pc = "failed"
  BY <1>1, MarkFailedDoes
<1>3. kc[h.p] # -1 /\ Local(h)
  BY <1>2, StaysThere DEF Ending
<1> QED
  BY <1>2, <1>3, LocalIs DEF Creates, Changes

\* What no handler touches: the service providers, and what is others'.
LEMMA StepOutside ==
    ASSUME EmailTypeInv, failures' = 0, NEW h, HandlerOK(h), h.p \in Persons, Step(h)
    PROVE  /\ serving' = serving /\ twice \subseteq twice' /\ KcEffect
           /\ \A q \in Persons : q # h.p => db'[q] = db[q]
<1>1. CASE HandlePerson(h) \/ DisableOne(h) \/ CreateOrEnable(h) \/ HandleRenamed(h) \/ Retire(h)
  <2>1. UNCHANGED <<db, serving, kc>> /\ twice \subseteq twice'
    BY <1>1 DEF HandlePerson, DisableOne, CreateOrEnable, HandleRenamed, Retire, Outside
  <2> QED
    BY <2>1 DEF KcEffect
<1>2. CASE ChooseAddress(h) \/ Check(h) \/ Save(h) \/ Enable(h) \/ EnableDisabled(h) \/ Deactivate(h)
  <2>1. UNCHANGED <<db, serving, kc, twice>>
    BY <1>2 DEF ChooseAddress, Check, Save, Enable, EnableDisabled, Deactivate, Outside
  <2> QED
    BY <2>1 DEF KcEffect
<1>3. CASE FindRequested(h) \/ ExistsUser(h) \/ CreateUser(h) \/ ChangeUser(h)
  <2>1. UNCHANGED <<db, serving, kc, twice>>
    BY <1>3 DEF FindRequested, ExistsUser, CreateUser, ChangeUser, Outside
  <2> QED
    BY <2>1 DEF KcEffect
<1>4. CASE AlreadyExists(h) \/ FindGroup(h) \/ CreateGroup(h) \/ AddMember(h) \/ MarkFailed(h)
  <2>1. UNCHANGED <<db, serving, kc, twice>>
    BY <1>4 DEF AlreadyExists, FindGroup, CreateGroup, AddMember, MarkFailed, Outside
  <2> QED
    BY <2>1 DEF KcEffect
<1>5. CASE RemoveMember(h) \/ LeaveRemoved(h) \/ LeaveDisabled(h) \/ LeaveDeleted(h) \/ FreeUsername(h)
  <2>1. UNCHANGED <<db, serving, kc, twice>>
    BY <1>5 DEF RemoveMember, LeaveRemoved, LeaveDisabled, LeaveDeleted, FreeUsername, Outside
  <2> QED
    BY <2>1 DEF KcEffect
<1>6. CASE UpdateAttributes(h) \/ RemoveAttributes(h)
  BY <1>6, AttributesDoes
<1>7. CASE DeleteRow(h)
  <2>1. UNCHANGED <<serving, kc, twice>> /\ \A q \in Persons : q # h.p => db'[q] = db[q]
    BY <1>7, DeleteRowDoes
  <2> QED
    BY <2>1 DEF KcEffect
<1> QED
  BY <1>1, <1>2, <1>3, <1>4, <1>5, <1>6, <1>7 DEF Step

\* A handler keeps its person on the way, and leaves the others where they are.
LEMMA StepSound ==
    ASSUME EmailAssumption, EmailTypeInv, EmailTypeInv', Separate, failures' = 0, NEW h \in Running, Step(h),
           Sound(h.p), h.p \notin twice'
    PROVE  Sound(h.p)'
<1>1. CASE HandlePerson(h) \/ DisableOne(h) \/ CreateOrEnable(h) \/ HandleRenamed(h) \/ Retire(h)
  BY <1>1, HandlePersonSound, DisableOneSound, CreateOrEnableSound, HandleRenamedSound, RetireSound
<1>2. CASE ChooseAddress(h) \/ Check(h) \/ Save(h) \/ Enable(h) \/ EnableDisabled(h) \/ Deactivate(h)
  BY <1>2, ChooseAddressSound, CheckSound, SaveSound, EnableSound, DeactivateSound
<1>3. CASE FindRequested(h) \/ ExistsUser(h) \/ CreateUser(h) \/ ChangeUser(h)
  BY <1>3, FindRequestedSound, ExistsUserSound, CreateUserSound, ChangeUserSound
<1>4. CASE AlreadyExists(h) \/ FindGroup(h) \/ CreateGroup(h) \/ AddMember(h) \/ MarkFailed(h)
  BY <1>4, AlreadyExistsSound, GroupsSound, MarkFailedSound
<1>5. CASE \/ RemoveMember(h) \/ LeaveRemoved(h) \/ LeaveDisabled(h) \/ LeaveDeleted(h) \/ FreeUsername(h)
           \/ UpdateAttributes(h) \/ RemoveAttributes(h) \/ DeleteRow(h)
  BY <1>5, LeavesSound, FreeUsernameSound, UpdateAttributesSound, RemoveAttributesSound, DeleteRowSound
<1> QED
  BY <1>1, <1>2, <1>3, <1>4, <1>5 DEF Step

LEMMA RestSound ==
    ASSUME NEW q \in Persons, KeptFor(q), IsServed(q)' <=> IsServed(q), kc'[q] = -1 <=> kc[q] = -1,
           \A g \in Running : g.p # q, \A g \in Running' : g.p # q, Sound(q)
    PROVE  Sound(q)'
<1>1. RowsOf(q)' = RowsOf(q) /\ Users(q)' = Users(q) /\ \A i \in RowsOf(q) : emails'[i] = emails[i]
  BY DEF KeptFor
<1>2. /\ WithStatus(q, "ENABLED")' = WithStatus(q, "ENABLED")
      /\ WithStatus(q, "REQUESTED")' = WithStatus(q, "REQUESTED")
  BY <1>1 DEF WithStatus
<1>3. (Enabled(q)' <=> Enabled(q)) /\ (IsRequested(q)' <=> IsRequested(q)) 
  BY <1>2 DEF Enabled, IsRequested
<1>4. RowsSound(q)'
  BY <1>1, <1>2, <1>3 DEF Sound, RowsSound, TheUser
<1>5. Promised(q)'
  BY <1>3 DEF Sound, Promised
<1> QED
  BY <1>4, <1>5 DEF Sound

AllSound == \A p \in Persons \ twice : Sound(p)

LEMMA StepAllSound ==
    ASSUME EmailAssumption, EmailTypeInv, EmailTypeInv', Separate, Smooth', NEW h \in Running, Step(h), AllSound
    PROVE  AllSound'
<1>1. HandlerOK(h) /\ h.p \in Persons /\ failures' = 0
  BY SeparateFacts DEF Smooth
<1>2. /\ serving' = serving /\ twice \subseteq twice' /\ KcEffect
      /\ \A q \in Persons : q # h.p => db'[q] = db[q]
  BY <1>1, StepOutside
<1>3. OthersKept(h.p)
  BY StepOwn
<1>4. ASSUME NEW q \in Persons, q \notin twice' PROVE Sound(q)'
  <2>1. Sound(q)
    BY <1>2, <1>4 DEF AllSound
  <2>2. CASE q = h.p
    BY <2>1, <2>2, <1>1, <1>4, StepSound
  <2>3. CASE q # h.p
    <3>1. KeptFor(q) /\ \A g \in Running' : g.p # q
      BY <2>3, <1>3 DEF OthersKept
    <3>2. (IsServed(q)' <=> IsServed(q)) /\ (kc'[q] = -1 <=> kc[q] = -1)
      BY <2>3, <1>2 DEF KcEffect, IsServed, ServingOf
    <3>3. \A g \in Running : g.p # q
      BY <2>3 DEF Separate
    <3> QED
      BY <2>1, <3>1, <3>2, <3>3, <1>2, RestSound
  <2> QED
    BY <2>2, <2>3
<1> QED
  BY <1>4 DEF AllSound

\* What is left in use by those who leave becomes less with every step.
LeavesLess(h) ==
    /\ \A x \in Running : x # h => x \in Running'
    /\ \A i \in DOMAIN emails' : Used(i)' =>
          /\ i \in DOMAIN emails /\ Used(i) /\ emails'[i].address = emails[i].address
          /\ emails'[i].owner = emails[i].owner \/ emails[i].owner = h.p
          /\ h.kind = "deleted" => emails[i].address # h.mail

LEMMA LeavingReadsLess ==
    ASSUME EmailTypeInv, NEW h \in Running, UNCHANGED table, NEW next, Become(h, next), h.kind # "deleted"
    PROVE  LeavesLess(h)
BY RunningChanged DEF LeavesLess, table, Used

LEMMA DisableOneLess ==
    ASSUME EmailAssumption, EmailTypeInv, Separate, NEW h \in Running, DisableOne(h), Sound(h.p), kc[h.p] = -1
    PROVE  LeavesLess(h)
<1>1. HandlerOK(h) /\ h.p \in Persons /\ OwnHandler(h)
  BY SeparateFacts
<1>2. h.kind = "person" /\ h.pc = "disable" /\ Disables(h)
  BY <1>1, DisableOneDoes DEF Sound, Local
<1>3. PICK row \in h.todo : IF Violates(row) THEN UNCHANGED table ELSE Write(row)
  BY <1>1, DisableOneDoes
<1>4. PICK next : Become(h, next)
  BY <1>1, DisableOneDoes
<1>5. CASE UNCHANGED table
  BY <1>2, <1>4, <1>5, LeavingReadsLess
<1>6. CASE ~Violates(row)
  <2>1. row.owner = h.p /\ h.p # Nobody
    BY <1>1, <1>2, SeparateFacts DEF OwnHandler, OwnRow
  <2>2. ~db[h.p].gone
    BY <2>1, <1>6 DEF Violates
  <2>3. PICK from \in {"ENABLED", "DISABLED"} : Copies(h, row, from)
    BY <2>2, <1>2 DEF Disables
  <2>4. row.status = "DISABLED" /\ row.id \in RowsOf(h.p)
    BY <2>2, <2>3, <1>2 DEF Disables, Copies, WithStatus
  <2>5. Write(row)
    BY <1>3, <1>6
  <2>6. DOMAIN emails' = DOMAIN emails /\ emails'[row.id] = row /\ \A j \in DOMAIN emails : j # row.id => emails'[j] = emails[j]
    BY <2>1, <2>4, <2>5, RowReplaced
  <2>7. \A x \in Running : x # h => x \in Running'
    BY <1>4, RunningChanged
  <2> QED
    BY <2>4, <2>6, <2>7, <1>2 DEF LeavesLess, Used
<1> QED
  BY <1>3, <1>5, <1>6

LEMMA DeactivateLess ==
    ASSUME EmailAssumption, EmailTypeInv, Separate, NEW h \in Running, Deactivate(h)
    PROVE  LeavesLess(h)
<1>1. HandlerOK(h)
  BY SeparateFacts
<1>2. h.kind = "deleted" /\ Become(h, {})
  BY <1>1, DeactivateDoes
<1>3. \A x \in Running : x # h => x \in Running'
  BY <1>2, RunningChanged
<1>4. CASE (\A i \in DOMAIN emails : emails[i].address # h.mail) /\ UNCHANGED table
  BY <1>3, <1>4 DEF LeavesLess, table, Used
<1>5. ASSUME NEW i \in DOMAIN emails, emails[i].address = h.mail, DOMAIN emails' = DOMAIN emails,
             emails'[i] = [emails[i] EXCEPT !.status = "DISABLED"],
             \A j \in DOMAIN emails : j # i => emails'[j] = emails[j]
      PROVE  LeavesLess(h)
  <2>1. emails[i] \in Row /\ \A j \in DOMAIN emails : j # i => emails[j].address # h.mail
    BY <1>5 DEF EmailTypeInv, EmailsOK
  <2>2. emails'[i].status = "DISABLED"
    BY <2>1, <1>5 DEF Row
  <2> QED
    BY <2>1, <2>2, <1>3, <1>5 DEF LeavesLess, Used
<1> QED
  BY <1>1, <1>4, <1>5, DeactivateDoes

LEMMA LeavingLess ==
    ASSUME EmailAssumption, EmailTypeInv, Separate, failures' = 0, NEW h \in Running, Step(h), Sound(h.p), h.p \notin twice',
           kc[h.p] = -1
    PROVE  LeavesLess(h)
<1>1. HandlerOK(h) /\ h.p \in Persons /\ LeavingKind(h) /\ PcOK(h)
  BY SeparateFacts DEF KindOK
<1>2. \/ h.kind = "person" /\ h.pc \in {"start", "disable"}
      \/ h.kind \in {"deleted", "oxDeleted", "deleteRow", "oxUpdated", "oxDisabled", "kcDisabled"}
         /\ h.pc \in {"start", "leave", "free"}
  BY <1>1 DEF LeavingKind, Ending, PcOK
<1>3. CASE HandlePerson(h)
  BY <1>1, <1>3, HandlePersonDoes, LeavingReadsLess
<1>4. CASE DisableOne(h)
  BY <1>4, DisableOneLess
<1>5. CASE Deactivate(h)
  BY <1>5, DeactivateLess
<1>6. CASE RemoveMember(h)
  BY <1>1, <1>6, RemoveMemberDoes, LeavingReadsLess
<1>7. CASE LeaveRemoved(h) \/ LeaveDisabled(h)
  BY <1>1, <1>7, LeaveDoes, LeavingReadsLess
<1>8. CASE LeaveDeleted(h)
  BY <1>1, <1>8, LeaveDeletedDoes, LeavingReadsLess
<1>9. CASE FreeUsername(h)
  <2>1. h.pc = "free" /\ UNCHANGED table /\ Become(h, {})
    BY <1>9 DEF FreeUsername, End
  <2>2. h.kind # "deleted"
    BY <2>1, <1>1 DEF PcOK
  <2> QED
    BY <2>1, <2>2, LeavingReadsLess
<1>10. CASE UpdateAttributes(h) \/ RemoveAttributes(h)
  BY <1>1, <1>10, AttributesDoes, LeavingReadsLess
<1>11. CASE DeleteRow(h)
  <2>1. h.kind = "deleteRow" /\ \A x \in Running : x # h => x \in Running'
    BY <1>1, <1>11, DeleteRowDoes, RunningChanged
  <2>2. /\ DOMAIN emails' = DOMAIN emails
        /\ \A i \in DOMAIN emails :
              /\ emails'[i].address = emails[i].address /\ emails'[i].status = emails[i].status
              /\ emails[i].owner # h.p => emails'[i] = emails[i]
    BY <1>1, <1>11, DeleteRowDoes
  <2> QED
    BY <2>1, <2>2 DEF LeavesLess, Used
<1>12. ~CreateOrEnable(h) /\ ~HandleRenamed(h) /\ ~Retire(h) /\ ~ChooseAddress(h) /\ ~Check(h) /\ ~Save(h)
  BY <1>2 DEF CreateOrEnable, HandleRenamed, Retire, ChooseAddress, Check, Save
<1>13. ~Enable(h) /\ ~EnableDisabled(h) /\ ~FindRequested(h) /\ ~ExistsUser(h) /\ ~CreateUser(h) /\ ~ChangeUser(h)
  BY <1>2 DEF Enable, EnableDisabled, FindRequested, ExistsUser, CreateUser, ChangeUser
<1>14. ~AlreadyExists(h) /\ ~FindGroup(h) /\ ~CreateGroup(h) /\ ~AddMember(h) /\ ~MarkFailed(h)
  BY <1>2 DEF AlreadyExists, FindGroup, CreateGroup, AddMember, MarkFailed
<1> QED
  BY <1>3, <1>4, <1>5, <1>6, <1>7, <1>8, <1>9, <1>10, <1>11, <1>12, <1>13, <1>14 DEF Step

LEMMA LastUseStep ==
    ASSUME EmailAssumption, EmailTypeInv, EmailTypeInv', Separate, Smooth', NEW h \in Running, Step(h),
           Sound(h.p), h.p \notin twice', LastUse
    PROVE  LastUse'
<1>1. HandlerOK(h) /\ h.p \in Persons /\ failures' = 0
  BY SeparateFacts DEF Smooth
<1>2. KcEffect /\ OthersKept(h.p)
  BY <1>1, StepOutside, StepOwn
<1> SUFFICES ASSUME NEW i \in DOMAIN emails', Used(i)', emails'[i].owner = Nobody \/ kc'[emails'[i].owner] = -1
             PROVE  \E g \in Running' : g.kind = "deleted" /\ g.mail = emails'[i].address
  BY DEF LastUse, Used
<1>3. emails'[i].owner = Nobody \/ emails'[i].owner \in Persons
  <2>1. emails'[i] \in Row
    BY DEF EmailTypeInv, EmailsOK
  <2> QED
    BY <2>1 DEF Row
<1>4. CASE kc[h.p] # -1
  <2>1. ~\E g \in Running : g.kind = "deleted"
    BY <1>4 DEF Separate, KindOK, Ending
  <2>2. CASE emails'[i].owner = Nobody
    <3>1. i \in DOMAIN emails /\ Used(i) /\ emails[i].owner = Nobody
      BY <2>2, <1>2, <1>4 DEF OthersKept
    <3> QED
      BY <3>1, <2>1 DEF LastUse, Used
  <2>3. CASE emails'[i].owner # Nobody
    <3>1. PICK q \in Persons : q = emails'[i].owner /\ kc[q] = -1
      BY <2>3, <1>2, <1>3 DEF KcEffect
    <3>2. KeptFor(q) /\ i \in RowsOf(q)'
      BY <3>1, <1>2, <1>4 DEF OthersKept, RowsOf
    <3>3. i \in DOMAIN emails /\ emails[i].owner = q /\ Used(i)
      BY <3>2 DEF KeptFor, RowsOf, Used
    <3> QED
      BY <3>1, <3>3, <2>1 DEF LastUse, Used
  <2> QED
    BY <2>2, <2>3
<1>5. CASE kc[h.p] = -1
  <2>1. LeavesLess(h)
    BY <1>1, <1>5, LeavingLess
  <2>2. /\ i \in DOMAIN emails /\ Used(i) /\ emails'[i].address = emails[i].address
        /\ emails'[i].owner = emails[i].owner \/ emails[i].owner = h.p
        /\ h.kind = "deleted" => emails[i].address # h.mail
    BY <2>1 DEF LeavesLess
  <2>3. emails[i].owner = Nobody \/ kc[emails[i].owner] = -1
    BY <2>2, <1>2, <1>3, <1>5 DEF KcEffect
  <2>4. PICK g \in Running : g.kind = "deleted" /\ g.mail = emails[i].address
    BY <2>2, <2>3 DEF LastUse, Used
  <2> QED
    BY <2>1, <2>2, <2>4 DEF LeavesLess
<1> QED
  BY <1>4, <1>5

\* An event from outside finds nothing under way.
LEMMA Begins ==
    ASSUME EmailTypeInv, overlaps' = 0, NEW next, PublishAll(next)
    PROVE  /\ Running = {} /\ Running' = next /\ \A g \in next : handlers'[g] = 1
           /\ \A g, h \in next : g.p = h.p
<1>1. Quiet /\ (\A g, h \in next : g.p = h.p) /\ handlers' = handlers (+) SetToBag(next)
  <2>1. overlaps \in Nat
    BY DEF EmailTypeInv, CountsOK
  <2> QED
    BY <2>1 DEF PublishAll
<1>2. IsABag(handlers)
  BY DEF EmailTypeInv, HandlersOK
<1>3. BagToSet(handlers') = BagToSet(handlers) \cup next /\ \A g \in next : handlers'[g] = 1
  BY <1>1, <1>2, BagBegun DEF Quiet
<1> QED
  BY <1>1, <1>3, NobodyQuiet DEF Running, Quiet

LEMMA AtRest ==
    ASSUME Running = {}, NEW p, Sound(p), kc[p] # -1
    PROVE  ~IsRequested(p) /\ (IsServed(p) <=> Enabled(p))
BY DEF Sound, Promised

\* Who is told of a change begins to serve, or to rename, beside nothing but the
\* end of memberships.
LEMMA ToldSound ==
    ASSUME EmailTypeInv, Running = {}, NEW p \in Persons, Sound(p), kc[p] # -1, UNCHANGED <<emails, ox, kc>>,
           NEW g \in Running', handlers'[g] = 1, g.p = p, \A x \in Running' : x = g \/ (x.p = p /\ x.kind = "oxUpdated"),
           \/ g.kind = "person" /\ g.pc = "start" /\ g.removed = {}
           \/ RenameStarts(g)'
    PROVE  Sound(p)'
<1>1. ~IsRequested(p)
  BY AtRest
<1>2. RowsOf(p)' = RowsOf(p) /\ Users(p)' = Users(p) /\ kc'[p] # -1 /\ \A s : WithStatus(p, s)' = WithStatus(p, s)
  BY DEF RowsOf, Users, WithStatus
<1>3. ~IsRequested(p)'
  BY <1>1, <1>2 DEF IsRequested
<1>4. RowsSound(p)'
  <2>1. RowsSound(p)
    BY DEF Sound
  <2> QED
    BY <2>1, <1>2, <1>3 DEF RowsSound, TheUser
<1>5. Alone(g)' /\ Only(g)'
  BY DEF Alone, Only
<1>6. Asking(g)' \/ Serving(g)'
  <2>1. CASE g.kind = "person" /\ g.pc = "start" /\ g.removed = {}
    BY <2>1, <1>3, <1>5 DEF Serving, ServesAt
  <2>2. CASE RenameStarts(g)'
    BY <2>2, <1>3, <1>5 DEF Asking, AsksAt
  <2> QED
    BY <2>1, <2>2
<1>7. \A x \in Running' : Local(x)'
  BY <1>2, <1>6 DEF Local
<1>8. Promised(p)'
  BY <1>6 DEF Promised
<1> QED
  BY <1>4, <1>7, <1>8 DEF Sound

LEMMA UpdateSound ==
    ASSUME EmailAssumption, EmailTypeInv, Separate, overlaps' = 0, NEW p \in Persons, kc[p] # -1, Sound(p),
           NEW kontexte \in SUBSET Kontexte, Update(p, kontexte)
    PROVE  Sound(p)'
<1>1. UNCHANGED <<emails, ox, kc>>
  BY UpdateDoes DEF table
<1>2. PICK g, u : /\ PublishAll({g, u})
                  /\ g.kind = "person" /\ g.p = p /\ g.pc = "start" /\ g.removed = {} /\ g.ox = 0 /\ g.seen = Loaded(p)
                  /\ u.kind = "oxUpdated" /\ u.p = p /\ u.pc = "start" /\ u.ox = 0 /\ u.seen = Loaded(p)
  BY UpdateDoes
<1>3. PICK next : next = {g, u}
  OBVIOUS
<1>4. Running = {} /\ Running' = next /\ handlers'[g] = 1
  BY <1>2, <1>3, Begins
<1> QED
  BY <1>1, <1>2, <1>3, <1>4, ToldSound

LEMMA RenameSound ==
    ASSUME EmailAssumption, EmailTypeInv, Separate, overlaps' = 0, NEW p \in Persons, kc[p] # -1, Sound(p), Rename(p)
    PROVE  Sound(p)'
<1>1. UNCHANGED <<emails, ox, kc, serving>> /\ db'[p].kontexte = db[p].kontexte
  BY RenameDoes DEF table
<1>2. PICK g : /\ PublishAll({g})
               /\ g.kind = "renamed" /\ g.p = p /\ g.pc = "start" /\ g.seen = Loaded(p)
  BY RenameDoes
<1>3. PICK next : next = {g}
  OBVIOUS
<1>4. Running = {} /\ Running' = next /\ handlers'[g] = 1
  BY <1>2, <1>3, Begins
<1>5. RenameStarts(g)'
  <2>1. ~IsRequested(p) /\ (IsServed(p) <=> Enabled(p))
    BY <1>4, AtRest
  <2>2. RowsOf(p)' = RowsOf(p) /\ WithStatus(p, "ENABLED")' = WithStatus(p, "ENABLED")
    BY <1>1 DEF RowsOf, WithStatus
  <2>3. IsServed(p)' <=> Enabled(p)'
    BY <1>1, <2>1, <2>2 DEF IsServed, ServingOf, Enabled
  <2>4. ASSUME NEW i \in RowsOf(p)
        PROVE  /\ i \in DOMAIN emails /\ emails[i].owner = p
               /\ emails[i].status \in {"ENABLED", "DISABLED"} /\ updated[i] > 0
    <3>1. i \in DOMAIN emails /\ emails[i].owner = p
      BY <2>4 DEF RowsOf
    <3>2. emails[i] \in Row /\ updated[i] \in Nat \ {0}
      BY <3>1 DEF EmailTypeInv, EmailsOK
    <3>3. emails[i].status \in AddressStatus
      BY <3>2 DEF Row
    <3>4. emails[i].status # "FAILED"
      BY <2>4 DEF Sound, RowsSound
    <3>5. emails[i].status # "REQUESTED"
      BY <2>1, <2>4 DEF IsRequested, WithStatus
    <3> QED
      BY <3>1, <3>2, <3>3, <3>4, <3>5 DEF AddressStatus
  <2>5. DOMAIN g.seen = RowsOf(p) /\ \A i \in RowsOf(p) : g.seen[i] = updated[i]
    BY <1>2 DEF Loaded
  <2>6. RowsOf(p)' # {} => SeenOK(g)'
    BY <1>1, <1>2, <2>2, <2>4, <2>5 DEF SeenOK
  <2> QED
    BY <1>2, <2>3, <2>6 DEF RenameStarts
<1> QED
  BY <1>1, <1>2, <1>3, <1>4, <1>5, ToldSound

\* Who goes has one address in use at most, and a handler is to disable it.
LEMMA DeletePersonSound ==
    ASSUME EmailAssumption, EmailTypeInv, Separate, overlaps' = 0, NEW p \in Persons, kc[p] # -1, Sound(p), DeletePerson(p)
    PROVE  Sound(p)' /\ (LastUse => LastUse')
<1>1. UNCHANGED <<emails, ox>> /\ kc'[p] = -1 /\ \A q \in Persons : q # p => kc'[q] = kc[q]
  BY DeletePersonDoes DEF table
<1>2. PICK next : /\ PublishAll(next)
                  /\ \A g \in next : g.p = p /\ g.pc = "start"
                  /\ Enabled(p) => \E g \in next : /\ g.kind = "deleted"
                                                   /\ \E i \in WithStatus(p, "ENABLED") : g.mail = emails[i].address
  <2>1. PICK next : /\ PublishAll(next) /\ \E h \in next : h.kind = "deleteRow" /\ h.p = p
                    /\ \A g \in next :
                              /\ g.p = p /\ g.pc = "start" /\ g.ox = 0 /\ g.seen = Loaded(p)
                              /\ g.kind \in {"person", "oxUpdated", "deleteRow", "deleted", "oxDeleted"}
                              /\ g.kind = "person" => g.removed = db[p].kontexte
                              /\ g.kind \in {"deleted", "oxDeleted"} => \E i \in RowsOf(p) : g.mail = emails[i].address
                    /\ Enabled(p) => \E g \in next : /\ g.kind = "deleted"
                                                     /\ \E i \in WithStatus(p, "ENABLED") : g.mail = emails[i].address
    BY DeletePersonDoes, Zenon
  <2> QED
    BY <2>1
<1>3. Running = {} /\ Running' = next
  BY <1>2, Begins
<1>4. ~IsRequested(p)
  BY <1>3, AtRest
<1>5. RowsOf(p)' = RowsOf(p) /\ \A s : WithStatus(p, s)' = WithStatus(p, s)
  BY <1>1 DEF RowsOf, WithStatus
<1>6. RowsSound(p)'
  <2>1. RowsSound(p)
    BY DEF Sound
  <2> QED
    BY <2>1, <1>1, <1>4, <1>5 DEF RowsSound, IsRequested
<1>7. Promised(p)' /\ \A h \in Running' : Local(h)'
  BY <1>1, <1>2, <1>3 DEF Promised, Local, Disables
<1>8. ASSUME LastUse, NEW i \in DOMAIN emails', Used(i)', emails'[i].owner = Nobody \/ kc'[emails'[i].owner] = -1
      PROVE  \E h \in Running' : h.kind = "deleted" /\ h.mail = emails'[i].address
  <2>1. emails[i].owner # Nobody /\ kc[emails[i].owner] # -1 /\ i \in DOMAIN emails /\ emails[i].status = "ENABLED"
    BY <1>1, <1>3, <1>8 DEF LastUse, Used
  <2>2. emails[i].owner = p
    BY <2>1, <1>1, <1>8, OwnerTyped
  <2>3. i \in WithStatus(p, "ENABLED")
    BY <2>1, <2>2 DEF WithStatus, RowsOf
  <2>4. PICK g \in next : g.kind = "deleted" /\ \E j \in WithStatus(p, "ENABLED") : g.mail = emails[j].address
    BY <2>3, <1>2 DEF Enabled
  <2>5. \A j \in WithStatus(p, "ENABLED") : j = i
    BY <2>3 DEF Sound, RowsSound
  <2> QED
    BY <2>4, <2>5, <1>1, <1>3
<1> QED
  BY <1>6, <1>7, <1>8 DEF Sound, LastUse, Used

LEMMA UpdateRolleSound ==
    ASSUME EmailAssumption, EmailTypeInv, Separate, overlaps' = 0, NEW r, UpdateRolle(r), NEW p \in Persons, Sound(p)
    PROVE  Sound(p)'
<1>1. UNCHANGED <<db, emails, ox, kc>> /\ \A s : s # r => (s \in serving' <=> s \in serving)
  BY UpdateRolleDoes DEF table
<1>2. PICK next : /\ PublishAll(next)
                  /\ \A x \in Persons : (\E k \in db[x].kontexte : k.rolle = r) => \E g \in next : g.p = x
                  /\ \A g, h \in next : g.p = h.p => g = h
                  /\ \A g \in next : g.p \in Persons /\ g.kind = "person" /\ g.pc = "start" /\ g.removed = {}
                                     /\ \E k \in db[g.p].kontexte : k.rolle = r
  <2>1. PICK next : /\ PublishAll(next)
                    /\ \A x \in Persons : (\E k \in db[x].kontexte : k.rolle = r) =>
                          \E g \in next : g.p = x
                    /\ \A g, h \in next : g.p = h.p => g = h
                    /\ \A g \in next : /\ g.p \in Persons /\ \E k \in db[g.p].kontexte : k.rolle = r
                                       /\ g.kind = "person" /\ g.pc = "start" /\ g.removed = {} /\ g.ox = 0
                                       /\ g.seen = Loaded(g.p)
    BY UpdateRolleDoes, Zenon
  <2> QED
    BY <2>1
<1>3. Running = {} /\ Running' = next /\ (\A g \in next : handlers'[g] = 1) /\ \A g, h \in next : g.p = h.p
  BY <1>2, Begins
<1>4. CASE \E k \in db[p].kontexte : k.rolle = r
  <2>1. PICK g \in next : g.p = p
    BY <1>2, <1>4
  <2>2. \A x \in next : x = g
    BY <1>2, <1>3
  <2>3. kc[p] # -1
    BY <1>3, <1>4 DEF Separate, Ended
  <2> QED
    BY <2>1, <2>2, <2>3, <1>1, <1>2, <1>3, ToldSound
<1>5. CASE ~\E k \in db[p].kontexte : k.rolle = r
  <2>1. \A g \in next : g.p # p
    BY <1>2, <1>5
  <2>2. IsServed(p)' <=> IsServed(p)
    BY <1>1, <1>5 DEF IsServed, ServingOf
  <2>3. KeptFor(p)
    BY <1>1 DEF KeptFor, RowsOf, Users
  <2> QED
    BY <2>1, <2>2, <2>3, <1>1, <1>3, RestSound
<1> QED
  BY <1>4, <1>5

\* Nobody else is concerned by an event, and nothing is in use that nobody
\* disables.
LEMMA OthersRest ==
    ASSUME EmailAssumption, EmailTypeInv, NEW p \in Persons, Running = {}, OthersKept(p), serving' = serving,
           NEW q \in Persons, q # p, Sound(q), db'[q] = db[q], kc'[q] = kc[q]
    PROVE  Sound(q)'
<1>1. KeptFor(q) /\ \A g \in Running' : g.p # q
  BY DEF OthersKept
<1>2. IsServed(q)' <=> IsServed(q)
  BY DEF IsServed, ServingOf
<1> QED
  BY <1>1, <1>2, RestSound

LEMMA NothingLeft ==
    ASSUME LastUse, Running = {}, UNCHANGED <<emails, kc>> PROVE LastUse'
BY DEF LastUse

LEMMA EventSound ==
    ASSUME EmailAssumption, EmailTypeInv, EmailTypeInv', Separate, overlaps' = 0, HappensOutside, AllSound
    PROVE  AllSound' /\ twice' = twice /\ (twice = {} /\ LastUse => LastUse')
<1>1. ASSUME NEW p \in Persons, kc[p] # -1, NEW kontexte \in SUBSET Kontexte, Update(p, kontexte)
      PROVE  AllSound' /\ twice' = twice /\ (twice = {} /\ LastUse => LastUse')
  <2>1. /\ UNCHANGED <<serving, emails, kc, twice>> /\ \A q \in Persons : q # p => db'[q] = db[q]
    BY <1>1, UpdateDoes DEF table
  <2>2. Running = {}
    <3>1. PICK next : PublishAll(next)
      BY <1>1 DEF Update
    <3> QED
      BY <3>1, Begins
  <2>3. OthersKept(p)
    BY <1>1, UpdateOwn
  <2>4. ASSUME NEW q \in Persons, Sound(q) PROVE Sound(q)'
    <3>1. CASE q = p
      BY <1>1, <2>4, <3>1, UpdateSound
    <3>2. CASE q # p
      BY <2>1, <2>2, <2>3, <2>4, <3>2, OthersRest
    <3> QED
      BY <3>1, <3>2
  <2> QED
    BY <2>1, <2>2, <2>4, NothingLeft DEF AllSound
<1>2. ASSUME NEW p \in Persons, kc[p] # -1, Rename(p)
      PROVE  AllSound' /\ twice' = twice /\ (twice = {} /\ LastUse => LastUse')
  <2>1. /\ UNCHANGED <<serving, emails, kc, twice>> /\ \A q \in Persons : q # p => db'[q] = db[q]
    BY <1>2, RenameDoes DEF table
  <2>2. Running = {}
    <3>1. PICK next : PublishAll(next)
      BY <1>2 DEF Rename
    <3> QED
      BY <3>1, Begins
  <2>3. OthersKept(p)
    BY <1>2, RenameOwn
  <2>4. ASSUME NEW q \in Persons, Sound(q) PROVE Sound(q)'
    <3>1. CASE q = p
      BY <1>2, <2>4, <3>1, RenameSound
    <3>2. CASE q # p
      BY <2>1, <2>2, <2>3, <2>4, <3>2, OthersRest
    <3> QED
      BY <3>1, <3>2
  <2> QED
    BY <2>1, <2>2, <2>4, NothingLeft DEF AllSound
<1>3. ASSUME NEW p \in Persons, kc[p] # -1, DeletePerson(p)
      PROVE  AllSound' /\ twice' = twice /\ (twice = {} /\ LastUse => LastUse')
  <2>1. /\ UNCHANGED <<db, serving, twice>> /\ \A q \in Persons : q # p => kc'[q] = kc[q]
    BY <1>3, DeletePersonDoes DEF table
  <2>2. Running = {}
    <3>1. PICK next : PublishAll(next)
      BY <1>3 DEF DeletePerson
    <3> QED
      BY <3>1, Begins
  <2>3. OthersKept(p)
    BY <1>3, DeletePersonOwn
  <2>4. ASSUME NEW q \in Persons, Sound(q) PROVE Sound(q)'
    <3>1. CASE q = p
      BY <1>3, <2>4, <3>1, DeletePersonSound
    <3>2. CASE q # p
      BY <2>1, <2>2, <2>3, <2>4, <3>2, OthersRest
    <3> QED
      BY <3>1, <3>2
  <2>5. twice = {} /\ LastUse => LastUse'
    BY <1>3, DeletePersonSound DEF AllSound
  <2> QED
    BY <2>1, <2>4, <2>5 DEF AllSound
<1>4. ASSUME NEW r, UpdateRolle(r)
      PROVE  AllSound' /\ twice' = twice /\ (twice = {} /\ LastUse => LastUse')
  <2>1. UNCHANGED <<emails, kc, twice>>
    BY <1>4, UpdateRolleDoes DEF table
  <2>2. Running = {}
    <3>1. PICK next : PublishAll(next)
      BY <1>4 DEF UpdateRolle
    <3> QED
      BY <3>1, Begins
  <2>3. \A q \in Persons : Sound(q) => Sound(q)'
    BY <1>4, UpdateRolleSound
  <2> QED
    BY <2>1, <2>2, <2>3, NothingLeft DEF AllSound
<1> QED
  BY <1>1, <1>2, <1>3, <1>4 DEF HappensOutside

\* Nothing has changed.
LEMMA UnchangedSound ==
    ASSUME UNCHANGED <<db, serving, emails, ox, oxGroups, kc, handlers>>, NEW p \in Persons, Sound(p) PROVE Sound(p)'
<1>1. SameRows /\ GroupsShrink
  BY DEF SameRows, KcEffect, GroupsShrink
<1>2. RowsSound(p)'
  BY <1>1, RowsSoundKept DEF Sound
<1>3. Running' = Running
  BY DEF Running
<1>4. \A h : (Alone(h)' <=> Alone(h)) /\ (Only(h)' <=> Only(h))
  BY <1>3 DEF Alone, Only
<1>5. RowsOf(p)' = RowsOf(p) /\ (IsRequested(p)' <=> IsRequested(p))
      /\ (Enabled(p)' <=> Enabled(p)) /\ (IsServed(p)' <=> IsServed(p))
  BY <1>1, RowsSame
<1>6. ASSUME NEW h, h.p = p
      PROVE  /\ Asking(h) => Asking(h)'
             /\ Carrying(h) => Carrying(h)'
             /\ Serving(h) => Serving(h)'
             /\ Beside(h) => Beside(h)'
             /\ Disables(h) => Disables(h)'
  <2>1. Asking(h) => Asking(h)'
    BY <1>1, <1>4, <1>6, AsksKept DEF Asking
  <2>2. Carrying(h) => Carrying(h)'
    BY <1>1, <1>4, <1>6, CarriesKept DEF Carrying
  <2>3. Serving(h) => Serving(h)'
    BY <1>1, <1>4, <1>5, <1>6, ServesKept DEF Serving
  <2>4. (Beside(h) => Beside(h)') /\ (Disables(h) => Disables(h)')
    BY <1>1, <1>6, ServesKept, CopiesKept
  <2> QED
    BY <2>1, <2>2, <2>3, <2>4
<1>7. Promised(p)'
  BY <1>3, <1>5, <1>6 DEF Sound, Promised
<1>8. \A h \in Running' : h.p = p => Local(h)'
  BY <1>3, <1>6 DEF Sound, Local
<1> QED
  BY <1>2, <1>7, <1>8 DEF Sound

\* At the start exactly those who are served have a row, which is enabled.
LEMMA InitSound == ASSUME EmailAssumption, EmailTypeInv, EmailInit PROVE AllSound /\ LastUse
<1>1. PICK has \in [Persons -> SUBSET Kontexte] :
         LET served == {p \in Persons : ServingOf(has[p]) # {}}
             numbers == 1 .. Cardinality(served)
         IN  \E person \in Bijection(numbers, served) :
                 /\ db = [p \in Persons |-> [name |-> 1, kontexte |-> has[p], gone |-> FALSE]]
                 /\ emails = [i \in numbers |->
                        [id |-> i, address |-> <<1, i - 1>>, owner |-> person[i],
                         status |-> "ENABLED", ox |-> i]]
                 /\ updated = [i \in numbers |-> i]
                 /\ ox = [i \in numbers |->
                        [username |-> <<person[i], 1>>, primary |-> <<1, i - 1>>,
                         groups |-> {k.school : k \in ServingOf(has[person[i]])}]]
                 /\ kc = [p \in Persons |-> IF p \in served THEN 1 ELSE 0]
  BY Zenon DEF EmailInit
<1> DEFINE served == {p \in Persons : ServingOf(has[p]) # {}}
           n == Cardinality(served)
<1>2. PICK person \in Bijection(1 .. n, served) :
                 /\ db = [p \in Persons |-> [name |-> 1, kontexte |-> has[p], gone |-> FALSE]]
                 /\ emails = [i \in 1 .. n |->
                        [id |-> i, address |-> <<1, i - 1>>, owner |-> person[i],
                         status |-> "ENABLED", ox |-> i]]
                 /\ ox = [i \in 1 .. n |->
                        [username |-> <<person[i], 1>>, primary |-> <<1, i - 1>>,
                         groups |-> {k.school : k \in ServingOf(has[person[i]])}]]
                 /\ kc = [p \in Persons |-> IF p \in served THEN 1 ELSE 0]
  BY <1>1, Zenon
<1> HIDE DEF n
<1>3. /\ person \in [1 .. n -> served] /\ \A i, j \in 1 .. n : person[i] = person[j] => i = j
      /\ \A p \in served : \E i \in 1 .. n : person[i] = p
  BY <1>2 DEF Bijection, Injection, Surjection, IsInjective
<1> HIDE DEF served
<1>4. /\ DOMAIN emails = 1 .. n /\ DOMAIN ox = 1 .. n
      /\ \A i \in 1 .. n : /\ emails[i].owner = person[i] /\ emails[i].status = "ENABLED" /\ emails[i].ox = i
                           /\ ox[i].username[1] = person[i]
  BY <1>2
<1>5. \A p \in Persons : kc[p] # -1 /\ db[p].kontexte = has[p] /\ p # Nobody
  BY <1>2 DEF EmailAssumption
<1>6. \A i \in 1 .. n : person[i] \in Persons
  BY <1>3 DEF served
<1>7. Running = {}
  BY NobodyQuiet DEF EmailInit, Running
<1>8. ASSUME NEW p \in Persons PROVE Sound(p)
  <2>1. RowsOf(p) = {i \in 1 .. n : person[i] = p} /\ Users(p) = {i \in 1 .. n : person[i] = p}
    BY <1>4 DEF RowsOf, Users
  <2>2. WithStatus(p, "ENABLED") = RowsOf(p) /\ WithStatus(p, "REQUESTED") = {}
    BY <2>1, <1>4 DEF WithStatus
  <2>3. \A i \in RowsOf(p) : RowsOf(p) = {i} /\ Users(p) = {i} /\ emails[i].ox = i /\ emails[i].status = "ENABLED"
    BY <2>1, <1>3, <1>4
  <2>4. RowsOf(p) # {} <=> p \in served
    BY <2>1, <1>3
  <2>5. IsServed(p) <=> p \in served
    BY <1>5 DEF IsServed, served
  <2>6. RowsSound(p)
    BY <2>1, <2>2, <2>3, <1>5 DEF RowsSound, TheUser, IsRequested
  <2>7. Promised(p)
    BY <2>2, <2>4, <2>5 DEF Promised, IsRequested, Enabled
  <2> QED
    BY <2>6, <2>7, <1>7 DEF Sound
<1>9. LastUse
  BY <1>4, <1>5, <1>6 DEF LastUse
<1> QED
  BY <1>8, <1>9 DEF AllSound

LEMMA StepTwice ==
    ASSUME EmailTypeInv, failures' = 0, NEW h \in Running, Step(h), EmailAssumption, Separate
    PROVE  twice' = {} => twice = {}
BY SeparateFacts, StepOutside

LEMMA NextSound ==
    ASSUME EmailAssumption, EmailTypeInv, EmailTypeInv', Separate, Smooth', [EmailNext]_emailVars, AllSound,
           twice = {} => LastUse
    PROVE  AllSound' /\ (twice' = {} => LastUse')
<1>1. failures' = 0 /\ overlaps' = 0
  BY DEF Smooth
<1>2. CASE HappensOutside
  BY <1>1, <1>2, EventSound
<1>3. ASSUME NEW h \in BagToSet(handlers), Step(h) PROVE AllSound' /\ (twice' = {} => LastUse')
  <2>1. h \in Running /\ h.p \in Persons
    BY <1>3, SeparateFacts DEF Running
  <2>2. AllSound'
    BY <2>1, <1>3, StepAllSound
  <2>3. ASSUME twice' = {} PROVE LastUse'
    <3>1. twice = {} /\ Sound(h.p) /\ h.p \notin twice'
      BY <2>1, <2>3, <1>1, <1>3, StepTwice DEF AllSound
    <3> QED
      BY <3>1, <2>1, <1>3, LastUseStep
  <2> QED
    BY <2>2, <2>3
<1>4. CASE UNCHANGED emailVars
  <2>1. UNCHANGED <<db, serving, emails, ox, oxGroups, kc, handlers, twice>>
    BY <1>4 DEF emailVars
  <2>2. Running' = Running
    BY <2>1 DEF Running
  <2>3. twice' = {} => LastUse'
    BY <2>1, <2>2 DEF LastUse
  <2>4. ASSUME NEW p \in Persons, Sound(p) PROVE Sound(p)'
    BY <2>1, <2>2, <2>4, UnchangedSound
  <2> QED
    BY <2>1, <2>3, <2>4 DEF AllSound
<1> QED
  BY <1>2, <1>3, <1>4 DEF EmailNext, Idle

EachSound == Smooth => Separate /\ AllSound /\ (twice = {} => LastUse)

LEMMA EachSoundHolds == EmailSpec => [](EmailTypeInv /\ EachSound)
<1>1. EmailInit => EmailTypeInv /\ EachSound
  BY EmailInitTyped, InitSeparate, InitSound, EmailAssumption DEF EachSound
<1>2. EmailTypeInv /\ EachSound /\ [EmailNext]_emailVars => (EmailTypeInv /\ EachSound)'
  <2> SUFFICES ASSUME EmailTypeInv, EachSound, [EmailNext]_emailVars, EmailTypeInv', Smooth'
               PROVE  Separate' /\ AllSound' /\ (twice' = {} => LastUse')
    BY NextTyped, EmailAssumption DEF EachSound
  <2>1. Separate /\ AllSound /\ (twice = {} => LastUse)
    BY SmoothBefore DEF EachSound
  <2> QED
    BY <2>1, NextSeparate, NextSound, EmailAssumption
<1> QED
  BY <1>1, <1>2, PTL DEF EmailSpec

\* While every event is handled before the next one comes and no call fails,
\* EmailRepo.save() does avoid a second enabled address: nobody but those whose
\* first address was asked for by two schools ever has two, at any step of the
\* handlers.
THEOREM OneEnabledHolds == EmailSpec => [](failures = 0 => OneEnabledAlone)
<1>1. EmailTypeInv /\ EachSound => (failures = 0 => OneEnabledAlone)
  BY DEF EachSound, Smooth, AllSound, Sound, RowsSound, OneEnabledAlone
<1> QED
  BY <1>1, EachSoundHolds, PTL

\* In the same way, once the handlers are done no address of a deleted person
\* is in use: deactivateEmailAddress() has found the one that was.
THEOREM DeletedDisabledHolds == EmailSpec => []DeletedDisabled
<1>1. EmailTypeInv /\ EachSound => DeletedDisabled
  <2> SUFFICES ASSUME EachSound, Calm, twice = {}, NEW i \in DOMAIN emails, emails[i].owner = Nobody,
                      emails[i].status = "ENABLED"
               PROVE  FALSE
    BY DEF DeletedDisabled
  <2>1. Running = {}
    BY NobodyQuiet DEF Calm, Quiet, Running
  <2>2. LastUse
    BY DEF EachSound, Smooth, Calm
  <2> QED
    BY <2>1, <2>2 DEF LastUse
<1> QED
  BY <1>1, EachSoundHolds, PTL

\* And then exactly those whose Rolle has an EMAIL service provider have an
\* enabled address, and no request is left over: the part of CalmServed that
\* concerns the database.
THEOREM ServedHolds ==
    EmailSpec => [](Calm => \A p \in Present \ twice : (IsServed(p) <=> Enabled(p)) /\ ~IsRequested(p))
<1>1. EmailTypeInv /\ EachSound => (Calm => \A p \in Present \ twice : (IsServed(p) <=> Enabled(p)) /\ ~IsRequested(p))
  <2> SUFFICES ASSUME EachSound, Calm, NEW p \in Present \ twice
               PROVE  (IsServed(p) <=> Enabled(p)) /\ ~IsRequested(p)
    OBVIOUS
  <2>1. Running = {}
    BY NobodyQuiet DEF Calm, Quiet, Running
  <2>2. Separate /\ AllSound
    BY DEF EachSound, Smooth, Calm
  <2>3. p \in Persons /\ ~db[p].gone /\ p \notin twice
    BY DEF Present
  <2>4. kc[p] # -1 /\ Sound(p)
    BY <2>1, <2>2, <2>3 DEF Separate, Ended, AllSound
  <2> QED
    BY <2>1, <2>4, AtRest
<1> QED
  BY <1>1, EachSoundHolds, PTL
================================================================================
