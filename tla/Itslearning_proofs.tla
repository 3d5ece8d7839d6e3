------------------------- MODULE Itslearning_proofs -------------------------
(***************************************************************************)
(* Proofs about itslearning.  First the register of organisations and the  *)
(* groups that follow it, for any number of schools, requests and          *)
(* failures; then one person, with state of its own, for any Kontexte and  *)
(* Rollen and any number of changes, synchronisations and failures.        *)
(***************************************************************************)
EXTENDS ItslearningGroups, ItslearningPersons, TLAPS

-----------------------------------------------------------------------------
(* Requests and the row they work on.                                      *)

IsRequest(c) ==
    c \in [pc : {c.pc}, op : {c.op}, id : {c.id}, wish : {c.wish}, page : {c.page},
           row : {c.row}, entity : {c.entity}, its : {c.its}, sites : {c.sites}]

LiveRow(o) == o.typ \in {Klasse, Schule}

Updating(c) == c.op \in {"rename", "move", "put", "enable"} /\ c.pc \in {"check", "save"}
Creating(c) == c.op = "create" /\ c.pc \in {"load", "check", "save"}

\* What a request has read is no newer than the row, and the row itself if its
\* version is the same; a move that was checked was checked against it.
Seen(c, o) ==
    /\ c.row.version \in Nat /\ "adm" \in DOMAIN c.row
    /\ c.op = "rename" => c.page <= c.row.version
    /\ LiveRow(o) => c.row.version <= o.version
    /\ LiveRow(o) /\ c.row.version = o.version =>
        /\ o = c.row
        /\ c.op = "move" /\ c.pc = "save" => Zuordnung(c.row.adm) = Zuordnung(c.wish.zug)

Good(c, o) ==
    /\ IsRequest(c)
    /\ c.id \in Ids
    /\ c.pc # "idle"
    /\ c.op = "create" => c.wish = Placed(c.wish.typ, c.wish.adm, c.wish.zug, c.wish.name)
    /\ c.op = "move" => c.wish = [zug |-> c.wish.zug]
    /\ c.op = "rename" => c.page \in Nat
    /\ c.op = "rename" /\ c.pc = "load" /\ LiveRow(o) => c.page <= o.version
    /\ c.op # "create" => o # Unborn
    /\ Creating(c) => o = Unborn
    /\ Updating(c) => Seen(c, o)

Columns == {"typ", "adm", "zug", "name", "its", "version"}
WellFormed(o) == LiveRow(o) => o.version \in Nat /\ DOMAIN o = Columns

Inv ==
    /\ orga = [k \in Ids |-> orga[k]] /\ call = [r \in Requests |-> call[r]]
    /\ \A k \in Ids : WellFormed(orga[k])
    /\ \A r \in Requests : Busy(r) => Good(call[r], orga[call[r].id])
    /\ \A r, s \in Requests : Busy(r) /\ Busy(s) /\ r # s /\ Creating(call[r]) =>
        call[r].id # call[s].id

\* How a row may change under a request that did not change it.
Later(o, p) ==
    \/ p = o
    \/ o # Unborn /\ p = Deleted
    \/ LiveRow(o) /\ p # Unborn /\ p.version > o.version

LEMMA UnbornNotLive == ~LiveRow(Unborn) /\ ~LiveRow(Deleted) /\ Unborn # Deleted
<1>1. Unborn.typ = "unborn" /\ Deleted.typ = "deleted"
  BY DEF Unborn, Deleted
<1> QED
  BY <1>1 DEF LiveRow, Klasse, Schule

LEMMA LaterIsGood ==
    ASSUME NEW c, NEW o, NEW p, Good(c, o), WellFormed(o), WellFormed(p), Later(o, p)
    PROVE  Good(c, p)
<1>1. CASE p = o
  BY <1>1
<1>2. CASE o # Unborn /\ p # Unborn /\ ~LiveRow(p)
  BY <1>2 DEF Good, Seen
<1>3. CASE LiveRow(o) /\ LiveRow(p) /\ p # Unborn /\ p.version > o.version
  <2>1. o # Unborn /\ o.version \in Nat /\ p.version \in Nat
    BY <1>3, UnbornNotLive DEF WellFormed
  <2>2. Updating(c) => Seen(c, p)
    BY <1>3, <2>1 DEF Good, Seen
  <2>3. c.op = "rename" /\ c.pc = "load" => c.page <= p.version
    BY <1>3, <2>1 DEF Good
  <2> QED
    BY <1>3, <2>1, <2>2, <2>3 DEF Good
<1> QED
  BY <1>1, <1>2, <1>3, UnbornNotLive DEF Later

\* The fields of a request that goes on.
Onward(c, pc, row, entity, its) ==
    [pc : {pc}, op : {c.op}, id : {c.id}, wish : {c.wish}, page : {c.page},
     row : {row}, entity : {entity}, its : {its}, sites : {c.sites}]

LEMMA OnwardFields ==
    ASSUME NEW c, NEW pc, NEW row, NEW entity, NEW its, NEW d \in Onward(c, pc, row, entity, its)
    PROVE  /\ IsRequest(d) /\ d.pc = pc /\ d.op = c.op /\ d.id = c.id /\ d.wish = c.wish
           /\ d.page = c.page /\ d.row = row /\ d.its = its /\ d.sites = c.sites
BY DEF Onward, IsRequest

\* A step of a request that changes no row but its own.
LEMMA StepInv ==
    ASSUME Inv, NEW r \in Requests, Busy(r), NEW d, call' = [call EXCEPT ![r] = d],
           orga' = [k \in Ids |-> orga'[k]],
           \A k \in Ids : k # call[r].id => orga'[k] = orga[k],
           WellFormed(orga'[call[r].id]),
           \/ Creating(call[r])
           \/ Later(orga[call[r].id], orga'[call[r].id]),
           \/ d = Idle
           \/ /\ Good(d, orga'[d.id]) /\ d.id = call[r].id
              /\ Creating(d) => Creating(call[r])
    PROVE  Inv'
<1>1. call' = [s \in Requests |-> call'[s]] /\ call'[r] = d
      /\ \A s \in Requests \ {r} : call'[s] = call[s]
  BY DEF Inv
<1>2. \A k \in Ids : WellFormed(orga'[k])
  BY DEF Inv
<1>3. ASSUME NEW s \in Requests, call'[s] # Idle PROVE Good(call'[s], orga'[call'[s].id])
  <2>1. CASE s = r
    BY <1>1, <1>3, <2>1
  <2>2. CASE s # r
    <3>1. call'[s] = call[s] /\ Busy(s) /\ Good(call[s], orga[call[s].id]) /\ call[s].id \in Ids
      BY <1>1, <1>3, <2>2 DEF Busy, Inv, Good
    <3>2. Later(orga[call[s].id], orga'[call[s].id])
      <4>1. CASE call[s].id # call[r].id
        BY <3>1, <4>1 DEF Later
      <4>2. CASE call[s].id = call[r].id
        BY <2>2, <3>1, <4>2 DEF Inv
      <4> QED
        BY <4>1, <4>2
    <3> QED
      BY <1>2, <3>1, <3>2, LaterIsGood DEF Inv
  <2> QED
    BY <2>1, <2>2
<1>4. ASSUME NEW s \in Requests, NEW t \in Requests, call'[s] # Idle, call'[t] # Idle, s # t,
             Creating(call'[s])
      PROVE  call'[s].id # call'[t].id
  BY <1>1, <1>4 DEF Inv, Busy
<1> QED
  BY <1>1, <1>2, <1>3, <1>4 DEF Inv, Busy

\* A request that ends, or goes on with nothing else changed.
LEMMA RefuseInv == ASSUME Inv, NEW r \in Requests, Busy(r), Refuse(r) PROVE Inv'
<1>1. call' = [call EXCEPT ![r] = Idle] /\ UNCHANGED orga
  BY DEF Refuse
<1>2. call[r].id \in Ids
  BY DEF Inv, Good
<1> QED
  BY <1>1, <1>2, StepInv DEF Inv, Later

LEMMA GoInv ==
    ASSUME Inv, NEW r \in Requests, Busy(r), NEW d, call' = [call EXCEPT ![r] = d],
           UNCHANGED orga, d.id = call[r].id, Good(d, orga[call[r].id]),
           Creating(d) => Creating(call[r])
    PROVE  Inv'
<1>1. call[r].id \in Ids
  BY DEF Inv, Good
<1>2. Good(d, orga'[d.id])
  OBVIOUS
<1> QED
  BY <1>1, <1>2, StepInv DEF Inv, Later

\* A request begins.
LEMMA BeginInv ==
    ASSUME Inv, NEW r \in Requests, NEW op, NEW id \in Ids, NEW wish, NEW page, NEW sites,
           Begin(r, op, id, wish, page, sites),
           op = "create" => FreshId(id) /\ wish = Placed(wish.typ, wish.adm, wish.zug, wish.name),
           op # "create" => Live(id),
           op = "move" => wish = [zug |-> wish.zug],
           op = "rename" => page \in Nat /\ page <= orga[id].version
    PROVE  Inv'
<1> DEFINE d == [pc |-> "load", op |-> op, id |-> id, wish |-> wish, page |-> page,
                 row |-> Unborn, entity |-> 0, its |-> FALSE, sites |-> sites]
<1>1. call[r] = Idle /\ call' = [call EXCEPT ![r] = d] /\ UNCHANGED orga
  BY DEF Begin
<1>2. IsRequest(d) /\ d.pc = "load" /\ d.op = op /\ d.id = id /\ d.wish = wish /\ d.page = page
  BY DEF IsRequest
<1> HIDE DEF d
<1>3. call' = [s \in Requests |-> call'[s]] /\ call'[r] = d
      /\ \A s \in Requests \ {r} : call'[s] = call[s]
  BY <1>1 DEF Inv
<1>4. Good(d, orga[id])
  <2>1. op # "create" => orga[id] # Unborn
    BY UnbornNotLive DEF Live, LiveRow
  <2> QED
    BY <1>2, <2>1 DEF Good, Creating, Updating, FreshId
<1>5. \A s \in Requests \ {r} : Busy(s) /\ (Creating(d) \/ Creating(call[s])) => call[s].id # id
  <2> SUFFICES ASSUME NEW s \in Requests \ {r}, Busy(s), Creating(d) \/ Creating(call[s])
               PROVE  call[s].id # id
    OBVIOUS
  <2>1. CASE op = "create"
    BY <2>1 DEF FreshId
  <2>2. CASE op # "create"
    <3>1. Creating(call[s]) /\ orga[call[s].id] = Unborn
      BY <1>2, <2>2 DEF Creating, Inv, Good
    <3> QED
      BY <2>2, <3>1, UnbornNotLive DEF Live, LiveRow
  <2> QED
    BY <2>1, <2>2
<1>6. ASSUME NEW s \in Requests, call'[s] # Idle PROVE Good(call'[s], orga'[call'[s].id])
  BY <1>1, <1>2, <1>3, <1>4, <1>6 DEF Inv, Busy
<1>7. ASSUME NEW s \in Requests, NEW t \in Requests, call'[s] # Idle, call'[t] # Idle, s # t,
             Creating(call'[s])
      PROVE  call'[s].id # call'[t].id
  BY <1>2, <1>3, <1>5, <1>7 DEF Inv, Busy
<1> QED
  BY <1>1, <1>3, <1>6, <1>7 DEF Inv, Busy

LEMMA AskInv == ASSUME Inv, NEW r \in Requests, Ask(r) PROVE Inv'
<1>1. CASE CreateKlasse(r) \/ CreateSchool(r)
  <2>1. PICK id \in NewIds :
          \E typ, adm, name, sites :
              FreshId(id) /\ Begin(r, "create", id, Placed(typ, adm, adm, name), 0, sites)
    BY <1>1 DEF CreateKlasse, CreateSchool
  <2>2. PICK typ, adm, name, sites :
          FreshId(id) /\ Begin(r, "create", id, Placed(typ, adm, adm, name), 0, sites)
    BY <2>1
  <2> DEFINE w == Placed(typ, adm, adm, name)
  <2>3. w = Placed(w.typ, w.adm, w.zug, w.name) /\ id \in Ids
    BY DEF Placed, Ids
  <2>4. Begin(r, "create", id, w, 0, sites)
    BY <2>2
  <2> HIDE DEF w
  <2> QED
    BY <2>2, <2>3, <2>4, BeginInv
<1>2. CASE Rename(r)
  <2>1. PICK id \in Ids, name \in Names :
          /\ IsKlasse(id)
          /\ \E page \in 1 .. orga[id].version :
                 Begin(r, "rename", id, [name |-> name], page, {orga[id].adm})
    BY <1>2 DEF Rename
  <2>2. PICK page \in 1 .. orga[id].version :
          Begin(r, "rename", id, [name |-> name], page, {orga[id].adm})
    BY <2>1
  <2>3. Live(id) /\ orga[id].version \in Nat
    BY <2>1 DEF IsKlasse, Live, Inv, WellFormed, LiveRow
  <2>4. page \in Nat /\ page <= orga[id].version
    BY <2>3
  <2> QED
    BY <2>2, <2>3, <2>4, BeginInv
<1>3. CASE DeleteKlasse(r) \/ Enable(r) \/ PutKlasse(r) \/ PutSchool(r)
  <2>1. \E op \in {"delete", "enable", "put"}, id \in Ids : \E wish, sites :
          Live(id) /\ Begin(r, op, id, wish, 0, sites)
    <3>1. CASE DeleteKlasse(r)
      BY <3>1 DEF DeleteKlasse
    <3>2. CASE Enable(r)
      BY <3>2 DEF Enable, IsSchool, Live
    <3>3. CASE PutKlasse(r)
      BY <3>3 DEF PutKlasse, IsKlasse, Live
    <3>4. CASE PutSchool(r)
      BY <3>4 DEF PutSchool, IsSchool, Live
    <3> QED
      BY <1>3, <3>1, <3>2, <3>3, <3>4
  <2>2. PICK op \in {"delete", "enable", "put"}, id \in Ids :
          \E wish, sites : Live(id) /\ Begin(r, op, id, wish, 0, sites)
    BY <2>1
  <2>3. PICK wish, sites : Live(id) /\ Begin(r, op, id, wish, 0, sites)
    BY <2>2
  <2> QED
    BY <2>2, <2>3, BeginInv
<1>4. CASE Move(r)
  <2>1. PICK id \in Ids : \E parent :
          IsSchool(id) /\ Begin(r, "move", id, [zug |-> parent], 0, {})
    BY <1>4 DEF Move
  <2>2. PICK parent : IsSchool(id) /\ Begin(r, "move", id, [zug |-> parent], 0, {})
    BY <2>1
  <2> DEFINE w == [zug |-> parent]
  <2>3. w = [zug |-> w.zug] /\ Live(id) /\ Begin(r, "move", id, w, 0, {})
    BY <2>2 DEF IsSchool, Live
  <2> HIDE DEF w
  <2> QED
    BY <2>3, BeginInv
<1> QED
  BY <1>1, <1>2, <1>3, <1>4 DEF Ask

\* A request reads the row.
LEMMA ReadInv ==
    ASSUME Inv, NEW r \in Requests, Busy(r), call[r].pc = "load", call[r].op # "create",
           LiveRow(orga[call[r].id]),
           NEW pc \in {"check", "save"}, NEW its, Read(r, pc, its),
           call[r].op = "move" => pc = "check"
    PROVE  Inv'
<1> DEFINE o == orga[call[r].id]
           d == [call[r] EXCEPT !.pc = pc, !.row = o, !.its = its, !.entity = o.version]
<1>1. call' = [call EXCEPT ![r] = d] /\ UNCHANGED orga
  BY DEF Read, Inv
<1>2. Good(call[r], o) /\ call[r].id \in Ids /\ WellFormed(o)
  BY DEF Inv, Good
<1>3. o.version \in Nat /\ "adm" \in DOMAIN o
  BY <1>2 DEF WellFormed, Columns
<1>4. /\ IsRequest(d) /\ d.pc = pc /\ d.op = call[r].op /\ d.id = call[r].id
      /\ d.wish = call[r].wish /\ d.page = call[r].page /\ d.row = o
  <2>1. IsRequest(call[r])
    BY <1>2 DEF Good
  <2> DEFINE n == o.version
  <2> HIDE DEF n, o
  <2>2. d \in Onward(call[r], pc, o, n, its)
    BY <2>1 DEF IsRequest, Onward, n
  <2> HIDE DEF d
  <2> QED
    BY <2>2, OnwardFields
<1> HIDE DEF d
<1>5. Seen(d, o)
  <2> HIDE DEF o
  <2> QED
    BY <1>2, <1>3, <1>4 DEF Seen, Good, o
<1>6. Good(d, o) /\ ~Creating(d)
  <2> HIDE DEF o
  <2> QED
    BY <1>2, <1>4, <1>5 DEF Good, Creating
<1> QED
  BY <1>1, <1>4, <1>6, GoInv

LEMMA LoadInv ==
    ASSUME Inv, NEW r \in Requests, LoadCreate(r) \/ LoadRename(r) \/ LoadDelete(r) \/ LoadOther(r)
    PROVE  Inv'
<1>1. Busy(r) /\ call[r].pc = "load"
  BY DEF LoadCreate, LoadRename, LoadDelete, LoadOther, At, Busy
<1>2. Good(call[r], orga[call[r].id])
  BY <1>1 DEF Inv
<1>3. CASE Refuse(r)
  BY <1>1, <1>3, RefuseInv
<1>4. CASE LoadCreate(r) /\ ~Refuse(r)
  <2>1. PICK its : \/ Go(r, "check")
                   \/ /\ call' = [call EXCEPT ![r].pc = "check", ![r].its = its]
                      /\ UNCHANGED orga
    BY <1>4 DEF LoadCreate
  <2> DEFINE c == [call[r] EXCEPT !.pc = "check"]
             d == [call[r] EXCEPT !.pc = "check", !.its = its]
  <2>2. UNCHANGED orga /\ \/ call' = [call EXCEPT ![r] = c]
                          \/ call' = [call EXCEPT ![r] = d]
    BY <2>1 DEF Go, Inv
  <2>3. /\ IsRequest(c) /\ c.pc = "check" /\ c.op = call[r].op /\ c.id = call[r].id
        /\ c.wish = call[r].wish /\ c.page = call[r].page
        /\ IsRequest(d) /\ d.pc = "check" /\ d.op = call[r].op /\ d.id = call[r].id
        /\ d.wish = call[r].wish /\ d.page = call[r].page
    <3>1. IsRequest(call[r])
      BY <1>2 DEF Good
    <3>2. c \in Onward(call[r], "check", call[r].row, call[r].entity, call[r].its)
      BY <3>1 DEF IsRequest, Onward
    <3>3. d \in Onward(call[r], "check", call[r].row, call[r].entity, its)
      BY <3>1 DEF IsRequest, Onward
    <3> HIDE DEF c, d
    <3> QED
      BY <3>2, <3>3, OnwardFields
  <2> HIDE DEF c, d
  <2>4. /\ Good(c, orga[call[r].id]) /\ Good(d, orga[call[r].id])
        /\ Creating(call[r])
    BY <1>1, <1>2, <1>4, <2>3 DEF Good, Creating, Updating, LoadCreate, At
  <2> QED
    BY <1>1, <2>2, <2>3, <2>4, GoInv
<1>5. CASE LoadRename(r) /\ ~Refuse(r)
  <2>1. /\ Live(call[r].id) /\ call[r].op = "rename"
        /\ \E pc \in {"check", "save"}, its \in {orga[orga[call[r].id].adm].its} : Read(r, pc, its)
    BY <1>5 DEF LoadRename, At
  <2> QED
    BY <1>1, <2>1, ReadInv DEF Live, LiveRow
<1>6. CASE LoadDelete(r) /\ ~Refuse(r)
  <2>1. IsKlasse(call[r].id) /\ call[r].op = "delete" /\ Read(r, "save", FALSE)
    BY <1>6 DEF LoadDelete, At
  <2> QED
    BY <1>1, <2>1, ReadInv DEF IsKlasse, LiveRow
<1>7. CASE LoadOther(r) /\ ~Refuse(r)
  <2>1. /\ Live(call[r].id) /\ call[r].op \in {"enable", "move", "put"}
        /\ Read(r, IF call[r].op = "enable" THEN "save" ELSE "check", FALSE)
    BY <1>7 DEF LoadOther
  <2> QED
    BY <1>1, <2>1, ReadInv DEF Live, LiveRow
<1> QED
  BY <1>3, <1>4, <1>5, <1>6, <1>7

LEMMA CheckInv == ASSUME Inv, NEW r \in Requests, CheckName(r) \/ CheckMove(r) PROVE Inv'
<1>1. /\ Busy(r) /\ call[r].pc = "check" /\ call[r].op \in {"create", "rename", "put", "move"}
  BY DEF CheckName, CheckMove, At, Busy
<1>2. Good(call[r], orga[call[r].id]) /\ call[r].id \in Ids
  BY <1>1 DEF Inv, Good
<1>3. CASE Refuse(r)
  BY <1>1, <1>3, RefuseInv
<1>4. CASE ~Refuse(r)
  <2>1. PICK e : call' = [call EXCEPT ![r].pc = "save", ![r].entity = e] /\ UNCHANGED orga
    BY <1>4 DEF CheckName, CheckMove
  <2> DEFINE d == [call[r] EXCEPT !.pc = "save", !.entity = e]
  <2>2. call' = [call EXCEPT ![r] = d]
    BY <2>1 DEF Inv
  <2>3. /\ IsRequest(d) /\ d.pc = "save" /\ d.op = call[r].op /\ d.id = call[r].id
        /\ d.wish = call[r].wish /\ d.page = call[r].page /\ d.row = call[r].row
    <3>1. IsRequest(call[r])
      BY <1>2 DEF Good
    <3>2. d \in Onward(call[r], "save", call[r].row, e, call[r].its)
      BY <3>1 DEF IsRequest, Onward
    <3> HIDE DEF d
    <3> QED
      BY <3>2, OnwardFields
  <2> HIDE DEF d
  <2>4. call[r].op = "move" => Zuordnung(orga[call[r].id].adm) = Zuordnung(call[r].wish.zug)
    BY <1>4 DEF CheckName, CheckMove, At
  <2>5. Creating(d) => Creating(call[r])
    BY <1>1, <2>3 DEF Creating
  <2>6. Updating(d) => Seen(d, orga[call[r].id])
    BY <1>1, <1>2, <2>3, <2>4 DEF Good, Updating, Seen
  <2>7. Good(d, orga[call[r].id])
    BY <1>1, <1>2, <2>3, <2>5, <2>6 DEF Good
  <2> QED
    BY <1>1, <2>1, <2>2, <2>3, <2>5, <2>7, GoInv
<1> QED
  BY <1>3, <1>4

-----------------------------------------------------------------------------
(* Requests write.                                                         *)

\* Once the row is written nothing is held against it any more.
LEMMA PublishedGood ==
    ASSUME NEW c, NEW o, NEW p, Good(c, o), NEW pc \in {"published", "send"}, NEW d,
           d = [c EXCEPT !.pc = pc]
    PROVE  (c.op = "create" \/ p # Unborn) => Good(d, p) /\ d.id = c.id /\ ~Creating(d)
<1>1. d \in Onward(c, pc, c.row, c.entity, c.its)
  BY DEF Good, IsRequest, Onward
<1>2. /\ IsRequest(d) /\ d.pc = pc /\ d.op = c.op /\ d.id = c.id /\ d.wish = c.wish
      /\ d.page = c.page
  BY <1>1, OnwardFields
<1>3. ~Creating(d) /\ ~Updating(d) /\ d.pc # "load" /\ d.pc # "idle"
  BY <1>2 DEF Creating, Updating
<1> QED
  BY <1>2, <1>3 DEF Good

LEMMA StoreInv ==
    ASSUME Inv, NEW r \in Requests, Busy(r), NEW row, NEW pc \in {"idle", "published"},
           Store(r, row, pc), WellFormed(row),
           \/ Creating(call[r])
           \/ Later(orga[call[r].id], row) /\ row # Unborn
    PROVE  Inv'
<1>1. call[r].id \in Ids /\ Good(call[r], orga[call[r].id])
  BY DEF Inv, Good
<1>2. /\ orga' = [k \in Ids |-> orga'[k]] /\ orga'[call[r].id] = row
      /\ \A k \in Ids : k # call[r].id => orga'[k] = orga[k]
  BY <1>1 DEF Store, Inv
<1> DEFINE e == [call[r] EXCEPT !.pc = pc]
           d == IF pc = "idle" THEN Idle ELSE e
<1>3. call' = [call EXCEPT ![r] = d]
  BY DEF Store
<1>4. pc = "published" => Good(e, orga'[e.id]) /\ e.id = call[r].id /\ ~Creating(e)
  <2>1. e = [call[r] EXCEPT !.pc = pc]
    OBVIOUS
  <2>2. call[r].op = "create" \/ row # Unborn
    BY DEF Creating
  <2>3. e.id = call[r].id
    BY <1>1 DEF Good, IsRequest
  <2> HIDE DEF e
  <2> QED
    BY <1>1, <1>2, <2>1, <2>2, <2>3, PublishedGood
<1>5. d = Idle \/ (Good(d, orga'[d.id]) /\ d.id = call[r].id /\ ~Creating(d))
  <2> HIDE DEF e
  <2> QED
    BY <1>4
<1> HIDE DEF d
<1> QED
  BY <1>2, <1>3, <1>5, StepInv

LEMMA InsertInv == ASSUME Inv, NEW r \in Requests, Insert(r) PROVE Inv'
<1>1. Busy(r) /\ Creating(call[r])
  BY DEF Insert, At, Busy, Creating
<1>2. PICK pc \in {"idle", "published"} :
        Store(r, With(call[r].wish, [its |-> FALSE, version |-> 1]), pc)
  BY DEF Insert
<1> DEFINE w == call[r].wish
           row == With(w, [its |-> FALSE, version |-> 1])
<1>3. w = Placed(w.typ, w.adm, w.zug, w.name)
  BY <1>1 DEF Inv, Good, Creating
<1>4. row.version = 1 /\ DOMAIN row = Columns
  <2>1. DOMAIN w = {"typ", "adm", "zug", "name"}
    <3> HIDE DEF w
    <3> QED
      BY <1>3 DEF Placed
  <2>2. row = [x \in DOMAIN w \cup {"its", "version"} |->
                  IF x \in DOMAIN w THEN w[x] ELSE [its |-> FALSE, version |-> 1][x]]
    <3> HIDE DEF w
    <3> QED
      BY DEF With
  <2> HIDE DEF w, row
  <2> QED
    BY <2>1, <2>2 DEF Columns
<1>5. Store(r, row, pc)
  BY <1>2
<1> HIDE DEF row
<1> QED
  BY <1>1, <1>4, <1>5, StoreInv DEF WellFormed

LEMMA RemoveInv == ASSUME Inv, NEW r \in Requests, Remove(r) PROVE Inv'
<1>1. Busy(r)
  BY DEF Remove, At, Busy
<1>2. CASE Refuse(r)
  BY <1>1, <1>2, RefuseInv
<1>3. CASE ~Refuse(r)
  <2>1. Store(r, Deleted, "published") /\ call[r].op = "delete" /\ call[r].pc = "save"
    BY <1>3 DEF Remove, At
  <2>2. orga[call[r].id] # Unborn
    BY <1>1, <2>1 DEF Inv, Good
  <2> QED
    BY <1>1, <2>1, <2>2, UnbornNotLive, StoreInv DEF WellFormed, Later
<1> QED
  BY <1>2, <1>3

\* A request that updates the row has read that very row, and for a rename it is
\* the one of the client's page; a move was checked against it.
LEMMA UpdatesSeen ==
    ASSUME Inv, NEW r \in Requests, Busy(r), Updating(call[r]), UpToDate(r)
    PROVE  LET o == orga[call[r].id]
           IN  /\ LiveRow(o) /\ o = call[r].row /\ o.version = call[r].entity
               /\ o.version \in Nat /\ DOMAIN o = Columns
               /\ call[r].op = "rename" => o.version = call[r].page
               /\ call[r].op = "move" /\ call[r].pc = "save" =>
                    Zuordnung(o.adm) = Zuordnung(call[r].wish.zug)
<1> DEFINE o == orga[call[r].id]
<1>1. Good(call[r], o) /\ Seen(call[r], o) /\ call[r].id \in Ids
  BY DEF Inv, Good
<1>2. LiveRow(o) /\ WellFormed(o)
  BY <1>1 DEF UpToDate, Live, LiveRow, Inv
<1>3. o.version = call[r].entity /\ o.version \in Nat /\ DOMAIN o = Columns
  BY <1>2 DEF UpToDate, WellFormed
<1>4. call[r].row.version \in Nat /\ call[r].row.version <= o.version
  BY <1>1, <1>2 DEF Seen
<1>5. call[r].op = "rename" => call[r].page \in Nat /\ call[r].page <= call[r].row.version
  BY <1>1 DEF Seen, Good
<1>6. IF call[r].op = "rename" THEN call[r].page = o.version ELSE call[r].row.version = o.version
  BY <1>3 DEF UpToDate, Expected
<1>7. call[r].row.version = o.version
  <2> HIDE DEF o
  <2> QED
    BY <1>3, <1>4, <1>5, <1>6
<1> HIDE DEF o
<1>8. o = call[r].row
  BY <1>1, <1>2, <1>7 DEF Seen
<1>9. call[r].op = "move" /\ call[r].pc = "save" =>
        Zuordnung(o.adm) = Zuordnung(call[r].wish.zug)
  BY <1>1, <1>2, <1>7, <1>8 DEF Seen
<1> QED
  BY <1>2, <1>3, <1>6, <1>8, <1>9 DEF o

LEMMA UpdateInv == ASSUME Inv, NEW r \in Requests, Update(r) PROVE Inv'
<1>1. Busy(r) /\ Updating(call[r])
  BY DEF Update, Busy, Updating
<1>2. CASE Refuse(r)
  BY <1>1, <1>2, RefuseInv
<1>3. CASE ~Refuse(r)
  <2>1. PICK pc \in {"idle", "published"} : UpToDate(r) /\ Store(r, Written(r), pc)
    BY <1>3 DEF Update
  <2> DEFINE o == orga[call[r].id]
  <2>2. LiveRow(o) /\ o.version = call[r].entity /\ o.version \in Nat
    BY <1>1, <2>1, UpdatesSeen
  <2>3. /\ Written(r).version = o.version + 1 /\ DOMAIN Written(r) = Columns
        /\ Written(r) # Unborn
    <3>1. Written(r).version = o.version + 1 /\ DOMAIN Written(r) = Columns
      BY <2>2 DEF Written, Columns
    <3>2. DOMAIN Unborn = {"typ"}
      BY DEF Unborn
    <3> QED
      BY <3>1, <3>2 DEF Columns
  <2>4. WellFormed(Written(r)) /\ Later(o, Written(r))
    <3> HIDE DEF o
    <3> QED
      BY <2>2, <2>3 DEF WellFormed, Later
  <2> QED
    BY <1>1, <2>1, <2>3, <2>4, StoreInv
<1> QED
  BY <1>2, <1>3

\* The handlers write no row.
LEMMA HandlersInv ==
    ASSUME Inv, NEW r \in Requests,
           HandleKlasse(r) \/ HandleDeleted(r) \/ HandleEnabled(r) \/ Send(r)
    PROVE  Inv'
<1>1. Busy(r)
  BY DEF HandleKlasse, HandleDeleted, HandleEnabled, Send, At, Busy
<1>2. Good(call[r], orga[call[r].id])
  BY <1>1 DEF Inv
<1>3. CASE Refuse(r)
  BY <1>1, <1>3, RefuseInv
<1>4. CASE Go(r, "send") /\ ~Creating(call[r])
  <2> DEFINE d == [call[r] EXCEPT !.pc = "send"]
  <2>1. call' = [call EXCEPT ![r] = d] /\ UNCHANGED orga
    BY <1>4 DEF Go, Inv
  <2>2. d = [call[r] EXCEPT !.pc = "send"]
    OBVIOUS
  <2> HIDE DEF d
  <2>3. Good(d, orga[call[r].id]) /\ d.id = call[r].id /\ ~Creating(d)
    <3>1. call[r].op = "create" \/ orga[call[r].id] # Unborn
      BY <1>2 DEF Good
    <3> QED
      BY <1>2, <2>2, <3>1, PublishedGood
  <2> QED
    BY <1>1, <2>1, <2>3, GoInv
<1>5. CASE HandleEnabled(r) /\ ~Refuse(r)
  <2>1. PICK w : call' = [call EXCEPT ![r].pc = "send", ![r].wish = w] /\ UNCHANGED orga
    BY <1>5 DEF HandleEnabled
  <2> DEFINE d == [call[r] EXCEPT !.pc = "send", !.wish = w]
  <2>2. call' = [call EXCEPT ![r] = d]
    BY <2>1 DEF Inv
  <2>3. d \in [pc : {"send"}, op : {call[r].op}, id : {call[r].id}, wish : {w},
               page : {call[r].page}, row : {call[r].row}, entity : {call[r].entity},
               its : {call[r].its}, sites : {call[r].sites}]
    BY <1>2 DEF Good, IsRequest
  <2> HIDE DEF d
  <2>4. IsRequest(d) /\ d.pc = "send" /\ d.op = "enable" /\ d.id = call[r].id
    BY <1>5, <2>3 DEF IsRequest, HandleEnabled, At
  <2>5. Good(d, orga[call[r].id]) /\ ~Creating(d)
    BY <1>2, <1>5, <2>4 DEF Good, Creating, Updating, HandleEnabled, At
  <2> QED
    BY <1>1, <2>1, <2>2, <2>4, <2>5, GoInv
<1> QED
  BY <1>3, <1>4, <1>5 DEF HandleKlasse, HandleDeleted, HandleEnabled, Send, Creating, At

-----------------------------------------------------------------------------
(* Theorems.                                                               *)

LEMMA InitInv == ASSUME GroupsInit PROVE Inv
<1>1. \A k \in Ids : WellFormed(orga[k])
  <2> SUFFICES ASSUME NEW k \in Ids, LiveRow(orga[k]) PROVE orga[k].version = 1 /\ DOMAIN orga[k] = Columns
    BY DEF WellFormed
  <2>1. orga[k] # Unborn
    BY UnbornNotLive
  <2> QED
    BY <2>1 DEF GroupsInit, Init, First, Columns
<1>2. \A r \in Requests : ~Busy(r)
  BY DEF GroupsInit, Init, Busy
<1> QED
  BY <1>1, <1>2 DEF GroupsInit, Init, Inv

LEMMA InvInductive == ASSUME Inv, [Next]_vars PROVE Inv'
<1>1. CASE UNCHANGED vars
  BY <1>1 DEF vars, Inv, Busy
<1>2. ASSUME NEW r \in Requests, Register(r) PROVE Inv'
  BY <1>2, AskInv, LoadInv, CheckInv, InsertInv, RemoveInv, UpdateInv DEF Register, Step
<1> QED
  BY <1>1, <1>2, HandlersInv DEF Next

\* A request is changed by its own steps only.
LEMMA OwnSteps ==
    ASSUME Inv, NEW r \in Requests, NEW s \in Requests, s # r,
           Register(s) \/ HandleKlasse(s) \/ HandleDeleted(s) \/ HandleEnabled(s) \/ Send(s)
    PROVE  call'[r] = call[r]
<1>1. call = [t \in Requests |-> call[t]]
  BY DEF Inv
<1>2. CASE Register(s)
  <2>1. CASE Ask(s)
    BY <1>1, <2>1 DEF Ask, CreateKlasse, CreateSchool, Rename, DeleteKlasse, Enable, Move,
       PutKlasse, PutSchool, Begin
  <2>2. CASE LoadCreate(s) \/ LoadRename(s) \/ LoadDelete(s) \/ LoadOther(s)
    BY <1>1, <2>2 DEF LoadCreate, LoadRename, LoadDelete, LoadOther, Read, Go, Refuse
  <2>3. CASE CheckName(s) \/ CheckMove(s)
    BY <1>1, <2>3 DEF CheckName, CheckMove, Refuse
  <2>4. CASE Insert(s) \/ Remove(s) \/ Update(s)
    BY <1>1, <2>4 DEF Insert, Remove, Update, Store, Refuse
  <2> QED
    BY <1>2, <2>1, <2>2, <2>3, <2>4 DEF Register, Step
<1>3. CASE HandleKlasse(s) \/ HandleDeleted(s) \/ HandleEnabled(s) \/ Send(s)
  BY <1>1, <1>3 DEF HandleKlasse, HandleDeleted, HandleEnabled, Send, Go, Refuse
<1> QED
  BY <1>2, <1>3

\* Rows that are there are rewritten by Update() only.
LEMMA OnlyUpdateWrites ==
    ASSUME Inv, [Next]_vars, NEW r \in Requests, Busy(r),
           call[r].op \in {"rename", "move", "put"}, orga' # orga, call'[r] # call[r]
    PROVE  Update(r) /\ UpToDate(r) /\ Updating(call[r])
           /\ orga' = [orga EXCEPT ![call[r].id] = Written(r)]
<1>1. PICK s \in Requests :
        Register(s) \/ HandleKlasse(s) \/ HandleDeleted(s) \/ HandleEnabled(s) \/ Send(s)
  BY DEF Next, vars
<1>2. s = r
  BY <1>1, OwnSteps
<1>3. ~Ask(r)
  BY DEF Ask, CreateKlasse, CreateSchool, Rename, DeleteKlasse, Enable, Move, PutKlasse,
     PutSchool, Begin, Busy
<1>4. Update(r)
  BY <1>1, <1>2, <1>3 DEF Register, Step, HandleKlasse, HandleDeleted, HandleEnabled, Send, Go,
     Refuse, LoadCreate, LoadRename, LoadDelete, LoadOther, Read, CheckName, CheckMove, Insert,
     Remove, At
<1> QED
  BY <1>4 DEF Update, Updating, Refuse, Store

\* A request that rewrites a row overwrites nothing it has not seen: the row is
\* the one it has read, and for a rename the one that the client's page showed.
THEOREM NothingUnseenOverwritten == Spec => UpdatesWhatItRead
<1>1. GroupsInit => Inv
  BY InitInv
<1>2. Inv /\ [Next]_vars => Inv'
  BY InvInductive
<1>3. ASSUME Inv, [Next]_vars
      PROVE  [\A r \in Requests :
                 Busy(r) /\ call[r].op \in {"rename", "move", "put"}
                 /\ orga'[call[r].id] # orga[call[r].id] /\ call'[r] # call[r]
                 => /\ orga[call[r].id] = call[r].row
                    /\ call[r].op = "rename" => orga[call[r].id].version = call[r].page]_vars
  BY <1>3, OnlyUpdateWrites, UpdatesSeen
<1> QED
  BY <1>1, <1>2, <1>3, PTL DEF Spec, UpdatesWhatItRead

\* setZugehoerigZu() leaves a school in its branch, whatever else is changed
\* between its check and its write.
THEOREM MovesKeepTheBranch == Spec => MoveKeepsBranch
<1>1. GroupsInit => Inv
  BY InitInv
<1>2. Inv /\ [Next]_vars => Inv'
  BY InvInductive
<1>3. ASSUME Inv, [Next]_vars
      PROVE  [\A r \in Requests :
                 At(r, "move", "save") /\ orga' # orga /\ call'[r] # call[r]
                 => Zuordnung(orga'[call[r].id].adm) = Zuordnung(orga'[call[r].id].zug)]_vars
  <2> SUFFICES ASSUME NEW r \in Requests, At(r, "move", "save"), orga' # orga, call'[r] # call[r]
               PROVE  Zuordnung(orga'[call[r].id].adm) = Zuordnung(orga'[call[r].id].zug)
    OBVIOUS
  <2>1. /\ UpToDate(r) /\ Updating(call[r]) /\ Busy(r)
        /\ orga' = [orga EXCEPT ![call[r].id] = Written(r)]
    BY <1>3, OnlyUpdateWrites DEF At, Busy
  <2> DEFINE o == orga[call[r].id]
             w == call[r].wish
  <2>2. /\ o = call[r].row /\ "adm" \in DOMAIN o
        /\ Zuordnung(o.adm) = Zuordnung(w.zug)
    BY <1>3, <2>1, UpdatesSeen DEF At, Columns
  <2>3. w = [zug |-> w.zug] /\ call[r].id \in Ids
    BY <1>3, <2>1 DEF At, Inv, Good
  <2>4. Written(r).adm = o.adm /\ Written(r).zug = w.zug
    <3> HIDE DEF w
    <3>1. DOMAIN w = {"zug"}
      BY <2>3
    <3> QED
      BY <2>2, <3>1 DEF Written, Wanted, With, w
  <2>5. orga'[call[r].id] = Written(r)
    BY <1>3, <2>1, <2>3 DEF Inv
  <2> QED
    BY <2>2, <2>4, <2>5
<1> QED
  BY <1>1, <1>2, <1>3, PTL DEF Spec, MoveKeepsBranch

-----------------------------------------------------------------------------
(* What each step makes of a request.                                      *)

\* Where a name is to be unique: among the Klassen of a school, or all schools.
Site(o) == IF o.typ = Klasse THEN o.adm ELSE "kennung"

\* A request as it begins, and the row it is about.
Asked(d, o) ==
    /\ IsRequest(d) /\ d.pc = "load" /\ d.id \in Ids
    /\ d.op \in {"create", "rename", "delete", "enable", "move", "put"}
    /\ d.op \in {"create", "put"} =>
        /\ d.wish = Placed(d.wish.typ, d.wish.adm, d.wish.zug, d.wish.name)
        /\ LiveRow(d.wish) /\ Site(d.wish) \in d.sites
    /\ d.op = "create" => o = Unborn /\ (d.wish.typ = Schule => d.wish.adm \in Parents)
    /\ d.op = "put" => LiveRow(o) /\ d.wish.typ = o.typ
                       /\ (IF o.typ = Klasse THEN o.adm ELSE d.id) \in d.sites
    /\ d.op = "rename" => o.typ = Klasse /\ d.wish = [name |-> d.wish.name] /\ d.sites = {o.adm}
    /\ d.op = "delete" => LiveRow(o) /\ d.sites = {o.adm} \cap Ids
    /\ d.op = "enable" => o.typ = Schule /\ d.wish = Enabling /\ d.sites = {d.id}
    /\ d.op = "move" => o.typ = Schule

\* Requests for one site overlap only where raced tells so.
Apart ==
    \A r, s \in Requests : Busy(r) /\ Busy(s) /\ r # s =>
        call[r].sites \cap call[s].sites \subseteq raced

Starts(r, d) ==
    /\ call[r] = Idle /\ call' = [call EXCEPT ![r] = d] /\ UNCHANGED orga
    /\ raced' = raced \cup
         UNION {d.sites \cap call[q].sites : q \in {q \in Requests \ {r} : Busy(q)}}

LEMMA BegunFields ==
    ASSUME NEW r \in Requests, NEW op, NEW id, NEW wish, NEW page, NEW sites,
           Begin(r, op, id, wish, page, sites)
    PROVE  \E d : /\ IsRequest(d) /\ d.pc = "load" /\ d.op = op /\ d.id = id
                  /\ d.wish = wish /\ d.sites = sites /\ Starts(r, d)
<1> DEFINE d == [pc |-> "load", op |-> op, id |-> id, wish |-> wish, page |-> page,
                 row |-> Unborn, entity |-> 0, its |-> FALSE, sites |-> sites]
<1>1. /\ IsRequest(d) /\ d.pc = "load" /\ d.op = op /\ d.id = id
      /\ d.wish = wish /\ d.page = page /\ d.sites = sites
  BY DEF IsRequest
<1>2. call[r] = Idle /\ call' = [call EXCEPT ![r] = d] /\ UNCHANGED orga
  BY DEF Begin
<1> HIDE DEF d
<1>3. raced' = raced \cup
        UNION {d.sites \cap call[q].sites : q \in {q \in Requests \ {r} : Busy(q)}}
  BY <1>1 DEF Begin
<1> QED
  BY <1>1, <1>2, <1>3 DEF Starts

LEMMA PlacedFields ==
    ASSUME NEW typ \in {Klasse, Schule}, NEW adm, NEW zug, NEW name, NEW w, w = Placed(typ, adm, zug, name)
    PROVE  /\ w = Placed(w.typ, w.adm, w.zug, w.name) /\ LiveRow(w)
           /\ w.typ = typ /\ w.adm = adm /\ w.zug = zug /\ w.name = name
           /\ Site(w) = IF typ = Klasse THEN adm ELSE "kennung"
BY DEF Placed, LiveRow, Site

\* What a request that begins is like.
LEMMA Beginning ==
    ASSUME Inv, NEW r \in Requests, Ask(r)
    PROVE  \E d : Asked(d, orga[d.id]) /\ Starts(r, d)
<1> DEFINE Goal ==
        \E d : Asked(d, orga[d.id]) /\ Starts(r, d)
<1> SUFFICES Goal
  OBVIOUS
<1>1. Schule # Klasse
  BY DEF Schule, Klasse
<1>2. ASSUME NEW id \in Ids, NEW name \in Names, NEW school \in Ids,
             Begin(r, "create", id, Placed(Klasse, school, school, name), 0, {school}),
             FreshId(id)
      PROVE  Goal
  <2> DEFINE w == Placed(Klasse, school, school, name)
  <2>1. w.typ = Klasse /\ w = Placed(w.typ, w.adm, w.zug, w.name) /\ LiveRow(w) /\ Site(w) \in {school}
    BY PlacedFields
  <2>2. Begin(r, "create", id, w, 0, {school})
    BY <1>2
  <2> HIDE DEF w
  <2> QED
    <3>1. PICK d : /\ IsRequest(d) /\ d.pc = "load" /\ d.op = "create" /\ d.id = id
                 /\ d.wish = w /\ d.sites = {school} /\ Starts(r, d)
      BY <1>1, <1>2, <2>1, <2>2, BegunFields
    <3>2. Asked(d, orga[d.id])
      BY <1>1, <1>2, <2>1, <2>2, <3>1 DEF Asked, FreshId
    <3> QED
      BY <3>1, <3>2
<1>3. ASSUME NEW id \in Ids, NEW name \in Names, NEW parent \in Parents,
             Begin(r, "create", id, Placed(Schule, parent, parent, name), 0, {id, "kennung"}),
             FreshId(id)
      PROVE  Goal
  <2> DEFINE w == Placed(Schule, parent, parent, name)
  <2>1. w.adm = parent /\ w = Placed(w.typ, w.adm, w.zug, w.name) /\ LiveRow(w)
        /\ Site(w) \in {id, "kennung"}
    BY <1>1, PlacedFields
  <2>2. Begin(r, "create", id, w, 0, {id, "kennung"})
    BY <1>3
  <2> HIDE DEF w
  <2> QED
    <3>1. PICK d : /\ IsRequest(d) /\ d.pc = "load" /\ d.op = "create" /\ d.id = id
                 /\ d.wish = w /\ d.sites = {id, "kennung"} /\ Starts(r, d)
      BY <1>3, <2>1, <2>2, BegunFields
    <3>2. Asked(d, orga[d.id])
      BY <1>3, <2>1, <2>2, <3>1 DEF Asked, FreshId
    <3> QED
      BY <3>1, <3>2
<1>4. ASSUME NEW id \in Ids, NEW name \in Names, NEW page, IsKlasse(id),
             Begin(r, "rename", id, [name |-> name], page, {orga[id].adm})
      PROVE  Goal
  <2> DEFINE w == [name |-> name]
  <2>1. w = [name |-> w.name] /\ Begin(r, "rename", id, w, page, {orga[id].adm})
    BY <1>4
  <2> HIDE DEF w
  <2> QED
    <3>1. PICK d : /\ IsRequest(d) /\ d.pc = "load" /\ d.op = "rename" /\ d.id = id
                 /\ d.wish = w /\ d.sites = {orga[id].adm} /\ Starts(r, d)
      BY <1>4, <2>1, BegunFields
    <3>2. Asked(d, orga[d.id])
      BY <1>4, <2>1, <3>1 DEF Asked, IsKlasse
    <3> QED
      BY <3>1, <3>2
<1>5. ASSUME NEW id \in Ids, Live(id), Begin(r, "delete", id, NoWish, 0, {orga[id].adm} \cap Ids)
      PROVE  Goal
  <2>1. PICK d : /\ IsRequest(d) /\ d.pc = "load" /\ d.op = "delete" /\ d.id = id
               /\ d.wish = NoWish /\ d.sites = {orga[id].adm} \cap Ids /\ Starts(r, d)
    BY <1>5, BegunFields
  <2>2. Asked(d, orga[d.id])
    BY <1>5, <2>1 DEF Asked, Live, LiveRow
  <2> QED
    BY <2>1, <2>2
<1>6. ASSUME NEW id \in Ids, IsSchool(id), Begin(r, "enable", id, Enabling, 0, {id})
      PROVE  Goal
  <2>1. PICK d : /\ IsRequest(d) /\ d.pc = "load" /\ d.op = "enable" /\ d.id = id
               /\ d.wish = Enabling /\ d.sites = {id} /\ Starts(r, d)
    BY <1>6, BegunFields
  <2>2. Asked(d, orga[d.id])
    BY <1>6, <2>1 DEF Asked, IsSchool
  <2> QED
    BY <2>1, <2>2
<1>7. ASSUME NEW id \in Ids, NEW wish, IsSchool(id), Begin(r, "move", id, wish, 0, {})
      PROVE  Goal
  <2>1. PICK d : /\ IsRequest(d) /\ d.pc = "load" /\ d.op = "move" /\ d.id = id
               /\ d.wish = wish /\ d.sites = {} /\ Starts(r, d)
    BY <1>7, BegunFields
  <2>2. Asked(d, orga[d.id])
    BY <1>7, <2>1 DEF Asked, IsSchool
  <2> QED
    BY <2>1, <2>2
<1>8. ASSUME NEW id \in Ids, NEW name \in Names, NEW school \in Ids, IsKlasse(id),
             Begin(r, "put", id, Placed(Klasse, school, school, name), 0, {orga[id].adm, school})
      PROVE  Goal
  <2> DEFINE w == Placed(Klasse, school, school, name)
  <2>1. w.typ = Klasse /\ w = Placed(w.typ, w.adm, w.zug, w.name) /\ LiveRow(w)
        /\ Site(w) \in {orga[id].adm, school}
    BY PlacedFields
  <2>2. Begin(r, "put", id, w, 0, {orga[id].adm, school}) /\ orga[id].typ = Klasse
    BY <1>8 DEF IsKlasse
  <2> HIDE DEF w
  <2> QED
    <3>1. PICK d : /\ IsRequest(d) /\ d.pc = "load" /\ d.op = "put" /\ d.id = id
                 /\ d.wish = w /\ d.sites = {orga[id].adm, school} /\ Starts(r, d)
      BY <1>8, <2>1, <2>2, BegunFields
    <3>2. Asked(d, orga[d.id])
      BY <1>8, <2>1, <2>2, <3>1 DEF Asked, LiveRow
    <3> QED
      BY <3>1, <3>2
<1>9. ASSUME NEW id \in Ids, NEW name \in Names, NEW parent \in Parents, IsSchool(id),
             Begin(r, "put", id, Placed(Schule, parent, parent, name), 0, {id, "kennung"})
      PROVE  Goal
  <2> DEFINE w == Placed(Schule, parent, parent, name)
  <2>1. w.typ = Schule /\ w = Placed(w.typ, w.adm, w.zug, w.name) /\ LiveRow(w)
        /\ Site(w) \in {id, "kennung"}
    BY <1>1, PlacedFields
  <2>2. Begin(r, "put", id, w, 0, {id, "kennung"}) /\ orga[id].typ = Schule
    BY <1>9 DEF IsSchool
  <2> HIDE DEF w
  <2> QED
    <3>1. PICK d : /\ IsRequest(d) /\ d.pc = "load" /\ d.op = "put" /\ d.id = id
                 /\ d.wish = w /\ d.sites = {id, "kennung"} /\ Starts(r, d)
      BY <1>1, <1>9, <2>1, <2>2, BegunFields
    <3>2. Asked(d, orga[d.id])
      BY <1>1, <1>9, <2>1, <2>2, <3>1 DEF Asked, LiveRow
    <3> QED
      BY <3>1, <3>2
<1> HIDE DEF Goal
<1>10. NewIds \subseteq Ids
  BY DEF Ids
<1>11. CASE CreateKlasse(r)
  BY <1>2, <1>10, <1>11 DEF CreateKlasse
<1>12. CASE CreateSchool(r)
  BY <1>3, <1>10, <1>12 DEF CreateSchool
<1>13. CASE Rename(r)
  BY <1>4, <1>13 DEF Rename
<1>14. CASE DeleteKlasse(r)
  BY <1>5, <1>14 DEF DeleteKlasse
<1>15. CASE Enable(r)
  BY <1>6, <1>15 DEF Enable
<1>16. CASE Move(r)
  BY <1>7, <1>16 DEF Move
<1>17. CASE PutKlasse(r)
  BY <1>8, <1>17 DEF PutKlasse
<1>18. CASE PutSchool(r)
  BY <1>9, <1>18 DEF PutSchool
<1> QED
  BY <1>11, <1>12, <1>13, <1>14, <1>15, <1>16, <1>17, <1>18 DEF Ask

\* A request that goes on and writes nothing.
Moves(r, d) == call' = [call EXCEPT ![r] = d] /\ UNCHANGED <<orga, raced>>

LEMMA LoadedCreate ==
    ASSUME Inv, NEW r \in Requests, LoadCreate(r), ~Refuse(r)
    PROVE  LET c == call[r]
           IN  \E its : \E d \in Onward(c, "check", c.row, c.entity, its) :
                   /\ Moves(r, d) /\ Busy(r) /\ c.op = "create" /\ c.pc = "load"
                   /\ c.wish.typ # Schule => IsSchool(c.wish.adm) /\ its = orga[c.wish.adm].its
<1> DEFINE c == call[r]
<1>1. Busy(r) /\ c.op = "create" /\ c.pc = "load"
  BY DEF LoadCreate, At, Busy
<1>2. IsRequest(c)
  BY <1>1 DEF Inv, Good
<1>3. CASE c.wish.typ = Schule
  <2> DEFINE d == [c EXCEPT !.pc = "check"]
  <2>1. d \in Onward(c, "check", c.row, c.entity, c.its)
    BY <1>2 DEF IsRequest, Onward
  <2>2. Moves(r, d)
    BY <1>3 DEF LoadCreate, Go, Moves, Inv
  <2> HIDE DEF d
  <2> QED
    BY <1>1, <1>3, <2>1, <2>2
<1>4. CASE c.wish.typ # Schule
  <2> DEFINE d == [c EXCEPT !.pc = "check", !.its = orga[c.wish.adm].its]
  <2>1. d \in Onward(c, "check", c.row, c.entity, orga[c.wish.adm].its)
    BY <1>2 DEF IsRequest, Onward
  <2>2. Moves(r, d) /\ IsSchool(c.wish.adm)
    BY <1>4 DEF LoadCreate, Moves, Inv
  <2> HIDE DEF d
  <2> QED
    BY <1>1, <1>4, <2>1, <2>2
<1> QED
  BY <1>3, <1>4

LEMMA ReadFields ==
    ASSUME NEW r \in Requests, NEW pc, NEW its, Read(r, pc, its), IsRequest(call[r]), Inv
    PROVE  LET o == orga[call[r].id]
           IN  \E d \in Onward(call[r], pc, o, o.version, its) : Moves(r, d)
<1> DEFINE o == orga[call[r].id]
           d == [call[r] EXCEPT !.pc = pc, !.row = o, !.its = its, !.entity = o.version]
<1>1. call' = [call EXCEPT ![r] = d] /\ UNCHANGED <<orga, raced>>
  BY DEF Read, Inv
<1>2. d \in Onward(call[r], pc, o, o.version, its)
  <2> DEFINE n == o.version
  <2> HIDE DEF n, o
  <2>1. d \in Onward(call[r], pc, o, n, its)
    BY DEF IsRequest, Onward, n
  <2> QED
    BY <2>1 DEF n
<1> HIDE DEF d
<1> QED
  BY <1>1, <1>2 DEF Moves

LEMMA LoadedRow ==
    ASSUME Inv, NEW r \in Requests, LoadRename(r) \/ LoadDelete(r) \/ LoadOther(r), ~Refuse(r)
    PROVE  LET c == call[r]
               o == orga[c.id]
           IN  \E pc \in {"check", "save"} : \E its : \E d \in Onward(c, pc, o, o.version, its) :
                   /\ Moves(r, d) /\ Busy(r) /\ c.pc = "load" /\ LiveRow(o)
                   /\ c.op \in {"rename", "delete", "enable", "move", "put"}
                   /\ c.op = "rename" => its = orga[o.adm].its /\ (pc = "save" => o.name = c.wish.name)
                   /\ c.op = "delete" => IsKlasse(c.id)
                   /\ c.op = "put" => pc = "check"
<1> DEFINE c == call[r]
           o == orga[c.id]
<1>1. Busy(r) /\ c.pc = "load"
  BY DEF LoadRename, LoadDelete, LoadOther, At, Busy
<1>2. IsRequest(c)
  BY <1>1 DEF Inv, Good
<1>3. \E pc \in {"check", "save"} : \E its :
        /\ Read(r, pc, its) /\ LiveRow(o)
        /\ c.op \in {"rename", "delete", "enable", "move", "put"}
        /\ c.op = "rename" => its = orga[o.adm].its /\ (pc = "save" => o.name = c.wish.name)
        /\ c.op = "delete" => IsKlasse(c.id)
        /\ c.op = "put" => pc = "check"
  <2>1. CASE LoadRename(r)
    <3> DEFINE pc == IF o.name = c.wish.name THEN "save" ELSE "check"
               its == orga[o.adm].its
    <3>1. Read(r, pc, its) /\ LiveRow(o) /\ c.op = "rename"
      BY <2>1 DEF LoadRename, At, Live, LiveRow
    <3>2. pc \in {"check", "save"} /\ (pc = "save" => o.name = c.wish.name)
      OBVIOUS
    <3> HIDE DEF pc, c, o
    <3>3. c.op # "delete" /\ c.op # "put"
      BY <3>1
    <3> QED
      BY <3>1, <3>2, <3>3
  <2>2. CASE LoadDelete(r)
    <3> DEFINE pc == "save"
    <3>1. Read(r, pc, FALSE) /\ LiveRow(o) /\ c.op = "delete" /\ IsKlasse(c.id)
      BY <2>2 DEF LoadDelete, At, IsKlasse, LiveRow
    <3>2. pc \in {"check", "save"}
      OBVIOUS
    <3> HIDE DEF pc, c, o
    <3>3. c.op # "rename" /\ c.op # "put"
      BY <3>1
    <3> QED
      BY <3>1, <3>2, <3>3
  <2>3. CASE LoadOther(r)
    <3> DEFINE pc == IF c.op = "enable" THEN "save" ELSE "check"
    <3>1. Read(r, pc, FALSE) /\ LiveRow(o) /\ c.op \in {"enable", "move", "put"}
      BY <2>3 DEF LoadOther, Live, LiveRow
    <3>2. pc \in {"check", "save"} /\ (c.op = "put" => pc = "check")
      OBVIOUS
    <3> HIDE DEF pc, c, o
    <3>3. c.op # "rename" /\ c.op # "delete"
      BY <3>1
    <3> QED
      BY <3>1, <3>2, <3>3
  <2> QED
    BY <2>1, <2>2, <2>3
<1>4. PICK pc \in {"check", "save"} : \E its :
        /\ Read(r, pc, its) /\ LiveRow(o)
        /\ c.op \in {"rename", "delete", "enable", "move", "put"}
        /\ c.op = "rename" => its = orga[o.adm].its /\ (pc = "save" => o.name = c.wish.name)
        /\ c.op = "delete" => IsKlasse(c.id)
        /\ c.op = "put" => pc = "check"
  BY <1>3
<1>5. PICK its :
        /\ Read(r, pc, its) /\ LiveRow(o)
        /\ c.op \in {"rename", "delete", "enable", "move", "put"}
        /\ c.op = "rename" => its = orga[o.adm].its /\ (pc = "save" => o.name = c.wish.name)
        /\ c.op = "delete" => IsKlasse(c.id)
        /\ c.op = "put" => pc = "check"
  BY <1>4
<1>6. PICK d \in Onward(c, pc, o, o.version, its) : Moves(r, d)
  BY <1>2, <1>5, ReadFields
<1> QED
  BY <1>1, <1>6, <1>5

LEMMA Checked ==
    ASSUME Inv, NEW r \in Requests, CheckName(r) \/ CheckMove(r), ~Refuse(r)
    PROVE  LET c == call[r]
               want == Wanted(r)
           IN  \E e : \E d \in Onward(c, "save", c.row, e, c.its) :
                   /\ Moves(r, d) /\ Busy(r) /\ c.pc = "check"
                   /\ c.op \in {"create", "rename", "put", "move"}
                   /\ c.op # "move" => /\ NameFree(want.typ, want.adm, want.name)
                                       /\ want.typ = Klasse => IsSchool(want.adm)
<1>1. /\ Busy(r) /\ call[r].pc = "check" /\ call[r].op \in {"create", "rename", "put", "move"}
  BY DEF CheckName, CheckMove, At, Busy
<1>2. IsRequest(call[r])
  BY <1>1 DEF Inv, Good
<1>3. PICK e : call' = [call EXCEPT ![r].pc = "save", ![r].entity = e] /\ UNCHANGED <<orga, raced>>
  BY DEF CheckName, CheckMove
<1> DEFINE d == [call[r] EXCEPT !.pc = "save", !.entity = e]
<1>4. d \in Onward(call[r], "save", call[r].row, e, call[r].its)
  BY <1>2 DEF IsRequest, Onward
<1>5. Moves(r, d)
  BY <1>3 DEF Moves, Inv
<1> HIDE DEF d
<1>6. call[r].op # "move" => /\ NameFree(Wanted(r).typ, Wanted(r).adm, Wanted(r).name)
                             /\ Wanted(r).typ = Klasse => IsSchool(Wanted(r).adm)
  BY DEF CheckName, CheckMove, At
<1> QED
  BY <1>1, <1>4, <1>5, <1>6

\* A request that writes a row: what becomes of the row and of the request.
Writes(r, row, d) ==
    /\ call' = [call EXCEPT ![r] = d] /\ UNCHANGED raced
    /\ orga' = [k \in Ids |-> orga'[k]] /\ orga'[call[r].id] = row
    /\ \A k \in Ids : k # call[r].id => orga'[k] = orga[k]

LEMMA StoreFields ==
    ASSUME Inv, NEW r \in Requests, Busy(r), NEW row, NEW pc \in {"idle", "published"}, Store(r, row, pc)
    PROVE  LET c == call[r]
           IN  \E d : /\ Writes(r, row, d)
                      /\ IF pc = "idle" THEN d = Idle
                         ELSE d \in Onward(c, "published", c.row, c.entity, c.its)
<1>1. call[r].id \in Ids /\ IsRequest(call[r])
  BY DEF Inv, Good
<1> DEFINE e == [call[r] EXCEPT !.pc = pc]
           d == IF pc = "idle" THEN Idle ELSE e
<1>2. Writes(r, row, d)
  BY <1>1 DEF Store, Writes, Inv
<1>3. e \in Onward(call[r], pc, call[r].row, call[r].entity, call[r].its)
  BY <1>1 DEF IsRequest, Onward
<1> HIDE DEF e
<1> QED
  BY <1>2, <1>3

LEMMA Inserted ==
    ASSUME Inv, NEW r \in Requests, Insert(r)
    PROVE  LET c == call[r]
               row == With(c.wish, [its |-> FALSE, version |-> 1])
           IN  \E d : /\ Writes(r, row, d) /\ Busy(r) /\ c.op = "create" /\ c.pc = "save"
                      /\ IF c.wish.typ = Klasse THEN d \in Onward(c, "published", c.row, c.entity, c.its)
                         ELSE d = Idle
<1>1. Busy(r) /\ call[r].op = "create" /\ call[r].pc = "save"
  BY DEF Insert, At, Busy
<1> DEFINE pc == IF call[r].wish.typ = Klasse THEN "published" ELSE "idle"
           row == With(call[r].wish, [its |-> FALSE, version |-> 1])
<1>2. Store(r, row, pc) /\ pc \in {"idle", "published"} /\ (pc = "published" <=> call[r].wish.typ = Klasse)
  BY DEF Insert
<1> HIDE DEF pc, row
<1>3. PICK d : /\ Writes(r, row, d)
               /\ IF pc = "idle" THEN d = Idle
                  ELSE d \in Onward(call[r], "published", call[r].row, call[r].entity, call[r].its)
  BY <1>1, <1>2, StoreFields
<1> QED
  BY <1>1, <1>2, <1>3 DEF row

LEMMA Removed ==
    ASSUME Inv, NEW r \in Requests, Remove(r), ~Refuse(r)
    PROVE  LET c == call[r]
           IN  \E d \in Onward(c, "published", c.row, c.entity, c.its) :
                   Writes(r, Deleted, d) /\ Busy(r) /\ c.op = "delete" /\ c.pc = "save"
<1>1. Busy(r) /\ call[r].op = "delete" /\ call[r].pc = "save" /\ Store(r, Deleted, "published")
  BY DEF Remove, At, Busy
<1> QED
  BY <1>1, StoreFields

LEMMA Updated ==
    ASSUME Inv, NEW r \in Requests, Update(r), ~Refuse(r)
    PROVE  LET c == call[r]
           IN  /\ Busy(r) /\ Updating(c) /\ UpToDate(r) /\ c.pc = "save"
               /\ \E d : /\ Writes(r, Written(r), d)
                         /\ IF c.op \in {"rename", "enable"}
                            THEN d \in Onward(c, "published", c.row, c.entity, c.its)
                            ELSE d = Idle
<1>1. Busy(r) /\ Updating(call[r]) /\ UpToDate(r) /\ call[r].pc = "save"
  BY DEF Update, Busy, Updating
<1> DEFINE pc == IF call[r].op \in {"rename", "enable"} THEN "published" ELSE "idle"
<1>2. /\ Store(r, Written(r), pc) /\ pc \in {"idle", "published"}
      /\ pc = "published" <=> call[r].op \in {"rename", "enable"}
  BY <1>1 DEF Update
<1> HIDE DEF pc
<1>3. PICK d : /\ Writes(r, Written(r), d)
               /\ IF pc = "idle" THEN d = Idle
                  ELSE d \in Onward(call[r], "published", call[r].row, call[r].entity, call[r].its)
  BY <1>1, <1>2, StoreFields
<1> QED
  BY <1>1, <1>2, <1>3

\* The handlers: a request whose event is out goes on to the call, or ends.
LEMMA Handled ==
    ASSUME Inv, NEW r \in Requests, HandleKlasse(r) \/ HandleDeleted(r) \/ HandleEnabled(r), ~Refuse(r)
    PROVE  LET c == call[r]
           IN  \E d : /\ Moves(r, d) /\ Busy(r) /\ c.pc = "published" /\ IsRequest(d)
                      /\ d.pc = "send" /\ d.op = c.op /\ d.id = c.id /\ d.sites = c.sites
                      /\ d.row = c.row /\ d.page = c.page /\ d.its = c.its
                      /\ c.op \in {"create", "rename", "delete", "enable"}
                      /\ c.op \in {"create", "rename"} => c.its
                      /\ c.op # "enable" => d.wish = c.wish
                      /\ c.op = "enable" => d.wish =
                           [k \in KlassenOf(c.id) \cup {c.id} |->
                              IF k = c.id THEN [parent |-> Root, name |-> c.row.name]
                              ELSE [parent |-> c.id, name |-> orga[k].name]]
<1> DEFINE c == call[r]
<1>1. Busy(r) /\ c.pc = "published"
  BY DEF HandleKlasse, HandleDeleted, HandleEnabled, At, Busy
<1>2. IsRequest(c)
  BY <1>1 DEF Inv, Good
<1>3. CASE HandleKlasse(r) \/ HandleDeleted(r)
  <2> DEFINE d == [c EXCEPT !.pc = "send"]
  <2>1. Moves(r, d)
    BY <1>3 DEF HandleKlasse, HandleDeleted, Go, Moves, Inv
  <2>2. d \in Onward(c, "send", c.row, c.entity, c.its)
    BY <1>2 DEF IsRequest, Onward
  <2>3. c.op \in {"create", "rename", "delete"} /\ (c.op \in {"create", "rename"} => c.its)
    BY <1>3 DEF HandleKlasse, HandleDeleted, At
  <2> HIDE DEF d
  <2>4. /\ IsRequest(d) /\ d.pc = "send" /\ d.op = c.op /\ d.id = c.id /\ d.sites = c.sites
        /\ d.row = c.row /\ d.page = c.page /\ d.its = c.its /\ d.wish = c.wish
    <3> HIDE DEF c
    <3> QED
      BY <2>2, OnwardFields
  <2>5. c.op # "enable"
    BY <2>3
  <2> HIDE DEF c
  <2> QED
    BY <1>1, <2>1, <2>3, <2>4, <2>5 DEF c
<1>4. CASE HandleEnabled(r)
  <2> DEFINE w == [k \in KlassenOf(c.id) \cup {c.id} |->
                     IF k = c.id THEN [parent |-> Root, name |-> c.row.name]
                     ELSE [parent |-> c.id, name |-> orga[k].name]]
             d == [c EXCEPT !.pc = "send", !.wish = w]
  <2>1. c.op = "enable" /\ call' = [call EXCEPT ![r].pc = "send", ![r].wish = w] /\ UNCHANGED <<orga, raced>>
    BY <1>4 DEF HandleEnabled, At
  <2>2. w = [k \in KlassenOf(c.id) \cup {c.id} |->
                IF k = c.id THEN [parent |-> Root, name |-> c.row.name]
                ELSE [parent |-> c.id, name |-> orga[k].name]]
    OBVIOUS
  <2> HIDE DEF w
  <2>3. Moves(r, d)
    BY <2>1 DEF Moves, Inv
  <2>4. d \in [pc : {"send"}, op : {c.op}, id : {c.id}, wish : {w}, page : {c.page},
               row : {c.row}, entity : {c.entity}, its : {c.its}, sites : {c.sites}]
    BY <1>2 DEF IsRequest
  <2> HIDE DEF d
  <2>5. /\ IsRequest(d) /\ d.pc = "send" /\ d.op = c.op /\ d.id = c.id /\ d.sites = c.sites
        /\ d.row = c.row /\ d.page = c.page /\ d.its = c.its /\ d.wish = w
    BY <2>4 DEF IsRequest
  <2> QED
    BY <1>1, <2>1, <2>2, <2>3, <2>5
<1> QED
  BY <1>3, <1>4

-----------------------------------------------------------------------------
(* Names.                                                                  *)

\* A request that names a row has the place of that name among its sites; a
\* renaming, if the row is still the one on the client's page.
Sited(c, o) ==
    /\ c.op \in {"create", "put"} =>
        /\ c.wish = Placed(c.wish.typ, c.wish.adm, c.wish.zug, c.wish.name)
        /\ LiveRow(c.wish) /\ Site(c.wish) \in c.sites
    /\ c.op = "put" /\ LiveRow(o) => o.typ = c.wish.typ
    /\ c.op = "rename" =>
        /\ c.wish = [name |-> c.wish.name]
        /\ c.pc = "load" /\ LiveRow(o) =>
             o.typ = Klasse /\ (o.version = c.page => o.adm \in c.sites)
        /\ c.pc # "load" =>
             /\ c.row.typ = Klasse /\ DOMAIN c.row = Columns
             /\ c.row.version = c.page => c.row.adm \in c.sites
    /\ c.op = "enable" /\ c.pc # "send" => c.wish = Enabling

SitesInv == Apart /\ \A r \in Requests : Busy(r) => Sited(call[r], orga[call[r].id])

\* How a row changes that another request works on.
Kept(o, p) ==
    LiveRow(p) => LiveRow(o) /\ p.typ = o.typ /\ (p = o \/ p.version > o.version)

LEMMA KeptIsSited ==
    ASSUME NEW c, NEW o, NEW p, WellFormed(o), WellFormed(p), Good(c, o), Sited(c, o), Kept(o, p)
    PROVE  Sited(c, p)
<1>1. CASE ~LiveRow(p)
  BY <1>1 DEF Sited
<1>2. CASE LiveRow(p)
  <2>1. LiveRow(o) /\ p.typ = o.typ /\ (p = o \/ p.version > o.version)
    BY <1>2 DEF Kept
  <2>2. o.version \in Nat /\ p.version \in Nat
    BY <1>2, <2>1 DEF WellFormed
  <2>3. c.op = "rename" /\ c.pc = "load" => c.page \in Nat /\ c.page <= o.version
    BY <2>1 DEF Good
  <2>4. c.op = "rename" /\ c.pc = "load" /\ p.version = c.page => p = o
    BY <2>1, <2>2, <2>3
  <2> QED
    BY <2>1, <2>4 DEF Sited
<1> QED
  BY <1>1, <1>2

\* A step of a request that is under way; an idle request is bound to nothing.
LEMMA SitesStep ==
    ASSUME Inv, Inv', SitesInv, NEW r \in Requests, Busy(r), NEW d,
           call' = [call EXCEPT ![r] = d], UNCHANGED raced,
           \A k \in Ids : k # call[r].id => orga'[k] = orga[k],
           Creating(call[r]) \/ Kept(orga[call[r].id], orga'[call[r].id]),
           d # Idle => d.sites = call[r].sites /\ Sited(d, orga'[d.id])
    PROVE  SitesInv'
<1>1. call'[r] = d /\ \A s \in Requests \ {r} : call'[s] = call[s]
  BY DEF Inv
<1>2. ASSUME NEW s \in Requests, call'[s] # Idle PROVE Sited(call'[s], orga'[call'[s].id])
  <2>1. CASE s = r
    BY <1>1, <1>2, <2>1
  <2>2. CASE s # r
    <3>1. call'[s] = call[s] /\ Busy(s) /\ Good(call[s], orga[call[s].id])
          /\ Sited(call[s], orga[call[s].id]) /\ call[s].id \in Ids
      BY <1>1, <1>2, <2>2 DEF Busy, Inv, SitesInv, Good
    <3>2. CASE call[s].id # call[r].id
      BY <3>1, <3>2
    <3>3. CASE call[s].id = call[r].id
      <4>1. Kept(orga[call[s].id], orga'[call[s].id])
        BY <2>2, <3>1, <3>3 DEF Inv
      <4>2. WellFormed(orga[call[s].id]) /\ WellFormed(orga'[call[s].id])
        BY <3>1 DEF Inv
      <4> QED
        BY <3>1, <4>1, <4>2, KeptIsSited
    <3> QED
      BY <3>2, <3>3
  <2> QED
    BY <2>1, <2>2
<1>3. ASSUME NEW s \in Requests, NEW t \in Requests, call'[s] # Idle, call'[t] # Idle, s # t
      PROVE  call'[s].sites \cap call'[t].sites \subseteq raced'
  BY <1>1, <1>3 DEF SitesInv, Apart, Busy
<1> QED
  BY <1>2, <1>3 DEF SitesInv, Apart, Busy

\* A step that writes no row.
LEMMA SitesGo ==
    ASSUME Inv, Inv', SitesInv, NEW r \in Requests, Busy(r), NEW d, Moves(r, d),
           d # Idle => /\ d.sites = call[r].sites /\ d.id = call[r].id
                       /\ Sited(d, orga[call[r].id])
    PROVE  SitesInv'
<1>1. d # Idle => Sited(d, orga'[d.id])
  BY DEF Moves
<1>2. Kept(orga[call[r].id], orga'[call[r].id])
  BY DEF Moves, Kept
<1> QED
  BY <1>1, <1>2, SitesStep DEF Moves

\* A request that has not read yet is replaced by one that begins.
LEMMA SitesBegin ==
    ASSUME Inv, SitesInv, NEW r \in Requests, Ask(r) PROVE SitesInv'
<1>1. PICK d : Asked(d, orga[d.id]) /\ Starts(r, d)
  BY Beginning
<1>2. Sited(d, orga[d.id])
  <2>1. d.op = "rename" => orga[d.id].typ = Klasse /\ orga[d.id].adm \in d.sites
    BY <1>1 DEF Asked
  <2>2. d.pc = "load" /\ d.pc # "send"
    BY <1>1 DEF Asked
  <2> QED
    BY <1>1, <2>1, <2>2 DEF Asked, Sited
<1>3. call[r] = Idle /\ call'[r] = d /\ UNCHANGED orga
      /\ \A s \in Requests \ {r} : call'[s] = call[s]
  BY <1>1 DEF Inv, Starts
<1>4. ASSUME NEW s \in Requests, call'[s] # Idle PROVE Sited(call'[s], orga'[call'[s].id])
  BY <1>2, <1>3, <1>4 DEF SitesInv, Busy
<1>5. raced \subseteq raced' /\ \A s \in Requests \ {r} : Busy(s) => d.sites \cap call[s].sites \subseteq raced'
  BY <1>1 DEF Starts
<1>6. ASSUME NEW s \in Requests, NEW t \in Requests, call'[s] # Idle, call'[t] # Idle, s # t
      PROVE  call'[s].sites \cap call'[t].sites \subseteq raced'
  BY <1>3, <1>5, <1>6 DEF SitesInv, Apart, Busy
<1> QED
  BY <1>4, <1>6 DEF SitesInv, Apart, Busy

\* What update() leaves of the row it writes, which is the one it has read.
LEMMA WrittenRow ==
    ASSUME Inv, SitesInv, NEW r \in Requests, Busy(r), Updating(call[r]), UpToDate(r)
    PROVE  LET c == call[r]
               o == orga[c.id]
               p == Written(r)
           IN  /\ LiveRow(o) /\ LiveRow(p) /\ p.typ = o.typ /\ p.version = o.version + 1
               /\ Kept(o, p) /\ o = c.row
               /\ p.adm = IF c.op = "put" THEN c.wish.adm ELSE o.adm
               /\ p.name = IF c.op \in {"put", "rename"} THEN c.wish.name ELSE o.name
               /\ p.its = IF c.op = "enable" THEN TRUE ELSE o.its
               /\ c.op = "rename" => c.row.version = c.page
<1> DEFINE c == call[r]
           o == orga[c.id]
           p == Written(r)
           w == Wanted(r)
           Fields == /\ p.typ = o.typ
                     /\ p.adm = IF c.op = "put" THEN c.wish.adm ELSE o.adm
                     /\ p.name = IF c.op \in {"put", "rename"} THEN c.wish.name ELSE o.name
                     /\ p.its = IF c.op = "enable" THEN TRUE ELSE o.its
<1>1. /\ LiveRow(o) /\ o = c.row /\ o.version = c.entity /\ o.version \in Nat /\ DOMAIN o = Columns
      /\ c.op = "rename" => c.row.version = c.page
  BY UpdatesSeen
<1>2. Sited(c, o) /\ Good(c, o) /\ c.op \in {"rename", "move", "put", "enable"} /\ c.pc \in {"check", "save"}
  BY DEF SitesInv, Inv, Updating
<1>3. \A f : /\ f \in DOMAIN c.wish => w[f] = c.wish[f]
             /\ f \in Columns \ DOMAIN c.wish => w[f] = o[f]
  <2>1. w = With(c.wish, o) /\ DOMAIN o = Columns
    BY <1>1 DEF Wanted
  <2> DEFINE v == c.wish
  <2>2. w = With(v, o)
    BY <2>1
  <2> HIDE DEF w, o, v
  <2>3. \A f : /\ f \in DOMAIN v => w[f] = v[f]
               /\ f \in DOMAIN o \ DOMAIN v => w[f] = o[f]
    <3> TAKE f
    <3> QED
      BY <2>2 DEF With
  <2> QED
    BY <2>1, <2>3 DEF v
<1>4. /\ p.typ = w.typ /\ p.adm = w.adm /\ p.name = w.name /\ p.its = w.its
      /\ p.version = o.version + 1
  BY <1>1 DEF Written
<1>5. ASSUME c.op = "put" PROVE Fields
  <2>1. c.wish = Placed(c.wish.typ, c.wish.adm, c.wish.zug, c.wish.name) /\ o.typ = c.wish.typ
    BY <1>1, <1>2, <1>5 DEF Sited
  <2>2. DOMAIN c.wish = {"typ", "adm", "zug", "name"}
    <3> DEFINE v == c.wish
    <3> HIDE DEF v
    <3>1. v = Placed(v.typ, v.adm, v.zug, v.name) => DOMAIN v = {"typ", "adm", "zug", "name"}
      BY DEF Placed
    <3> QED
      BY <2>1, <3>1 DEF v
  <2>3. w.typ = c.wish.typ /\ w.adm = c.wish.adm /\ w.name = c.wish.name /\ w.its = o.its
    <3> HIDE DEF w, o, c
    <3> QED
      BY <1>3, <2>2 DEF Columns
  <2> HIDE DEF w, p, c, o
  <2> QED
    BY <1>4, <1>5, <2>1, <2>3
<1>6. ASSUME c.op = "rename" PROVE Fields
  <2>1. c.wish = [name |-> c.wish.name]
    BY <1>2, <1>6 DEF Sited
  <2>2. DOMAIN c.wish = {"name"}
    <3> DEFINE v == c.wish
    <3> HIDE DEF v
    <3> QED
      BY <2>1 DEF v
  <2>3. w.typ = o.typ /\ w.adm = o.adm /\ w.name = c.wish.name /\ w.its = o.its
    <3> HIDE DEF w, o, c
    <3> QED
      BY <1>3, <2>2 DEF Columns
  <2> HIDE DEF w, p, c, o
  <2> QED
    BY <1>4, <1>6, <2>3
<1>7. ASSUME c.op = "move" PROVE Fields
  <2>1. c.wish = [zug |-> c.wish.zug]
    BY <1>2, <1>7 DEF Good
  <2>2. DOMAIN c.wish = {"zug"}
    <3> DEFINE v == c.wish
    <3> HIDE DEF v
    <3> QED
      BY <2>1 DEF v
  <2>3. w.typ = o.typ /\ w.adm = o.adm /\ w.name = o.name /\ w.its = o.its
    <3> HIDE DEF w, o, c
    <3> QED
      BY <1>3, <2>2 DEF Columns
  <2> HIDE DEF w, p, c, o
  <2> QED
    BY <1>4, <1>7, <2>3
<1>8. ASSUME c.op = "enable" PROVE Fields
  <2>1. c.wish = [its |-> TRUE]
    BY <1>2, <1>8 DEF Sited, Enabling
  <2>2. DOMAIN c.wish = {"its"} /\ c.wish.its
    <3> DEFINE v == c.wish
    <3> HIDE DEF v
    <3> QED
      BY <2>1 DEF v
  <2>3. w.typ = o.typ /\ w.adm = o.adm /\ w.name = o.name /\ w.its = c.wish.its
    <3> HIDE DEF w, o, c
    <3> QED
      BY <1>3, <2>2 DEF Columns
  <2>4. w.its = TRUE
    <3> HIDE DEF w, o, c
    <3> QED
      BY <2>1, <2>3
  <2> HIDE DEF w, p, c, o
  <2> QED
    BY <1>4, <1>8, <2>3, <2>4
<1>9. Fields
  <2> HIDE DEF Fields, w, p, c, o
  <2> QED
    BY <1>2, <1>5, <1>6, <1>7, <1>8
<1>10. LiveRow(p) /\ p.version > o.version
  <2> HIDE DEF w, p, c, o
  <2> QED
    BY <1>1, <1>4, <1>9 DEF LiveRow
<1> HIDE DEF w, p, c, o
<1>11. Kept(o, p)
  BY <1>1, <1>9, <1>10 DEF Kept
<1> QED
  BY <1>1, <1>4, <1>9, <1>10, <1>11 DEF p, c, o

\* The row that create() writes.
LEMMA InsertedRow ==
    ASSUME NEW w, w = Placed(w.typ, w.adm, w.zug, w.name)
    PROVE  LET p == With(w, [its |-> FALSE, version |-> 1])
           IN  /\ p.typ = w.typ /\ p.adm = w.adm /\ p.name = w.name /\ p.its = FALSE
<1> DEFINE p == With(w, [its |-> FALSE, version |-> 1])
           v == [its |-> FALSE, version |-> 1]
<1>1. DOMAIN w = {"typ", "adm", "zug", "name"}
  BY DEF Placed
<1>2. DOMAIN v = {"its", "version"} /\ v.its = FALSE
  OBVIOUS
<1>3. p = With(w, v)
  OBVIOUS
<1> HIDE DEF p, v
<1>4. \A f : /\ f \in DOMAIN w => p[f] = w[f]
             /\ f \in DOMAIN v \ DOMAIN w => p[f] = v[f]
  <2> TAKE f
  <2> QED
    BY <1>3 DEF With
<1>5. p.typ = w.typ /\ p.adm = w.adm /\ p.name = w.name /\ p.its = v.its
  BY <1>1, <1>2, <1>4
<1> QED
  BY <1>2, <1>5 DEF p

LEMMA IdleIsNoRequest == \A c : IsRequest(c) => c # Idle
<1> SUFFICES ASSUME NEW c, IsRequest(c) PROVE c # Idle
  OBVIOUS
<1>1. DOMAIN c = {"pc", "op", "id", "wish", "page", "row", "entity", "its", "sites"}
  BY DEF IsRequest
<1>2. DOMAIN Idle = {"pc"}
  BY DEF Idle
<1>3. "op" \in DOMAIN c /\ "op" \notin DOMAIN Idle
  BY <1>1, <1>2
<1> QED
  BY <1>3

LEMMA SitesInductive == ASSUME Inv, Inv', SitesInv, [Next]_vars PROVE SitesInv'
<1>1. CASE UNCHANGED vars
  BY <1>1 DEF vars, SitesInv, Apart, Busy
<1>2. ASSUME NEW r \in Requests, Ask(r) PROVE SitesInv'
  BY <1>2, SitesBegin
<1>3. ASSUME NEW r \in Requests, Busy(r), Refuse(r) PROVE SitesInv'
  BY <1>3, SitesGo DEF Refuse, Moves
<1>4. ASSUME NEW r \in Requests, LoadCreate(r), ~Refuse(r) PROVE SitesInv'
  <2>1. PICK its : \E d \in Onward(call[r], "check", call[r].row, call[r].entity, its) :
          Moves(r, d) /\ Busy(r) /\ call[r].op = "create"
    BY <1>4, LoadedCreate
  <2>2. PICK d \in Onward(call[r], "check", call[r].row, call[r].entity, its) : Moves(r, d)
    BY <2>1
  <2>3. d.op = call[r].op /\ d.id = call[r].id /\ d.wish = call[r].wish /\ d.sites = call[r].sites
    BY <2>2, OnwardFields
  <2>4. Sited(d, orga[call[r].id])
    BY <2>1, <2>3 DEF Sited, SitesInv
  <2> QED
    BY <2>1, <2>2, <2>3, <2>4, SitesGo
<1>5. ASSUME NEW r \in Requests, LoadRename(r) \/ LoadDelete(r) \/ LoadOther(r), ~Refuse(r) PROVE SitesInv'
  <2> DEFINE o == orga[call[r].id]
  <2>1. PICK pc \in {"check", "save"} : \E its : \E d \in Onward(call[r], pc, o, o.version, its) :
          /\ Moves(r, d) /\ Busy(r) /\ call[r].pc = "load" /\ LiveRow(o)
          /\ call[r].op \in {"rename", "delete", "enable", "move", "put"}
    BY <1>5, LoadedRow
  <2>2. PICK its : \E d \in Onward(call[r], pc, o, o.version, its) :
          /\ Moves(r, d) /\ Busy(r) /\ call[r].pc = "load" /\ LiveRow(o)
          /\ call[r].op \in {"rename", "delete", "enable", "move", "put"}
    BY <2>1
  <2>3. PICK d \in Onward(call[r], pc, o, o.version, its) : Moves(r, d)
    BY <2>2
  <2>4. d.op = call[r].op /\ d.id = call[r].id /\ d.wish = call[r].wish /\ d.sites = call[r].sites
        /\ d.pc = pc /\ d.row = o /\ d.page = call[r].page
    BY <2>3, OnwardFields
  <2>5. Sited(d, o)
    <3>1. Sited(call[r], o) /\ DOMAIN o = Columns
      BY <2>2 DEF SitesInv, Inv, Good, WellFormed
    <3> HIDE DEF o
    <3> QED
      BY <2>2, <2>4, <3>1 DEF Sited
  <2> QED
    BY <2>2, <2>3, <2>4, <2>5, SitesGo
<1>6. ASSUME NEW r \in Requests, CheckName(r) \/ CheckMove(r), ~Refuse(r) PROVE SitesInv'
  <2> DEFINE c == call[r]
  <2>1. PICK e : \E d \in Onward(c, "save", c.row, e, c.its) : Moves(r, d) /\ Busy(r) /\ c.pc = "check"
                   /\ c.op \in {"create", "rename", "put", "move"}
    BY <1>6, Checked
  <2>2. PICK d \in Onward(c, "save", c.row, e, c.its) : Moves(r, d)
    BY <2>1
  <2>3. d.op = c.op /\ d.id = c.id /\ d.wish = c.wish /\ d.sites = c.sites
        /\ d.pc = "save" /\ d.row = c.row /\ d.page = c.page
    BY <2>2, OnwardFields
  <2>4. Sited(d, orga[c.id])
    BY <2>1, <2>3 DEF Sited, SitesInv
  <2> QED
    BY <2>1, <2>2, <2>3, <2>4, SitesGo
<1>7. ASSUME NEW r \in Requests, NEW c, c = call[r], Busy(r), NEW row, NEW d, Writes(r, row, d),
             c.pc = "save", Creating(c) \/ Kept(orga[c.id], row),
             d = Idle \/ d \in Onward(c, "published", c.row, c.entity, c.its)
      PROVE  SitesInv'
  <2>1. orga'[c.id] = row
    BY <1>7 DEF Writes
  <2>2. d # Idle => /\ d.op = c.op /\ d.id = c.id /\ d.wish = c.wish /\ d.sites = c.sites
                    /\ d.pc = "published" /\ d.row = c.row /\ d.page = c.page
    BY <1>7, OnwardFields
  <2>3. d # Idle => Sited(d, row)
    <3> SUFFICES ASSUME d # Idle PROVE Sited(d, row)
      OBVIOUS
    <3>1. Sited(c, orga[c.id])
      BY <1>7 DEF SitesInv
    <3>2. c.op = "put" /\ LiveRow(row) => row.typ = c.wish.typ
      BY <1>7, <3>1 DEF Sited, Kept, Creating
    <3> QED
      BY <1>7, <2>2, <3>1, <3>2 DEF Sited
  <2> QED
    BY ZenonT(40), <1>7, <2>1, <2>2, <2>3, SitesStep DEF Writes
<1>8. ASSUME NEW r \in Requests, Insert(r) PROVE SitesInv'
  <2>1. PICK row, d : /\ Writes(r, row, d) /\ Busy(r) /\ call[r].pc = "save" /\ Creating(call[r])
                      /\ d = Idle \/ d \in Onward(call[r], "published", call[r].row, call[r].entity, call[r].its)
    BY <1>8, Inserted DEF Creating
  <2> QED
    BY <1>7, <2>1
<1>9. ASSUME NEW r \in Requests, Remove(r), ~Refuse(r) PROVE SitesInv'
  <2>1. PICK d \in Onward(call[r], "published", call[r].row, call[r].entity, call[r].its) :
          Writes(r, Deleted, d) /\ Busy(r) /\ call[r].op = "delete" /\ call[r].pc = "save"
    BY <1>9, Removed
  <2>2. Kept(orga[call[r].id], Deleted)
    BY UnbornNotLive DEF Kept
  <2> QED
    BY <1>7, <2>1, <2>2
<1>10. ASSUME NEW r \in Requests, Update(r), ~Refuse(r) PROVE SitesInv'
  <2>1. /\ Busy(r) /\ Updating(call[r]) /\ UpToDate(r) /\ call[r].pc = "save"
        /\ \E d : /\ Writes(r, Written(r), d)
                  /\ d = Idle \/ d \in Onward(call[r], "published", call[r].row, call[r].entity, call[r].its)
    BY <1>10, Updated
  <2>2. Kept(orga[call[r].id], Written(r))
    BY <2>1, WrittenRow
  <2> QED
    BY <1>7, <2>1, <2>2
<1>11. ASSUME NEW r \in Requests, HandleKlasse(r) \/ HandleDeleted(r) \/ HandleEnabled(r), ~Refuse(r)
       PROVE  SitesInv'
  <2> DEFINE c == call[r]
  <2>1. PICK d : /\ Moves(r, d) /\ Busy(r) /\ c.pc = "published" /\ d.pc = "send"
                 /\ d.op = c.op /\ d.id = c.id /\ d.sites = c.sites /\ d.row = c.row
                 /\ d.page = c.page /\ c.op \in {"create", "rename", "delete", "enable"}
                 /\ c.op # "enable" => d.wish = c.wish
    BY ZenonT(40), <1>11, Handled
  <2>2. Sited(d, orga[c.id])
    BY <2>1 DEF Sited, SitesInv
  <2> QED
    BY <2>1, <2>2, SitesGo
<1>12. ASSUME NEW r \in Requests PROVE Send(r) => Refuse(r) /\ Busy(r)
  BY DEF Send, Busy
<1>13. ASSUME NEW r \in Requests, Register(r) PROVE SitesInv'
  <2>1. Ask(r) \/ Busy(r)
    BY <1>13 DEF Register, Step, LoadCreate, LoadRename, LoadDelete, LoadOther, CheckName, CheckMove,
       Insert, Remove, Update, At, Busy
  <2> QED
    BY <1>2, <1>3, <1>4, <1>5, <1>6, <1>8, <1>9, <1>10, <1>13, <2>1 DEF Register, Step
<1>14. ASSUME NEW r \in Requests, HandleKlasse(r) \/ HandleDeleted(r) \/ HandleEnabled(r) PROVE Busy(r)
  BY <1>14 DEF HandleKlasse, HandleDeleted, HandleEnabled, At, Busy
<1> QED
  BY <1>1, <1>3, <1>11, <1>12, <1>13, <1>14 DEF Next

\* A request that is about to give a row a name, and what the row will then be.
Naming(c) ==
    /\ c.pc = "save"
    /\ c.op \in {"create", "put"} \/ (c.op = "rename" /\ c.row.version = c.page)

Target(c) ==
    [typ |-> IF c.op = "rename" THEN c.row.typ ELSE c.wish.typ,
     adm |-> IF c.op = "rename" THEN c.row.adm ELSE c.wish.adm,
     name |-> c.wish.name]

Rivals(o, p) == LiveRow(o) /\ LiveRow(p) /\ o.typ = p.typ /\ Site(o) = Site(p)
Free(id, t) == \A k \in Ids \ {id} : Rivals(orga[k], t) => orga[k].name # t.name

\* Where requests did not overlap names are unique, and a name that was checked
\* is still free.
NamesInv ==
    /\ \A a, b \in Ids : a # b /\ Rivals(orga[a], orga[b]) /\ Site(orga[a]) \notin raced
                         => orga[a].name # orga[b].name
    /\ \A r \in Requests : Busy(r) /\ Naming(call[r]) /\ Site(Target(call[r])) \notin raced
                           => Free(call[r].id, Target(call[r]))

LEMMA TargetFields ==
    ASSUME NEW c, NEW o, Sited(c, o), c.op \in {"create", "put", "rename"},
           c.op = "rename" => c.pc # "load"
    PROVE  LET t == Target(c)
               w == With(c.wish, c.row)
           IN  /\ w.typ = t.typ /\ w.adm = t.adm /\ w.name = t.name
               /\ LiveRow(t) /\ t.typ \in {Klasse, Schule}
               /\ t.name = c.wish.name
               /\ c.op # "rename" => t.typ = c.wish.typ /\ t.adm = c.wish.adm
               /\ c.op = "rename" => t.typ = c.row.typ /\ t.adm = c.row.adm
               /\ c.op = "rename" /\ c.row.version = c.page => Site(t) \in c.sites
               /\ c.op # "rename" => Site(t) \in c.sites
<1> DEFINE t == Target(c)
           w == With(c.wish, c.row)
<1>1. /\ t.name = c.wish.name
      /\ c.op # "rename" => t.typ = c.wish.typ /\ t.adm = c.wish.adm
      /\ c.op = "rename" => t.typ = c.row.typ /\ t.adm = c.row.adm
  BY DEF Target
<1>2. \A f : /\ f \in DOMAIN c.wish => w[f] = c.wish[f]
             /\ f \in DOMAIN c.row \ DOMAIN c.wish => w[f] = c.row[f]
  <2> DEFINE v == c.wish
             o2 == c.row
  <2>1. w = With(v, o2)
    OBVIOUS
  <2> HIDE DEF w, v, o2
  <2>2. \A f : /\ f \in DOMAIN v => w[f] = v[f]
               /\ f \in DOMAIN o2 \ DOMAIN v => w[f] = o2[f]
    <3> TAKE f
    <3> QED
      BY <2>1 DEF With
  <2> QED
    BY <2>2 DEF v, o2
<1> HIDE DEF t, w
<1>3. CASE c.op # "rename"
  <2>1. c.wish = Placed(c.wish.typ, c.wish.adm, c.wish.zug, c.wish.name)
        /\ LiveRow(c.wish) /\ Site(c.wish) \in c.sites
    BY <1>3 DEF Sited
  <2>2. DOMAIN c.wish = {"typ", "adm", "zug", "name"}
    <3> DEFINE v == c.wish
    <3> HIDE DEF v
    <3>1. v = Placed(v.typ, v.adm, v.zug, v.name) => DOMAIN v = {"typ", "adm", "zug", "name"}
      BY DEF Placed
    <3> QED
      BY <2>1, <3>1 DEF v
  <2>3. w.typ = c.wish.typ /\ w.adm = c.wish.adm /\ w.name = c.wish.name
    BY <1>2, <2>2
  <2>4. LiveRow(t) /\ t.typ \in {Klasse, Schule} /\ Site(t) \in c.sites
    BY <1>1, <1>3, <2>1 DEF LiveRow, Site
  <2> QED
    BY <1>1, <1>3, <2>3, <2>4 DEF t, w
<1>4. CASE c.op = "rename"
  <2>1. c.wish = [name |-> c.wish.name] /\ c.row.typ = Klasse /\ DOMAIN c.row = Columns
        /\ (c.row.version = c.page => c.row.adm \in c.sites)
    BY <1>4 DEF Sited
  <2>2. DOMAIN c.wish = {"name"}
    <3> DEFINE v == c.wish
    <3> HIDE DEF v
    <3> QED
      BY <2>1 DEF v
  <2>3. w.typ = c.row.typ /\ w.adm = c.row.adm /\ w.name = c.wish.name
    BY <1>2, <2>1, <2>2 DEF Columns
  <2>4. LiveRow(t) /\ t.typ \in {Klasse, Schule} /\ (c.row.version = c.page => Site(t) \in c.sites)
    BY <1>1, <1>4, <2>1 DEF LiveRow, Site
  <2> QED
    BY <1>1, <1>4, <2>3, <2>4 DEF t, w
<1> QED
  BY <1>3, <1>4

\* The name that a request is about to give is given at one of its sites.
LEMMA NamesAtSite ==
    ASSUME SitesInv, NEW r \in Requests, Busy(r), Naming(call[r])
    PROVE  Site(Target(call[r])) \in call[r].sites /\ LiveRow(Target(call[r]))
<1>1. Sited(call[r], orga[call[r].id])
  BY DEF SitesInv
<1>2. call[r].op \in {"create", "put", "rename"} /\ call[r].pc # "load"
  BY DEF Naming
<1> QED
  BY <1>1, <1>2, TargetFields DEF Naming

\* A step that writes a row: as it was meant to be named, as it was, or away.
LEMMA NamesStep ==
    ASSUME Inv, SitesInv, NamesInv, NEW r \in Requests, Busy(r), NEW row, NEW d,
           Writes(r, row, d), call[r].id \in Ids, d # Idle => ~Naming(d),
           LET o == orga[call[r].id]
               t == Target(call[r])
           IN  \/ ~LiveRow(row)
               \/ LiveRow(o) /\ row.typ = o.typ /\ row.adm = o.adm /\ row.name = o.name
               \/ Naming(call[r]) /\ row.typ = t.typ /\ row.adm = t.adm /\ row.name = t.name
    PROVE  NamesInv'
<1> DEFINE id == call[r].id
           o == orga[id]
           t == Target(call[r])
<1>1. /\ call'[r] = d /\ \A s \in Requests \ {r} : call'[s] = call[s]
      /\ orga'[id] = row /\ \A k \in Ids : k # id => orga'[k] = orga[k]
      /\ raced' = raced
  BY DEF Inv, Writes
\* The row as it is written meets no row of its name.
<1>2. \A k \in Ids \ {id} : Rivals(orga[k], row) /\ Site(row) \notin raced => orga[k].name # row.name
  <2> SUFFICES ASSUME NEW k \in Ids \ {id}, Rivals(orga[k], row), Site(row) \notin raced
               PROVE  orga[k].name # row.name
    OBVIOUS
  <2>1. CASE LiveRow(o) /\ row.typ = o.typ /\ row.adm = o.adm /\ row.name = o.name
    <3>1. Rivals(orga[k], o) /\ Site(o) = Site(row) /\ Site(orga[k]) = Site(row)
      BY <2>1 DEF Rivals, Site
    <3> QED
      BY <2>1, <3>1 DEF NamesInv
  <2>2. CASE Naming(call[r]) /\ row.typ = t.typ /\ row.adm = t.adm /\ row.name = t.name
    <3>1. Rivals(orga[k], t) /\ Site(t) = Site(row)
      BY <2>2, NamesAtSite DEF Rivals, Site
    <3>2. Free(id, t)
      BY <2>2, <3>1 DEF NamesInv
    <3> QED
      BY <2>2, <3>1, <3>2 DEF Free
  <2> QED
    BY <2>1, <2>2 DEF Rivals
\* Nor does it take a name from a request that checked it.
<1>3. ASSUME NEW s \in Requests \ {r}, Busy(s), Naming(call[s]), Site(Target(call[s])) \notin raced,
             call[s].id # id
      PROVE  Rivals(row, Target(call[s])) => row.name # Target(call[s]).name
  <2> DEFINE u == Target(call[s])
  <2> SUFFICES ASSUME Rivals(row, u) PROVE row.name # u.name
    OBVIOUS
  <2>1. Free(call[s].id, u) /\ Site(u) \in call[s].sites
    BY <1>3, NamesAtSite DEF NamesInv
  <2>2. CASE LiveRow(o) /\ row.typ = o.typ /\ row.adm = o.adm /\ row.name = o.name
    <3>1. Rivals(o, u)
      BY <2>2 DEF Rivals, Site
    <3> QED
      BY <1>3, <2>1, <2>2, <3>1 DEF Free
  <2>3. CASE Naming(call[r]) /\ row.typ = t.typ /\ row.adm = t.adm /\ row.name = t.name
    <3>1. Site(t) = Site(row) /\ Site(t) \in call[r].sites
      BY <2>3, NamesAtSite DEF Site
    <3>2. Site(u) \in call[r].sites \cap call[s].sites
      BY <2>1, <3>1 DEF Rivals
    <3>3. FALSE
      BY <1>3, <3>2 DEF SitesInv, Apart
    <3> QED
      BY <3>3
  <2> QED
    BY <2>2, <2>3 DEF Rivals
<1>4. ASSUME NEW a \in Ids, NEW b \in Ids, a # b, Rivals(orga'[a], orga'[b]), Site(orga'[a]) \notin raced
      PROVE  orga'[a].name # orga'[b].name
  <2>1. CASE a = id
    <3>1. Rivals(orga[b], row) /\ Site(row) \notin raced
      BY <1>1, <1>4, <2>1 DEF Rivals
    <3> QED
      BY <1>1, <1>2, <1>4, <2>1, <3>1
  <2>2. CASE b = id
    <3>1. Rivals(orga[a], row) /\ Site(row) \notin raced
      BY <1>1, <1>4, <2>2 DEF Rivals
    <3> QED
      BY <1>1, <1>2, <1>4, <2>2, <3>1
  <2>3. CASE a # id /\ b # id
    BY <1>1, <1>4, <2>3 DEF NamesInv
  <2> QED
    BY <2>1, <2>2, <2>3
<1>5. ASSUME NEW s \in Requests, call'[s] # Idle, Naming(call'[s]), Site(Target(call'[s])) \notin raced
      PROVE  \A k \in Ids \ {call'[s].id} :
                 Rivals(orga'[k], Target(call'[s])) => orga'[k].name # Target(call'[s]).name
  <2>1. s # r /\ call'[s] = call[s] /\ Busy(s)
    BY <1>1, <1>5 DEF Busy
  <2>2. Free(call[s].id, Target(call[s]))
    BY <1>5, <2>1 DEF NamesInv
  <2> TAKE k \in Ids \ {call'[s].id}
  <2>3. CASE k = id
    BY <1>1, <1>3, <1>5, <2>1, <2>3
  <2>4. CASE k # id
    BY <1>1, <2>1, <2>2, <2>4 DEF Free
  <2> QED
    BY <2>3, <2>4
<1> QED
  BY <1>1, <1>4, <1>5 DEF NamesInv, Free, Busy

\* A step that writes no row.
LEMMA NamesGo ==
    ASSUME Inv, NamesInv, NEW r \in Requests, NEW d, call' = [call EXCEPT ![r] = d],
           UNCHANGED orga, raced \subseteq raced',
           Naming(d) => d.id = call[r].id /\ (Site(Target(d)) \notin raced => Free(call[r].id, Target(d)))
    PROVE  NamesInv'
<1>1. call'[r] = d /\ \A s \in Requests \ {r} : call'[s] = call[s]
  BY DEF Inv
<1>2. ASSUME NEW s \in Requests, call'[s] # Idle, Naming(call'[s]), Site(Target(call'[s])) \notin raced'
      PROVE  Free(call'[s].id, Target(call'[s]))
  BY <1>1, <1>2 DEF NamesInv, Busy
<1>3. \A id, t : (\A k \in Ids \ {id} : Rivals(orga'[k], t) => orga'[k].name # t.name) <=> Free(id, t)
  BY DEF Free
<1> QED
  BY <1>2, <1>3 DEF NamesInv, Free, Busy

LEMMA NamesInductive == ASSUME Inv, Inv', SitesInv, NamesInv, [Next]_vars PROVE NamesInv'
<1>1. ~Naming(Idle)
  BY DEF Naming, Idle
<1>2. CASE UNCHANGED vars
  BY <1>2 DEF vars, NamesInv, Free, Busy
<1>3. ASSUME NEW r \in Requests, Ask(r) PROVE NamesInv'
  <2>1. PICK d : Asked(d, orga[d.id]) /\ Starts(r, d)
    BY <1>3, Beginning
  <2>2. ~Naming(d) /\ raced \subseteq raced'
    BY <2>1 DEF Asked, Naming, Starts
  <2> QED
    BY <2>1, <2>2, NamesGo DEF Starts
<1>4. ASSUME NEW r \in Requests, Refuse(r) PROVE NamesInv'
  BY <1>1, <1>4, NamesGo DEF Refuse
<1>5. ASSUME NEW r \in Requests, NEW d, Moves(r, d), d.pc # "save" PROVE NamesInv'
  BY <1>5, NamesGo DEF Moves, Naming
<1>6. ASSUME NEW r \in Requests, LoadCreate(r), ~Refuse(r) PROVE NamesInv'
  <2>1. PICK its : \E d \in Onward(call[r], "check", call[r].row, call[r].entity, its) : Moves(r, d)
    BY <1>6, LoadedCreate
  <2>2. PICK d \in Onward(call[r], "check", call[r].row, call[r].entity, its) : Moves(r, d)
    BY <2>1
  <2>3. d.pc = "check"
    BY <2>2, OnwardFields
  <2> QED
    BY <1>5, <2>2, <2>3
<1>7. ASSUME NEW r \in Requests, LoadRename(r) \/ LoadDelete(r) \/ LoadOther(r), ~Refuse(r) PROVE NamesInv'
  <2> DEFINE c == call[r]
             o == orga[c.id]
  <2>1. PICK pc \in {"check", "save"} : \E its : \E d \in Onward(c, pc, o, o.version, its) :
          /\ Moves(r, d) /\ Busy(r) /\ c.pc = "load" /\ LiveRow(o)
          /\ c.op \in {"rename", "delete", "enable", "move", "put"}
          /\ c.op = "rename" => (pc = "save" => o.name = c.wish.name)
          /\ c.op = "put" => pc = "check"
    BY <1>7, LoadedRow
  <2>2. PICK its : \E d \in Onward(c, pc, o, o.version, its) :
          /\ Moves(r, d) /\ Busy(r) /\ c.pc = "load" /\ LiveRow(o)
          /\ c.op \in {"rename", "delete", "enable", "move", "put"}
          /\ c.op = "rename" => (pc = "save" => o.name = c.wish.name)
          /\ c.op = "put" => pc = "check"
    BY <2>1
  <2>3. PICK d \in Onward(c, pc, o, o.version, its) : Moves(r, d)
    BY <2>2
  <2>4. d.op = c.op /\ d.id = c.id /\ d.wish = c.wish /\ d.pc = pc /\ d.row = o
    BY <2>3, OnwardFields
  <2>5. Naming(d) /\ Site(Target(d)) \notin raced => Free(c.id, Target(d))
    <3> SUFFICES ASSUME Naming(d), Site(Target(d)) \notin raced, NEW k \in Ids \ {c.id},
                        Rivals(orga[k], Target(d))
                 PROVE  orga[k].name # Target(d).name
      BY DEF Free
    <3>1. d.op = "rename" /\ o.name = c.wish.name
      BY <2>2, <2>4 DEF Naming
    <3>2. Target(d).typ = o.typ /\ Target(d).adm = o.adm /\ Target(d).name = o.name
      BY <2>4, <3>1 DEF Target
    <3>3. Rivals(orga[k], o) /\ Site(o) = Site(Target(d)) /\ Site(orga[k]) = Site(o)
      BY <2>2, <3>2 DEF Rivals, Site
    <3>4. c.id \in Ids
      BY <2>2 DEF Inv, Good
    <3> QED
      BY <3>2, <3>3, <3>4 DEF NamesInv
  <2> QED
    BY <2>3, <2>4, <2>5, NamesGo DEF Moves
<1>8. ASSUME NEW r \in Requests, CheckName(r) \/ CheckMove(r), ~Refuse(r) PROVE NamesInv'
  <2> DEFINE c == call[r]
             want == Wanted(r)
  <2>1. PICK e : \E d \in Onward(c, "save", c.row, e, c.its) :
          /\ Moves(r, d) /\ Busy(r) /\ c.pc = "check"
          /\ c.op \in {"create", "rename", "put", "move"}
          /\ c.op # "move" => NameFree(want.typ, want.adm, want.name)
    BY <1>8, Checked
  <2>2. PICK d \in Onward(c, "save", c.row, e, c.its) : Moves(r, d)
    BY <2>1
  <2>3. d.op = c.op /\ d.id = c.id /\ d.wish = c.wish /\ d.pc = "save" /\ d.row = c.row
    BY <2>2, OnwardFields
  <2>4. Naming(d) => Free(c.id, Target(d))
    <3> SUFFICES ASSUME Naming(d), NEW k \in Ids \ {c.id}, Rivals(orga[k], Target(d))
                 PROVE  orga[k].name # Target(d).name
      BY DEF Free
    <3>1. c.op \in {"create", "put", "rename"} /\ NameFree(want.typ, want.adm, want.name)
      BY <2>1, <2>3 DEF Naming
    <3>2. Target(d) = Target(c)
      BY <2>3 DEF Target
    <3>3. Sited(c, orga[c.id])
      BY <2>1 DEF SitesInv
    <3> DEFINE t == Target(c)
    <3>4. want.typ = t.typ /\ want.adm = t.adm /\ want.name = t.name /\ t.typ \in {Klasse, Schule}
      BY <2>1, <3>1, <3>3, TargetFields DEF Wanted
    <3>5. Rivals(orga[k], t)
      BY <3>2
    <3> HIDE DEF t, want
    <3>6. CASE t.typ = Klasse
      <4>1. k \in KlassenOf(t.adm)
        BY <3>5, <3>6 DEF Rivals, Site, KlassenOf, IsKlasse
      <4> QED
        BY <3>1, <3>2, <3>4, <3>6, <4>1 DEF NameFree, t
    <3>7. CASE t.typ # Klasse
      <4>1. IsSchool(k)
        BY <3>4, <3>5, <3>7 DEF Rivals, IsSchool
      <4> QED
        BY <3>1, <3>2, <3>4, <3>7, <4>1 DEF NameFree, t
    <3> QED
      BY <3>6, <3>7
  <2> QED
    BY <2>2, <2>3, <2>4, NamesGo DEF Moves
<1>9. ASSUME NEW r \in Requests, Busy(r) PROVE call[r].id \in Ids /\ Good(call[r], orga[call[r].id])
                                               /\ Sited(call[r], orga[call[r].id])
  BY <1>9 DEF Inv, Good, SitesInv
<1>10. ASSUME NEW r \in Requests, NEW d, d = Idle \/ d \in Onward(call[r], "published", call[r].row, call[r].entity, call[r].its)
       PROVE  ~Naming(d)
  BY <1>1, <1>10, OnwardFields DEF Naming
<1>11. ASSUME NEW r \in Requests, Insert(r) PROVE NamesInv'
  <2> DEFINE c == call[r]
             row == With(c.wish, [its |-> FALSE, version |-> 1])
  <2>1. PICK d : /\ Writes(r, row, d) /\ Busy(r) /\ c.op = "create" /\ c.pc = "save"
                 /\ d = Idle \/ d \in Onward(c, "published", c.row, c.entity, c.its)
    BY <1>11, Inserted
  <2>2. c.wish = Placed(c.wish.typ, c.wish.adm, c.wish.zug, c.wish.name)
    BY <1>9, <2>1 DEF Good
  <2>3. row.typ = c.wish.typ /\ row.adm = c.wish.adm /\ row.name = c.wish.name
    <3> DEFINE w == c.wish
    <3> HIDE DEF w
    <3> QED
      BY <2>2, InsertedRow DEF w
  <2>4. Naming(c) /\ Target(c).typ = c.wish.typ /\ Target(c).adm = c.wish.adm /\ Target(c).name = c.wish.name
    BY <2>1 DEF Naming, Target
  <2> HIDE DEF row
  <2> QED
    BY <1>9, <1>10, <2>1, <2>3, <2>4, NamesStep
<1>12. ASSUME NEW r \in Requests, Remove(r), ~Refuse(r) PROVE NamesInv'
  <2>1. PICK d : /\ Writes(r, Deleted, d) /\ Busy(r)
                 /\ d = Idle \/ d \in Onward(call[r], "published", call[r].row, call[r].entity, call[r].its)
    BY <1>12, Removed
  <2> QED
    BY <1>9, <1>10, <2>1, UnbornNotLive, NamesStep
<1>13. ASSUME NEW r \in Requests, Update(r), ~Refuse(r) PROVE NamesInv'
  <2> DEFINE c == call[r]
             o == orga[c.id]
             p == Written(r)
  <2>1. PICK d : /\ Writes(r, p, d) /\ Busy(r) /\ Updating(c) /\ UpToDate(r) /\ c.pc = "save"
                 /\ d = Idle \/ d \in Onward(c, "published", c.row, c.entity, c.its)
    BY <1>13, Updated
  <2>2. /\ LiveRow(o) /\ p.typ = o.typ /\ o = c.row
        /\ p.adm = IF c.op = "put" THEN c.wish.adm ELSE o.adm
        /\ p.name = IF c.op \in {"put", "rename"} THEN c.wish.name ELSE o.name
        /\ c.op = "rename" => c.row.version = c.page
    BY <2>1, WrittenRow
  <2>3. c.op \in {"rename", "move", "put", "enable"}
    BY <2>1 DEF Updating
  <2>4. c.op = "put" => o.typ = c.wish.typ
    BY <1>9, <2>1, <2>2 DEF Sited
  <2>5. c.op \in {"put", "rename"} => /\ Naming(c) /\ p.typ = Target(c).typ /\ p.adm = Target(c).adm
                                      /\ p.name = Target(c).name
    <3> HIDE DEF p
    <3> QED
      BY <2>1, <2>2, <2>4 DEF Naming, Target
  <2>6. c.op \in {"move", "enable"} => p.adm = o.adm /\ p.name = o.name
    BY <2>2
  <2> HIDE DEF p
  <2> QED
    BY <1>9, <1>10, <2>1, <2>2, <2>3, <2>5, <2>6, NamesStep
<1>14. ASSUME NEW r \in Requests, HandleKlasse(r) \/ HandleDeleted(r) \/ HandleEnabled(r), ~Refuse(r)
       PROVE  NamesInv'
  <2>1. PICK d : Moves(r, d) /\ d.pc = "send"
    BY ZenonT(40), <1>14, Handled
  <2> QED
    BY <1>5, <2>1
<1>15. ASSUME NEW r \in Requests PROVE Send(r) => Refuse(r)
  BY DEF Send
<1> QED
  BY <1>2, <1>3, <1>4, <1>6, <1>7, <1>8, <1>11, <1>12, <1>13, <1>14, <1>15 DEF Next, Register, Step

LEMMA InitSites == ASSUME GroupsInit PROVE SitesInv /\ NamesInv
<1>1. \A r \in Requests : ~Busy(r)
  BY DEF GroupsInit, Init, Busy
<1>2. ASSUME NEW a \in Ids, NEW b \in Ids, a # b, Rivals(orga[a], orga[b])
      PROVE  orga[a].name # orga[b].name
  <2>1. orga[a].typ = orga[b].typ /\ Live(a) /\ LiveRow(orga[b]) /\ orga[a] # Unborn /\ orga[b] # Unborn
    BY <1>2, UnbornNotLive DEF Rivals, Live, LiveRow
  <2>2. orga[a].typ \in {Klasse, Schule} /\ Schule # Klasse
    BY <2>1 DEF Live, Klasse, Schule
  <2>3. orga[a].adm = orga[b].adm
    <3>1. CASE orga[a].typ = Klasse
      BY <1>2, <2>1, <3>1 DEF Rivals, Site
    <3>2. CASE orga[a].typ = Schule
      <4>1. \A k \in Ids : orga[k] # Unborn /\ orga[k].typ # Klasse
                           => orga[k] \in First(Schule, {"oeffentlich"}, Names)
        BY DEF GroupsInit, Init, First
      <4>2. \A o \in First(Schule, {"oeffentlich"}, Names) : o.adm = "oeffentlich"
        BY DEF First
      <4> QED
        BY <1>2, <2>1, <2>2, <3>2, <4>1, <4>2
    <3> QED
      BY <2>2, <3>1, <3>2
  <2> QED
    BY <1>2, <2>1, <2>3 DEF GroupsInit, Init
<1> QED
  BY <1>1, <1>2 DEF SitesInv, Apart, NamesInv

\* Two Klassen of one school have the same name, or two schools the same Kennung,
\* only where requests have overlapped: validation looks at the names long before
\* the row is written, and nothing but the absence of others keeps a name free.
THEOREM NamesStayUnique == Spec => []NamesUniqueAlone
<1>1. GroupsInit => Inv /\ SitesInv /\ NamesInv
  BY InitInv, InitSites
<1>2. Inv /\ SitesInv /\ NamesInv /\ [Next]_vars => Inv' /\ SitesInv' /\ NamesInv'
  BY InvInductive, SitesInductive, NamesInductive
<1>3. NamesInv => NamesUniqueAlone
  <2> SUFFICES ASSUME NamesInv, NEW a \in Ids, NEW b \in Ids, a # b
               PROVE  /\ IsKlasse(a) /\ IsKlasse(b) /\ orga[a].adm \notin raced
                         => orga[a].adm # orga[b].adm \/ orga[a].name # orga[b].name
                      /\ IsSchool(a) /\ IsSchool(b) /\ "kennung" \notin raced
                         => orga[a].name # orga[b].name
    BY DEF NamesUniqueAlone
  <2>1. Schule # Klasse
    BY DEF Schule, Klasse
  <2> QED
    BY <2>1 DEF NamesInv, Rivals, LiveRow, Site, IsKlasse, IsSchool
<1> QED
  BY <1>1, <1>2, <1>3, PTL DEF Spec

-----------------------------------------------------------------------------
(* itslearning mirrors the schools.                                        *)

SchoolIn(rows, s) == s \in Ids /\ rows[s].typ = Schule
KlassenIn(rows, s) == {k \in Ids : rows[k].typ = Klasse /\ rows[k].adm = s}
EnabledIn(rows, s) == rows[s].its /\ Zuordnung(rows[s].adm) = "OEFFENTLICH"

\* Requests that have written their row and have still to tell itslearning: of a
\* Klasse to come, one to go, and a school to be opened.
Telling(c) == c.pc \notin {"load", "check", "save"}
ComingTo(c, s, k) ==
    Telling(c) /\ c.op \in {"create", "rename"} /\ c.id = k /\ Target(c).adm = s
LeavingFrom(c, s, k) == Telling(c) /\ c.op = "delete" /\ c.id = k /\ s \in c.sites
OpeningOf(c, s) == Telling(c) /\ c.op = "enable" /\ c.id = s

Coming(reqs, s, k) == \E r \in Requests : reqs[r] # Idle /\ ComingTo(reqs[r], s, k)
Leaving(reqs, s, k) == \E r \in Requests : reqs[r] # Idle /\ LeavingFrom(reqs[r], s, k)
Opening(reqs, s) == \E r \in Requests : reqs[r] # Idle /\ OpeningOf(reqs[r], s)

\* The groups of a school are those of its Klassen, but for what is being told.
Mirrored(rows, grps, reqs, s) ==
    /\ \A k \in Ids : grps[k].parent = s =>
         rows[s].its /\ (k \in KlassenIn(rows, s) \/ Leaving(reqs, s, k))
    /\ EnabledIn(rows, s) /\ ~Opening(reqs, s) =>
         /\ grps[s] = [parent |-> Root, name |-> rows[s].name]
         /\ \A k \in KlassenIn(rows, s) :
              Coming(reqs, s, k) \/ grps[k] = [parent |-> s, name |-> rows[k].name]

\* A request that has looked at the school of the Klasse it names.
Placing(c) ==
    \/ c.op \in {"create", "rename"} /\ c.pc # "load"
    \/ c.op = "put" /\ c.pc = "save"

\* What a request knows of the schools it works in.  "dirty" are the schools
\* where requests overlapped or of which itslearning was not told something,
\* "unsaid" only the latter.
KnowsSchool(c, rows, dirty) ==
    /\ (c.op \in {"move", "enable"} \/ (c.op = "put" /\ c.wish.typ = Schule)) => SchoolIn(rows, c.id)
    /\ (c.op = "enable" \/ (c.op = "put" /\ c.wish.typ = Schule)) => c.id \in c.sites
    /\ Placing(c) /\ Target(c).typ = Klasse => SchoolIn(rows, Target(c).adm)
    /\ Placing(c) /\ c.op # "put" /\ Target(c).typ = Klasse /\ Target(c).adm \notin dirty =>
         Target(c).adm \in c.sites /\ c.its = rows[Target(c).adm].its

\* What it knows of the Klasse, before it has written it and after.
KnowsKlasse(c, o, unsaid, dirty) ==
    /\ Telling(c) => c.op \in {"create", "rename", "delete", "enable"}
    /\ c.op \in {"rename", "delete", "put"} /\ ~Telling(c) /\ LiveRow(o) /\ o.typ = Klasse
       => o.adm \in c.sites \cup unsaid
    /\ c.op = "delete" /\ c.pc = "save" /\ LiveRow(o) => o.typ = Klasse
    /\ c.op = "delete" /\ Telling(c) => o = Deleted
    /\ c.op \in {"create", "rename"} /\ Telling(c) =>
         /\ Target(c).typ = Klasse /\ o # Unborn
         /\ LiveRow(o) => o.typ = Klasse /\ o.adm \in {Target(c).adm} \cup unsaid
         /\ Target(c).adm \notin dirty =>
              LiveRow(o) /\ o.adm = Target(c).adm /\ o.name = Target(c).name
         /\ c.pc = "send" => c.its

\* What a request that enables a school is going to send.
KnowsGroups(c, rows, unsaid, dirty) ==
    /\ c.op = "enable" /\ Telling(c) /\ c.id \notin dirty =>
         rows[c.id].its /\ rows[c.id].name = c.row.name
    /\ c.op = "enable" /\ c.pc = "send" =>
         /\ c.id \in DOMAIN c.wish /\ c.wish[c.id] = [parent |-> Root, name |-> c.row.name]
         /\ \A k \in DOMAIN c.wish \ {c.id} :
              /\ k \in Ids /\ c.wish[k].parent = c.id /\ rows[k] # Unborn
              /\ LiveRow(rows[k]) => rows[k].typ = Klasse /\ rows[k].adm \in {c.id} \cup unsaid
         /\ c.id \notin dirty =>
              /\ DOMAIN c.wish \subseteq KlassenIn(rows, c.id) \cup {c.id}
              /\ \A k \in KlassenIn(rows, c.id) :
                   k \in DOMAIN c.wish /\ c.wish[k] = [parent |-> c.id, name |-> rows[k].name]

Knows(c, rows, unsaid, dirty) ==
    /\ KnowsSchool(c, rows, dirty)
    /\ KnowsKlasse(c, rows[c.id], unsaid, dirty)
    /\ KnowsGroups(c, rows, unsaid, dirty)

HomesIn(rows) == \A k \in Ids : rows[k].typ = Klasse => SchoolIn(rows, rows[k].adm)
ParentsIn(rows, grps) ==
    \A k \in Ids : grps[k].parent \in {"none", Root} \/ SchoolIn(rows, grps[k].parent)

MirrorInv ==
    /\ groups = [k \in Ids |-> groups[k]]
    /\ HomesIn(orga) /\ ParentsIn(orga, groups)
    /\ \A r \in Requests : Busy(r) => Knows(call[r], orga, missed, raced \cup missed)
    /\ \A s \in Ids : SchoolIn(orga, s) /\ s \notin raced \cup missed =>
         Mirrored(orga, groups, call, s)

\* A school of which a step changes nothing.
Untouched(rows, rows2, s) ==
    /\ rows2[s].its = rows[s].its /\ rows2[s].adm = rows[s].adm /\ rows2[s].name = rows[s].name
    /\ KlassenIn(rows2, s) = KlassenIn(rows, s)
    /\ \A k \in KlassenIn(rows, s) : rows2[k].name = rows[k].name

\* What no step does to a row that there is: a Klasse leaves its school only if
\* itslearning is not told, a school stays.
Follows(rows, rows2, unsaid) ==
    \A k \in Ids : rows[k] # Unborn =>
        /\ rows2[k] # Unborn
        /\ rows[k] = Deleted => rows2[k] = Deleted
        /\ LiveRow(rows2[k]) => /\ LiveRow(rows[k]) /\ rows2[k].typ = rows[k].typ
                                /\ rows[k].typ = Klasse => rows2[k].adm \in {rows[k].adm} \cup unsaid
        /\ rows[k].typ = Schule => rows2[k].typ = Schule

LEMMA SchoolStays ==
    ASSUME NEW rows, NEW rows2, NEW unsaid, Follows(rows, rows2, unsaid), NEW s, SchoolIn(rows, s)
    PROVE  SchoolIn(rows2, s)
<1>1. rows[s] # Unborn
  BY UnbornNotLive DEF SchoolIn, LiveRow
<1> QED
  BY <1>1 DEF SchoolIn, Follows

\* What a request knows stays true under the steps of another, which touch no
\* school of this request unless it is dirty then.
LEMMA OthersKnow ==
    ASSUME NEW c, NEW rows, NEW rows2, NEW unsaid, NEW unsaid2, NEW dirty, NEW dirty2,
           Knows(c, rows, unsaid, dirty), Follows(rows, rows2, unsaid2),
           unsaid \subseteq unsaid2, dirty \subseteq dirty2,
           c.id \in Ids, c.op # "create" => rows[c.id] # Unborn,
           \A s \in c.sites : SchoolIn(rows, s) /\ s \notin dirty2 => Untouched(rows, rows2, s)
    PROVE  Knows(c, rows2, unsaid2, dirty2)
<1> DEFINE o == rows[c.id]
           p == rows2[c.id]
           t == Target(c)
<1>1. KnowsSchool(c, rows2, dirty2)
  <2>1. \A s : SchoolIn(rows, s) => SchoolIn(rows2, s)
    BY SchoolStays
  <2>2. ASSUME Placing(c), c.op # "put", t.typ = Klasse, t.adm \notin dirty2
        PROVE  t.adm \in c.sites /\ c.its = rows2[t.adm].its
    <3>1. SchoolIn(rows, t.adm) /\ t.adm \in c.sites /\ c.its = rows[t.adm].its
      BY <2>2 DEF Knows, KnowsSchool
    <3> QED
      BY <2>2, <3>1 DEF Untouched
  <2> HIDE DEF t
  <2> QED
    BY <2>1, <2>2 DEF Knows, KnowsSchool, t
<1>2. o # Unborn =>
        /\ p # Unborn /\ (o = Deleted => p = Deleted)
        /\ LiveRow(p) => LiveRow(o) /\ p.typ = o.typ /\ (o.typ = Klasse => p.adm \in {o.adm} \cup unsaid2)
  BY DEF Follows
<1>3. KnowsKlasse(c, p, unsaid2, dirty2)
  <2>1. KnowsKlasse(c, o, unsaid, dirty)
    BY DEF Knows
  <2>2. Telling(c) => c.op \in {"create", "rename", "delete", "enable"}
    BY <2>1 DEF KnowsKlasse
  <2>3. ASSUME c.op \in {"rename", "delete", "put"}, ~Telling(c), LiveRow(p), p.typ = Klasse
        PROVE  p.adm \in c.sites \cup unsaid2
    BY <1>2, <2>1, <2>3 DEF KnowsKlasse
  <2>4. c.op = "delete" /\ c.pc = "save" /\ LiveRow(p) => p.typ = Klasse
    BY <1>2, <2>1 DEF KnowsKlasse
  <2>5. c.op = "delete" /\ Telling(c) => p = Deleted
    BY <1>2, <2>1 DEF KnowsKlasse
  <2>6. ASSUME c.op \in {"create", "rename"}, Telling(c)
        PROVE  /\ t.typ = Klasse /\ p # Unborn
               /\ LiveRow(p) => p.typ = Klasse /\ p.adm \in {t.adm} \cup unsaid2
               /\ c.pc = "send" => c.its
    BY <1>2, <2>1, <2>6 DEF KnowsKlasse
  <2>7. ASSUME c.op \in {"create", "rename"}, Telling(c), t.adm \notin dirty2
        PROVE  LiveRow(p) /\ p.adm = t.adm /\ p.name = t.name
    <3>1. LiveRow(o) /\ o.typ = Klasse /\ o.adm = t.adm /\ o.name = t.name
      BY <2>1, <2>7 DEF KnowsKlasse
    <3>2. Placing(c) /\ t.typ = Klasse /\ c.op # "put"
      BY <2>6, <2>7 DEF Placing, Telling
    <3>3. SchoolIn(rows, t.adm) /\ t.adm \in c.sites
      BY <2>7, <3>2 DEF Knows, KnowsSchool
    <3>4. Untouched(rows, rows2, t.adm)
      BY <2>7, <3>3
    <3>5. c.id \in KlassenIn(rows, t.adm)
      BY <3>1 DEF KlassenIn
    <3> QED
      BY <3>1, <3>4, <3>5 DEF Untouched, KlassenIn, LiveRow
  <2> HIDE DEF t, o, p
  <2> QED
    BY <2>3, <2>4, <2>5, <2>6, <2>7, <2>2 DEF KnowsKlasse, t
<1>4. KnowsGroups(c, rows2, unsaid2, dirty2)
  <2>1. KnowsGroups(c, rows, unsaid, dirty) /\ KnowsSchool(c, rows, dirty)
    BY DEF Knows
  <2>2. ASSUME c.op = "enable", c.id \notin dirty2 PROVE Untouched(rows, rows2, c.id)
    BY <2>1, <2>2 DEF KnowsSchool
  <2>3. c.op = "enable" /\ Telling(c) /\ c.id \notin dirty2 =>
         rows2[c.id].its /\ rows2[c.id].name = c.row.name
    BY <2>1, <2>2 DEF KnowsGroups, Untouched
  <2>4. ASSUME c.op = "enable", c.pc = "send", NEW k \in DOMAIN c.wish \ {c.id}
        PROVE  /\ k \in Ids /\ c.wish[k].parent = c.id /\ rows2[k] # Unborn
               /\ LiveRow(rows2[k]) => rows2[k].typ = Klasse /\ rows2[k].adm \in {c.id} \cup unsaid2
    <3>1. /\ k \in Ids /\ c.wish[k].parent = c.id /\ rows[k] # Unborn
          /\ LiveRow(rows[k]) => rows[k].typ = Klasse /\ rows[k].adm \in {c.id} \cup unsaid
      BY <2>1, <2>4 DEF KnowsGroups
    <3> QED
      BY <3>1 DEF Follows
  <2>5. ASSUME c.op = "enable", c.pc = "send", c.id \notin dirty2
        PROVE  /\ DOMAIN c.wish \subseteq KlassenIn(rows2, c.id) \cup {c.id}
               /\ \A k \in KlassenIn(rows2, c.id) :
                   k \in DOMAIN c.wish /\ c.wish[k] = [parent |-> c.id, name |-> rows2[k].name]
    <3>1. /\ DOMAIN c.wish \subseteq KlassenIn(rows, c.id) \cup {c.id}
          /\ \A k \in KlassenIn(rows, c.id) :
                   k \in DOMAIN c.wish /\ c.wish[k] = [parent |-> c.id, name |-> rows[k].name]
      BY <2>1, <2>5 DEF KnowsGroups
    <3> QED
      BY <2>2, <2>5, <3>1 DEF Untouched
  <2>6. c.op = "enable" /\ c.pc = "send" =>
          c.id \in DOMAIN c.wish /\ c.wish[c.id] = [parent |-> Root, name |-> c.row.name]
    BY <2>1 DEF KnowsGroups
  <2> QED
    BY <2>3, <2>4, <2>5, <2>6 DEF KnowsGroups
<1> QED
  BY <1>1, <1>3, <1>4 DEF Knows

\* A school that a step does not touch stays mirrored.
LEMMA MirroredKept ==
    ASSUME NEW s \in Ids, NEW rows, NEW rows2, NEW grps, NEW grps2, NEW reqs, NEW reqs2,
           Mirrored(rows, grps, reqs, s), Untouched(rows, rows2, s),
           grps2[s] = grps[s], \A k \in KlassenIn(rows, s) : grps2[k] = grps[k],
           \A k \in Ids : grps2[k].parent = s =>
               grps[k].parent = s /\ (Leaving(reqs, s, k) => Leaving(reqs2, s, k)),
           EnabledIn(rows, s) /\ Opening(reqs, s) => Opening(reqs2, s),
           EnabledIn(rows, s) => \A k \in Ids : Coming(reqs, s, k) => Coming(reqs2, s, k)
    PROVE  Mirrored(rows2, grps2, reqs2, s)
<1>1. EnabledIn(rows2, s) <=> EnabledIn(rows, s)
  BY DEF Untouched, EnabledIn
<1>2. ASSUME NEW k \in Ids, grps2[k].parent = s
      PROVE  rows2[s].its /\ (k \in KlassenIn(rows2, s) \/ Leaving(reqs2, s, k))
  BY <1>2 DEF Mirrored, Untouched
<1>3. ASSUME EnabledIn(rows2, s), ~Opening(reqs2, s)
      PROVE  /\ grps2[s] = [parent |-> Root, name |-> rows2[s].name]
             /\ \A k \in KlassenIn(rows2, s) :
                  Coming(reqs2, s, k) \/ grps2[k] = [parent |-> s, name |-> rows2[k].name]
  <2>1. /\ grps[s] = [parent |-> Root, name |-> rows[s].name]
        /\ \A k \in KlassenIn(rows, s) :
              Coming(reqs, s, k) \/ grps[k] = [parent |-> s, name |-> rows[k].name]
    BY <1>1, <1>3 DEF Mirrored
  <2>2. \A k \in KlassenIn(rows, s) : k \in Ids
    BY DEF KlassenIn
  <2>3. EnabledIn(rows, s)
    BY <1>1, <1>3
  <2> QED
    BY <2>1, <2>2, <2>3 DEF Untouched
<1> QED
  BY <1>2, <1>3 DEF Mirrored

\* What a step of a request makes of the rows.
Effect(r) ==
    /\ Follows(orga, orga', missed') /\ HomesIn(orga')
    /\ missed \subseteq missed' /\ raced \subseteq raced'
    /\ \A s : SchoolIn(orga, s) /\ s \notin raced' \cup missed' /\ s \notin call[r].sites =>
         Untouched(orga, orga', s)

LEMMA TypsDiffer == /\ Klasse # Schule
                    /\ Unborn.typ \notin {Klasse, Schule} /\ Deleted.typ \notin {Klasse, Schule}
BY DEF Klasse, Schule, Unborn, Deleted

\* A step that writes no row.
LEMMA NoEffect ==
    ASSUME MirrorInv, NEW r \in Requests, UNCHANGED orga, missed \subseteq missed', raced \subseteq raced'
    PROVE  Effect(r)
<1>1. Follows(orga, orga, missed') /\ \A s : Untouched(orga, orga, s)
  BY DEF Follows, Untouched
<1> QED
  BY <1>1 DEF Effect, MirrorInv

\* The row that is written is a new one.
LEMMA EffectOfInsert ==
    ASSUME Inv, MirrorInv, NEW r \in Requests, NEW row, NEW d, Writes(r, row, d), missed \subseteq missed',
           call[r].id \in Ids, orga[call[r].id] = Unborn, row # Unborn, LiveRow(row),
           row.typ = Klasse => /\ SchoolIn(orga, row.adm)
                               /\ row.adm \notin raced \cup missed => row.adm \in call[r].sites
    PROVE  Effect(r)
<1> DEFINE id == call[r].id
<1>1. /\ orga'[id] = row /\ \A k \in Ids : k # id => orga'[k] = orga[k]
      /\ orga[id] = Unborn /\ raced' = raced /\ id \in Ids
  BY DEF Writes
<1>2. orga[id].typ # Klasse /\ orga[id].typ # Schule
  BY <1>1, TypsDiffer
<1> HIDE DEF id
<1>3. Follows(orga, orga', missed')
  BY <1>1 DEF Follows
<1>4. \A s : SchoolIn(orga, s) => SchoolIn(orga', s)
  BY <1>3, SchoolStays
<1>5. HomesIn(orga')
  <2> SUFFICES ASSUME NEW k \in Ids, orga'[k].typ = Klasse PROVE SchoolIn(orga', orga'[k].adm)
    BY DEF HomesIn
  <2>1. CASE k = id
    BY <1>1, <1>4, <2>1
  <2>2. CASE k # id
    BY <1>1, <1>4, <2>2 DEF MirrorInv, HomesIn
  <2> QED
    BY <2>1, <2>2
<1>6. ASSUME NEW s, SchoolIn(orga, s), s \notin raced \cup missed, s \notin call[r].sites
      PROVE  Untouched(orga, orga', s)
  <2>1. s # id /\ s \in Ids
    BY <1>2, <1>6 DEF SchoolIn
  <2>2. id \notin KlassenIn(orga, s) /\ id \notin KlassenIn(orga', s)
    BY <1>1, <1>2, <1>6 DEF KlassenIn
  <2>3. KlassenIn(orga', s) = KlassenIn(orga, s)
    BY <1>1, <2>2 DEF KlassenIn
  <2>4. \A k \in KlassenIn(orga, s) : k \in Ids /\ k # id
    BY <2>2 DEF KlassenIn
  <2> QED
    BY <1>1, <2>1, <2>3, <2>4 DEF Untouched
<1> QED
  BY <1>1, <1>3, <1>5, <1>6 DEF Effect

\* The row is removed.
LEMMA EffectOfRemove ==
    ASSUME Inv, MirrorInv, NEW r \in Requests, NEW d, Writes(r, Deleted, d), missed \subseteq missed',
           call[r].id \in Ids,
           LET o == orga[call[r].id]
           IN  LiveRow(o) => o.typ = Klasse /\ o.adm \in call[r].sites \cup missed
    PROVE  Effect(r)
<1> DEFINE id == call[r].id
<1>1. /\ orga'[id] = Deleted /\ \A k \in Ids : k # id => orga'[k] = orga[k]
      /\ raced' = raced /\ id \in Ids
      /\ LiveRow(orga[id]) => orga[id].typ = Klasse /\ orga[id].adm \in call[r].sites \cup missed
  BY DEF Writes
<1>2. orga[id].typ # Schule /\ ~LiveRow(Deleted) /\ Deleted # Unborn /\ Deleted.typ # Klasse
  BY <1>1, TypsDiffer, UnbornNotLive DEF LiveRow
<1> HIDE DEF id
<1>3. Follows(orga, orga', missed')
  BY <1>1, <1>2 DEF Follows
<1>4. \A s : SchoolIn(orga, s) => SchoolIn(orga', s)
  BY <1>3, SchoolStays
<1>5. HomesIn(orga')
  BY <1>1, <1>2, <1>4 DEF HomesIn, MirrorInv
<1>6. ASSUME NEW s, SchoolIn(orga, s), s \notin raced \cup missed, s \notin call[r].sites
      PROVE  Untouched(orga, orga', s)
  <2>1. s # id /\ s \in Ids
    BY <1>2, <1>6 DEF SchoolIn
  <2>2. id \notin KlassenIn(orga, s) /\ id \notin KlassenIn(orga', s)
    BY <1>1, <1>2, <1>6 DEF KlassenIn, LiveRow
  <2>3. KlassenIn(orga', s) = KlassenIn(orga, s)
    BY <1>1, <2>2 DEF KlassenIn
  <2>4. \A k \in KlassenIn(orga, s) : k \in Ids /\ k # id
    BY <2>2 DEF KlassenIn
  <2> QED
    BY <1>1, <2>1, <2>3, <2>4 DEF Untouched
<1> QED
  BY <1>1, <1>3, <1>5, <1>6 DEF Effect

\* The row is rewritten: a Klasse leaves its school only by a PUT.
LEMMA EffectOfUpdate ==
    ASSUME Inv, MirrorInv, NEW r \in Requests, NEW row, NEW d, Writes(r, row, d), missed \subseteq missed',
           call[r].id \in Ids,
           LET c == call[r]
               o == orga[c.id]
           IN  /\ LiveRow(o) /\ LiveRow(row) /\ row.typ = o.typ
               /\ o.typ = Klasse =>
                    /\ o.adm \in c.sites \cup missed
                    /\ \/ row.adm = o.adm
                       \/ c.sites \subseteq missed' /\ row.adm \in c.sites /\ SchoolIn(orga, row.adm)
               /\ o.typ = Schule =>
                    /\ row.adm = o.adm \/ (c.id \in c.sites /\ c.sites \subseteq missed')
                    /\ c.id \in c.sites \/ (row.its = o.its /\ row.name = o.name)
    PROVE  Effect(r)
<1> DEFINE id == call[r].id
           o == orga[id]
           sites == call[r].sites
<1>1. /\ o.typ = Klasse => /\ o.adm \in sites \cup missed
                           /\ \/ row.adm = o.adm
                              \/ sites \subseteq missed' /\ row.adm \in sites /\ SchoolIn(orga, row.adm)
      /\ o.typ = Schule => /\ row.adm = o.adm \/ (id \in sites /\ sites \subseteq missed')
                           /\ id \in sites \/ (row.its = o.its /\ row.name = o.name)
      /\ LiveRow(o) /\ LiveRow(row) /\ row.typ = o.typ
  OBVIOUS
<1>2. /\ orga'[id] = row /\ \A k \in Ids : k # id => orga'[k] = orga[k]
      /\ raced' = raced /\ id \in Ids
  BY DEF Writes
<1>3. o # Unborn /\ o # Deleted /\ row # Unborn /\ o.typ \in {Klasse, Schule}
  BY <1>1, UnbornNotLive DEF LiveRow
<1> HIDE DEF id, sites
<1>4. Follows(orga, orga', missed')
  <2>1. o.typ = Klasse => row.adm \in {o.adm} \cup missed'
    BY <1>1
  <2> SUFFICES ASSUME NEW k \in Ids, orga[k] # Unborn
               PROVE  /\ orga'[k] # Unborn
                      /\ orga[k] = Deleted => orga'[k] = Deleted
                      /\ LiveRow(orga'[k]) => /\ LiveRow(orga[k]) /\ orga'[k].typ = orga[k].typ
                                              /\ orga[k].typ = Klasse => orga'[k].adm \in {orga[k].adm} \cup missed'
                      /\ orga[k].typ = Schule => orga'[k].typ = Schule
    BY DEF Follows
  <2>2. CASE k # id
    BY <1>2, <2>2
  <2>3. CASE k = id
    <3>1. CASE o.typ = Klasse
      BY <1>1, <1>2, <1>3, <2>1, <2>3, <3>1, TypsDiffer
    <3>2. CASE o.typ = Schule
      BY <1>1, <1>2, <1>3, <2>3, <3>2, TypsDiffer
    <3> QED
      BY <1>3, <3>1, <3>2
  <2> QED
    BY <2>2, <2>3
<1>5. \A s : SchoolIn(orga, s) => SchoolIn(orga', s)
  BY <1>4, SchoolStays
<1>6. HomesIn(orga')
  <2> SUFFICES ASSUME NEW k \in Ids, orga'[k].typ = Klasse PROVE SchoolIn(orga', orga'[k].adm)
    BY DEF HomesIn
  <2>1. CASE k = id
    BY <1>1, <1>2, <1>5, <2>1 DEF MirrorInv, HomesIn
  <2>2. CASE k # id
    BY <1>2, <1>5, <2>2 DEF MirrorInv, HomesIn
  <2> QED
    BY <2>1, <2>2
<1>7. ASSUME NEW s, SchoolIn(orga, s), s \notin raced \cup missed', s \notin sites
      PROVE  Untouched(orga, orga', s)
  <2>1. CASE o.typ = Klasse
    <3>1. s # id /\ s \in Ids
      BY <1>7, <2>1, TypsDiffer DEF SchoolIn
    <3>2. id \notin KlassenIn(orga, s) /\ id \notin KlassenIn(orga', s)
      BY <1>1, <1>2, <1>7, <2>1 DEF KlassenIn
    <3>3. KlassenIn(orga', s) = KlassenIn(orga, s)
      BY <1>2, <3>2 DEF KlassenIn
    <3>4. \A k \in KlassenIn(orga, s) : k \in Ids /\ k # id
      BY <3>2 DEF KlassenIn
    <3> QED
      BY <1>2, <3>1, <3>3, <3>4 DEF Untouched
  <2>2. CASE o.typ = Schule
    <3>1. id \notin KlassenIn(orga, s) /\ id \notin KlassenIn(orga', s)
      BY <1>1, <1>2, <2>2, TypsDiffer DEF KlassenIn
    <3>2. KlassenIn(orga', s) = KlassenIn(orga, s)
      BY <1>2, <3>1 DEF KlassenIn
    <3>3. \A k \in KlassenIn(orga, s) : k \in Ids /\ k # id
      BY <3>1 DEF KlassenIn
    <3>4. s \in Ids /\ (s = id => row.its = o.its /\ row.name = o.name /\ row.adm = o.adm)
      BY <1>1, <1>7, <2>2 DEF SchoolIn
    <3> QED
      BY <1>2, <3>2, <3>3, <3>4 DEF Untouched
  <2> QED
    BY <1>3, <2>1, <2>2
<1> QED
  BY <1>2, <1>4, <1>6, <1>7 DEF Effect, sites

Dirty == raced \cup missed

\* What a request knows as it begins, reads and checks.
LEMMA KnowsBegun ==
    ASSUME MirrorInv, NEW d, Asked(d, orga[d.id]), NEW dirty
    PROVE  Knows(d, orga, missed, dirty)
<1> DEFINE o == orga[d.id]
<1>1. d.pc = "load" /\ d.id \in Ids /\ ~Telling(d) /\ ~Placing(d)
  BY DEF Asked, Telling, Placing
<1>2. KnowsSchool(d, orga, dirty)
  <2>1. d.op \in {"move", "enable"} => SchoolIn(orga, d.id)
    BY <1>1 DEF Asked, SchoolIn
  <2>2. d.op = "enable" => d.id \in d.sites
    BY DEF Asked
  <2>3. d.op = "put" /\ d.wish.typ = Schule => SchoolIn(orga, d.id) /\ d.id \in d.sites
    BY <1>1, TypsDiffer DEF Asked, SchoolIn
  <2> QED
    BY <1>1, <2>1, <2>2, <2>3 DEF KnowsSchool
<1>3. ASSUME d.op \in {"rename", "delete", "put"}, LiveRow(o), o.typ = Klasse
      PROVE  o.adm \in d.sites \cup missed
  <2>1. o.adm \in Ids
    BY <1>1, <1>3 DEF MirrorInv, HomesIn, SchoolIn
  <2> QED
    BY <1>3, <2>1 DEF Asked
<1>4. KnowsKlasse(d, o, missed, dirty)
  BY <1>1, <1>3 DEF KnowsKlasse
<1>5. KnowsGroups(d, orga, missed, dirty)
  BY <1>1 DEF KnowsGroups
<1> QED
  BY <1>2, <1>4, <1>5 DEF Knows

LEMMA KnowsLoadedCreate ==
    ASSUME NEW c, NEW its, NEW d \in Onward(c, "check", c.row, c.entity, its), c.op = "create",
           NEW o, Sited(c, o), c.wish.typ # Schule => IsSchool(c.wish.adm) /\ its = orga[c.wish.adm].its
    PROVE  Knows(d, orga, missed, Dirty)
<1>1. /\ d.pc = "check" /\ d.op = "create" /\ d.id = c.id /\ d.wish = c.wish
      /\ d.its = its /\ d.sites = c.sites /\ ~Telling(d)
  BY OnwardFields DEF Telling
<1>2. Target(d).typ = c.wish.typ /\ Target(d).adm = c.wish.adm
  BY <1>1 DEF Target
<1>3. c.wish.typ = Klasse => c.wish.adm \in c.sites
  BY DEF Sited, Site
<1>4. KnowsSchool(d, orga, Dirty)
  BY <1>1, <1>2, <1>3, TypsDiffer DEF KnowsSchool, IsSchool, SchoolIn
<1> QED
  BY <1>1, <1>4 DEF Knows, KnowsKlasse, KnowsGroups

LEMMA KnowsLoadedRow ==
    ASSUME MirrorInv, NEW c, Knows(c, orga, missed, Dirty), Sited(c, orga[c.id]), c.id \in Ids,
           c.pc = "load", LiveRow(orga[c.id]),
           c.op \in {"rename", "delete", "enable", "move", "put"},
           NEW pc \in {"check", "save"}, NEW its,
           NEW d \in Onward(c, pc, orga[c.id], orga[c.id].version, its),
           c.op = "rename" => its = orga[orga[c.id].adm].its,
           c.op = "delete" => IsKlasse(c.id), c.op = "put" => pc = "check"
    PROVE  Knows(d, orga, missed, Dirty)
<1> DEFINE o == orga[c.id]
<1>1. /\ d.pc = pc /\ d.op = c.op /\ d.id = c.id /\ d.wish = c.wish
      /\ d.its = its /\ d.sites = c.sites /\ d.row = o
  BY OnwardFields
<1>2. ~Telling(d) /\ ~Telling(c) /\ (Placing(d) => d.op = "rename")
  BY <1>1 DEF Telling, Placing
<1>3. KnowsSchool(c, orga, Dirty) /\ KnowsKlasse(c, o, missed, Dirty)
  BY DEF Knows
<1>4. ASSUME d.op = "rename"
      PROVE  /\ Target(d).adm = o.adm /\ SchoolIn(orga, o.adm)
             /\ o.adm \notin Dirty => o.adm \in d.sites /\ d.its = orga[o.adm].its
  <2>1. o.typ = Klasse
    BY <1>1, <1>4 DEF Sited
  <2>2. Target(d).adm = o.adm
    BY <1>1, <1>4 DEF Target
  <2>3. o.adm \in c.sites \cup missed
    BY <1>1, <1>2, <1>3, <1>4, <2>1 DEF KnowsKlasse
  <2> QED
    BY <1>1, <1>4, <2>1, <2>2, <2>3 DEF MirrorInv, HomesIn, Dirty
<1>5. KnowsSchool(d, orga, Dirty)
  <2> HIDE DEF o
  <2> QED
    BY <1>1, <1>2, <1>3, <1>4 DEF KnowsSchool
<1>6. KnowsKlasse(d, o, missed, Dirty)
  <2>1. d.op = "delete" => o.typ = Klasse
    BY <1>1 DEF IsKlasse
  <2> HIDE DEF o
  <2> QED
    BY <1>1, <1>2, <1>3, <2>1 DEF KnowsKlasse
<1> QED
  BY <1>1, <1>2, <1>5, <1>6 DEF Knows, KnowsGroups

LEMMA KnowsChecked ==
    ASSUME NEW c, Knows(c, orga, missed, Dirty), c.pc = "check", c.op \in {"create", "rename", "put", "move"},
           NEW e, NEW d \in Onward(c, "save", c.row, e, c.its),
           c.op # "move" /\ Target(c).typ = Klasse => SchoolIn(orga, Target(c).adm)
    PROVE  Knows(d, orga, missed, Dirty)
<1>1. /\ d.pc = "save" /\ d.op = c.op /\ d.id = c.id /\ d.wish = c.wish
      /\ d.its = c.its /\ d.sites = c.sites /\ d.row = c.row
  BY OnwardFields
<1>2. Target(d) = Target(c) /\ ~Telling(d) /\ ~Telling(c)
  BY <1>1 DEF Target, Telling
<1>3. Placing(d) => c.op # "move"
  BY <1>1 DEF Placing
<1>4. Placing(d) /\ d.op # "put" => Placing(c)
  BY <1>1 DEF Placing
<1>5. KnowsSchool(d, orga, Dirty)
  BY <1>1, <1>2, <1>3, <1>4 DEF Knows, KnowsSchool
<1>6. d.op # "delete"
  BY <1>1
<1>7. KnowsKlasse(d, orga[d.id], missed, Dirty)
  BY <1>1, <1>2, <1>6 DEF Knows, KnowsKlasse
<1> QED
  BY <1>1, <1>2, <1>5, <1>7 DEF Knows, KnowsGroups

\* What a request knows when it has written its row.
LEMMA KnowsNamed ==
    ASSUME NEW c, NEW rows, NEW rows2, NEW unsaid, NEW dirty, Knows(c, rows, unsaid, dirty),
           c.op \in {"create", "rename"}, c.pc = "save", Target(c).typ = Klasse,
           rows[c.id].typ # Schule, \A k \in Ids : k # c.id => rows2[k] = rows[k],
           LET p == rows2[c.id]
           IN  p # Unborn /\ p.typ = Klasse /\ p.adm = Target(c).adm /\ p.name = Target(c).name,
           NEW d \in Onward(c, "published", c.row, c.entity, c.its)
    PROVE  Knows(d, rows2, unsaid, dirty)
<1>1. /\ d.pc = "published" /\ d.op = c.op /\ d.id = c.id /\ d.wish = c.wish
      /\ d.its = c.its /\ d.sites = c.sites /\ d.row = c.row
  BY OnwardFields
<1>2. Target(d) = Target(c) /\ Telling(d) /\ Placing(c)
  BY <1>1 DEF Target, Telling, Placing
<1>3. /\ SchoolIn(rows, Target(c).adm)
      /\ Target(c).adm \notin dirty => Target(c).adm \in c.sites /\ c.its = rows[Target(c).adm].its
  <2>1. KnowsSchool(c, rows, dirty) /\ c.op # "put"
    BY DEF Knows
  <2> QED
    BY <1>2, <2>1 DEF KnowsSchool
<1>4. Target(c).adm \in Ids /\ rows2[Target(c).adm] = rows[Target(c).adm]
  BY <1>3 DEF SchoolIn
<1>5. KnowsSchool(d, rows2, dirty)
  <2>1. SchoolIn(rows2, Target(c).adm)
    BY <1>3, <1>4 DEF SchoolIn
  <2>2. d.op \notin {"move", "enable", "put"}
    BY <1>1
  <2> QED
    BY <1>1, <1>2, <1>3, <1>4, <2>1, <2>2 DEF KnowsSchool
<1>6. KnowsKlasse(d, rows2[d.id], unsaid, dirty)
  <2> DEFINE p == rows2[c.id]
  <2>1. p # Unborn /\ LiveRow(p) /\ p.typ = Klasse /\ p.adm = Target(c).adm /\ p.name = Target(c).name
    BY DEF LiveRow
  <2>2. d.op \notin {"delete", "put"} /\ d.pc # "send"
    BY <1>1
  <2> HIDE DEF p
  <2> QED
    BY <1>1, <1>2, <2>1, <2>2 DEF KnowsKlasse, p
<1>7. d.op # "enable"
  BY <1>1
<1> QED
  BY <1>5, <1>6, <1>7 DEF Knows, KnowsGroups

LEMMA KnowsRemoved ==
    ASSUME NEW c, NEW rows2, NEW unsaid, NEW dirty, c.op = "delete", rows2[c.id] = Deleted,
           NEW d \in Onward(c, "published", c.row, c.entity, c.its)
    PROVE  Knows(d, rows2, unsaid, dirty)
<1>1. d.pc = "published" /\ d.op = "delete" /\ d.id = c.id
  BY OnwardFields
<1>2. Telling(d) /\ ~Placing(d)
  BY <1>1 DEF Telling, Placing
<1> QED
  BY <1>1, <1>2 DEF Knows, KnowsSchool, KnowsKlasse, KnowsGroups

LEMMA KnowsEnabled ==
    ASSUME NEW c, NEW rows, NEW rows2, NEW unsaid, NEW dirty, Knows(c, rows, unsaid, dirty),
           c.op = "enable", SchoolIn(rows2, c.id), rows2[c.id].its = TRUE, rows2[c.id].name = c.row.name,
           NEW d \in Onward(c, "published", c.row, c.entity, c.its)
    PROVE  Knows(d, rows2, unsaid, dirty)
<1>1. /\ d.pc = "published" /\ d.op = "enable" /\ d.id = c.id /\ d.sites = c.sites /\ d.row = c.row
  BY OnwardFields
<1>2. Telling(d) /\ ~Placing(d)
  BY <1>1 DEF Telling, Placing
<1>3. c.id \in c.sites
  BY DEF Knows, KnowsSchool
<1> QED
  BY <1>1, <1>2, <1>3 DEF Knows, KnowsSchool, KnowsKlasse, KnowsGroups

\* What it knows when a handler has read what it will send.
LEMMA KnowsHandled ==
    ASSUME NEW c, Knows(c, orga, missed, Dirty), c.pc = "published", NEW d,
           d.pc = "send", d.op = c.op, d.id = c.id, d.sites = c.sites, d.row = c.row, d.its = c.its,
           c.op \in {"create", "rename", "delete", "enable"},
           c.op \in {"create", "rename"} => c.its,
           c.op # "enable" => d.wish = c.wish,
           c.op = "enable" => d.wish =
               [k \in KlassenOf(c.id) \cup {c.id} |->
                  IF k = c.id THEN [parent |-> Root, name |-> c.row.name]
                  ELSE [parent |-> c.id, name |-> orga[k].name]]
    PROVE  Knows(d, orga, missed, Dirty)
<1>1. Telling(d) /\ Telling(c)
  BY DEF Telling
<1>2. CASE c.op # "enable"
  <2>1. d.wish = c.wish /\ Target(d) = Target(c) /\ (Placing(d) <=> Placing(c)) /\ d.op # "enable"
    BY <1>2 DEF Target, Placing
  <2>2. KnowsSchool(d, orga, Dirty)
    BY <2>1 DEF Knows, KnowsSchool
  <2>3. KnowsKlasse(d, orga[d.id], missed, Dirty)
    BY <1>1, <2>1 DEF Knows, KnowsKlasse
  <2> QED
    BY <2>1, <2>2, <2>3 DEF Knows, KnowsGroups
<1>3. CASE c.op = "enable"
  <2> DEFINE w == d.wish
  <2>1. w = [k \in KlassenOf(c.id) \cup {c.id} |->
                  IF k = c.id THEN [parent |-> Root, name |-> c.row.name]
                  ELSE [parent |-> c.id, name |-> orga[k].name]]
    BY <1>3
  <2>2. SchoolIn(orga, c.id) /\ c.id \in c.sites
    BY <1>3 DEF Knows, KnowsSchool
  <2>3. c.id \notin KlassenOf(c.id) /\ KlassenOf(c.id) = KlassenIn(orga, c.id)
    BY <2>2, TypsDiffer DEF KlassenOf, KlassenIn, IsKlasse, SchoolIn
  <2>4. DOMAIN w = KlassenOf(c.id) \cup {c.id}
    <3> HIDE DEF w
    <3> QED
      BY <2>1
  <2>5. w[c.id] = [parent |-> Root, name |-> c.row.name]
    <3> HIDE DEF w
    <3> QED
      BY <2>1, <2>3
  <2>6. \A k \in KlassenOf(c.id) : w[k] = [parent |-> c.id, name |-> orga[k].name]
    <3> HIDE DEF w
    <3> QED
      BY <2>1, <2>3
  <2> HIDE DEF w
  <2>7. \A k \in KlassenIn(orga, c.id) : k \in Ids /\ orga[k].typ = Klasse /\ orga[k].adm = c.id /\ orga[k] # Unborn
    BY TypsDiffer DEF KlassenIn
  <2>8. KnowsGroups(d, orga, missed, Dirty)
    <3>1. d.op = "enable" /\ Telling(d) /\ d.id \notin Dirty =>
             orga[d.id].its /\ orga[d.id].name = d.row.name
      BY <1>1 DEF Knows, KnowsGroups
    <3>2. d.id \in DOMAIN w /\ w[d.id] = [parent |-> Root, name |-> d.row.name]
      BY <2>4, <2>5
    <3>3. ASSUME NEW k \in DOMAIN w \ {d.id}
          PROVE  /\ k \in Ids /\ w[k].parent = d.id /\ orga[k] # Unborn
                 /\ LiveRow(orga[k]) => orga[k].typ = Klasse /\ orga[k].adm \in {d.id} \cup missed
      <4>1. k \in KlassenOf(c.id)
        BY <2>4
      <4> QED
        BY <2>3, <2>6, <2>7, <4>1
    <3>4. DOMAIN w \subseteq KlassenIn(orga, d.id) \cup {d.id}
      BY <2>3, <2>4
    <3>5. \A k \in KlassenIn(orga, d.id) :
             k \in DOMAIN w /\ w[k] = [parent |-> d.id, name |-> orga[k].name]
      BY <2>3, <2>4, <2>6
    <3> QED
      BY <3>1, <3>2, <3>3, <3>4, <3>5 DEF KnowsGroups, w
  <2>9. KnowsSchool(d, orga, Dirty)
    BY <1>3, <2>2 DEF KnowsSchool, Placing
  <2>10. KnowsKlasse(d, orga[d.id], missed, Dirty)
    BY <1>1, <1>3 DEF KnowsKlasse
  <2> QED
    BY <2>8, <2>9, <2>10 DEF Knows
<1> QED
  BY <1>2, <1>3

\* A step of one request: the others know what they knew, for they share no
\* school with it that is not dirty.
LEMMA MirrorStep ==
    ASSUME Inv, SitesInv, MirrorInv, NEW r \in Requests, NEW d, call' = [call EXCEPT ![r] = d],
           Busy(r) \/ UNCHANGED orga, Effect(r),
           groups' = [k \in Ids |-> groups'[k]], ParentsIn(orga', groups'),
           d # Idle => Knows(d, orga', missed', raced' \cup missed'),
           \A s \in Ids : SchoolIn(orga', s) /\ s \notin raced' \cup missed' =>
               Mirrored(orga', groups', call', s)
    PROVE  MirrorInv'
<1>1. call'[r] = d /\ \A q \in Requests \ {r} : call'[q] = call[q]
  BY DEF Inv
<1>2. ASSUME NEW q \in Requests, call'[q] # Idle
      PROVE  Knows(call'[q], orga', missed', raced' \cup missed')
  <2>1. CASE q = r
    BY <1>1, <1>2, <2>1
  <2>2. CASE q # r
    <3> DEFINE c == call[q]
    <3>1. /\ call'[q] = c /\ Busy(q) /\ Knows(c, orga, missed, raced \cup missed)
          /\ c.id \in Ids /\ (c.op # "create" => orga[c.id] # Unborn)
      BY <1>1, <1>2, <2>2 DEF Busy, MirrorInv, Inv, Good
    <3>2. ASSUME NEW s \in c.sites, SchoolIn(orga, s), s \notin raced' \cup missed'
          PROVE  Untouched(orga, orga', s)
      <4>1. CASE UNCHANGED orga
        <5>1. Untouched(orga, orga, s)
          BY DEF Untouched
        <5> QED
          BY <4>1, <5>1
      <4>2. CASE Busy(r)
        <5>1. s \notin call[r].sites
          BY <2>2, <3>1, <3>2, <4>2 DEF SitesInv, Apart, Effect
        <5> QED
          BY <3>2, <5>1 DEF Effect
      <4> QED
        BY <4>1, <4>2
    <3>3. Follows(orga, orga', missed') /\ missed \subseteq missed' /\ raced \cup missed \subseteq raced' \cup missed'
      BY DEF Effect
    <3> HIDE DEF c
    <3>4. Knows(c, orga', missed', raced' \cup missed')
      BY <3>1, <3>2, <3>3, OthersKnow
    <3> QED
      BY <3>1, <3>4
  <2> QED
    BY <2>1, <2>2
<1>3. HomesIn(orga')
  BY DEF Effect
<1>4. MirrorInv' <=>
        /\ groups' = [k \in Ids |-> groups'[k]]
        /\ HomesIn(orga') /\ ParentsIn(orga', groups')
        /\ \A q \in Requests : call'[q] # Idle => Knows(call'[q], orga', missed', raced' \cup missed')
        /\ \A s \in Ids : SchoolIn(orga', s) /\ s \notin raced' \cup missed' =>
             Mirrored(orga', groups', call', s)
  BY DEF MirrorInv, Busy
<1> QED
  BY <1>2, <1>3, <1>4

\* A school that the step leaves as it was, and of which the request has nothing
\* to tell that it does not tell later.
LEMMA MirrorOf ==
    ASSUME Inv, MirrorInv, NEW r \in Requests, NEW d, call' = [call EXCEPT ![r] = d],
           NEW s \in Ids, SchoolIn(orga, s), s \notin raced \cup missed, Untouched(orga, orga', s),
           groups'[s] = groups[s], \A k \in KlassenIn(orga, s) : groups'[k] = groups[k],
           \A k \in Ids : groups'[k].parent = s =>
               /\ groups[k].parent = s
               /\ Busy(r) /\ LeavingFrom(call[r], s, k) => d # Idle /\ LeavingFrom(d, s, k),
           EnabledIn(orga, s) /\ Busy(r) =>
               /\ OpeningOf(call[r], s) => d # Idle /\ OpeningOf(d, s)
               /\ \A k \in Ids : ComingTo(call[r], s, k) => d # Idle /\ ComingTo(d, s, k)
    PROVE  Mirrored(orga', groups', call', s)
<1>1. call'[r] = d /\ \A q \in Requests \ {r} : call'[q] = call[q]
  BY DEF Inv
<1>2. Mirrored(orga, groups, call, s)
  BY DEF MirrorInv
<1>3. \A k \in Ids : groups'[k].parent = s =>
        groups[k].parent = s /\ (Leaving(call, s, k) => Leaving(call', s, k))
  BY <1>1 DEF Leaving, Busy
<1>4. EnabledIn(orga, s) /\ Opening(call, s) => Opening(call', s)
  BY <1>1 DEF Opening, Busy
<1>5. EnabledIn(orga, s) => \A k \in Ids : Coming(call, s, k) => Coming(call', s, k)
  BY <1>1 DEF Coming, Busy
<1> DEFINE rows == orga
           rows2 == orga'
           grps == groups
           grps2 == groups'
           reqs == call
           reqs2 == call'
<1>6. /\ Mirrored(rows, grps, reqs, s) /\ Untouched(rows, rows2, s)
      /\ grps2[s] = grps[s] /\ \A k \in KlassenIn(rows, s) : grps2[k] = grps[k]
      /\ \A k \in Ids : grps2[k].parent = s =>
            grps[k].parent = s /\ (Leaving(reqs, s, k) => Leaving(reqs2, s, k))
      /\ EnabledIn(rows, s) /\ Opening(reqs, s) => Opening(reqs2, s)
      /\ EnabledIn(rows, s) => \A k \in Ids : Coming(reqs, s, k) => Coming(reqs2, s, k)
  BY <1>2, <1>3, <1>4, <1>5
<1> HIDE DEF rows, rows2, grps, grps2, reqs, reqs2
<1>7. Mirrored(rows2, grps2, reqs2, s)
  BY <1>6, MirroredKept
<1> QED
  BY <1>7 DEF rows2, grps2, reqs2

\* A step that writes no row and no group.
LEMMA MirrorGo ==
    ASSUME Inv, SitesInv, MirrorInv, NEW r \in Requests, NEW d, call' = [call EXCEPT ![r] = d],
           UNCHANGED <<orga, groups, missed>>, raced \subseteq raced',
           d # Idle => Knows(d, orga, missed, Dirty),
           Busy(r) /\ Telling(call[r]) =>
               \A s \in Ids : SchoolIn(orga, s) /\ s \notin Dirty =>
                   /\ \A k \in Ids : LeavingFrom(call[r], s, k) => d # Idle /\ LeavingFrom(d, s, k)
                   /\ EnabledIn(orga, s) =>
                        /\ OpeningOf(call[r], s) => d # Idle /\ OpeningOf(d, s)
                        /\ \A k \in Ids : ComingTo(call[r], s, k) => d # Idle /\ ComingTo(d, s, k)
    PROVE  MirrorInv'
<1>1. Effect(r)
  BY NoEffect
<1>2. ParentsIn(orga', groups') /\ groups' = [k \in Ids |-> groups'[k]]
  BY DEF MirrorInv
<1>3. d # Idle => Knows(d, orga', missed', raced' \cup missed')
  <2> SUFFICES ASSUME d # Idle PROVE Knows(d, orga, missed, raced' \cup missed)
    OBVIOUS
  <2>1. Knows(d, orga, missed, Dirty) /\ Dirty \subseteq raced' \cup missed
    BY DEF Dirty
  <2> QED
    BY <2>1 DEF Knows, KnowsSchool, KnowsKlasse, KnowsGroups
<1>4. ASSUME NEW s \in Ids, SchoolIn(orga', s), s \notin raced' \cup missed'
      PROVE  Mirrored(orga', groups', call', s)
  <2>1. SchoolIn(orga, s) /\ s \notin raced \cup missed /\ s \notin Dirty
    BY <1>4 DEF Dirty
  <2>2. Untouched(orga, orga', s)
    BY DEF Untouched
  <2>3. ~Telling(call[r]) => /\ \A k : ~LeavingFrom(call[r], s, k) /\ ~ComingTo(call[r], s, k)
                             /\ ~OpeningOf(call[r], s)
    BY DEF LeavingFrom, ComingTo, OpeningOf
  <2> QED
    BY <2>1, <2>2, <2>3, MirrorOf
<1> QED
  BY <1>1, <1>2, <1>3, <1>4, MirrorStep

\* A request that has nothing to tell begins, goes on or ends.
LEMMA MirrorQuiet ==
    ASSUME Inv, SitesInv, MirrorInv, NEW r \in Requests, NEW d, Moves(r, d), UNCHANGED <<groups, missed>>,
           ~Telling(call[r]), d # Idle => Knows(d, orga, missed, Dirty)
    PROVE  MirrorInv'
BY MirrorGo DEF Moves

LEMMA MirrorAsk ==
    ASSUME Inv, SitesInv, MirrorInv, NEW r \in Requests, Ask(r), UNCHANGED <<groups, missed>>
    PROVE  MirrorInv'
<1>1. PICK d : Asked(d, orga[d.id]) /\ Starts(r, d)
  BY Beginning
<1>2. Knows(d, orga, missed, Dirty)
  BY <1>1, KnowsBegun
<1>3. ~Busy(r)
  BY <1>1 DEF Starts, Busy
<1> QED
  BY <1>1, <1>2, <1>3, MirrorGo DEF Starts

LEMMA MirrorLoad ==
    ASSUME Inv, SitesInv, MirrorInv, NEW r \in Requests, UNCHANGED <<groups, missed>>, ~Refuse(r),
           LoadCreate(r) \/ LoadRename(r) \/ LoadDelete(r) \/ LoadOther(r)
    PROVE  MirrorInv'
<1> DEFINE c == call[r]
           o == orga[c.id]
<1>1. CASE LoadCreate(r)
  <2>1. PICK its : \E d \in Onward(c, "check", c.row, c.entity, its) :
                   /\ Moves(r, d) /\ Busy(r) /\ c.op = "create" /\ c.pc = "load"
                   /\ c.wish.typ # Schule => IsSchool(c.wish.adm) /\ its = orga[c.wish.adm].its
    BY <1>1, LoadedCreate
  <2>2. PICK d \in Onward(c, "check", c.row, c.entity, its) : Moves(r, d)
    BY <2>1
  <2>3. Sited(c, o) /\ ~Telling(c)
    BY <2>1 DEF SitesInv, Telling
  <2>4. Knows(d, orga, missed, Dirty)
    BY <2>1, <2>2, <2>3, KnowsLoadedCreate
  <2> QED
    BY <2>2, <2>3, <2>4, MirrorQuiet
<1>2. CASE LoadRename(r) \/ LoadDelete(r) \/ LoadOther(r)
  <2>1. PICK pc \in {"check", "save"} : \E its : \E d \in Onward(c, pc, o, o.version, its) :
                   /\ Moves(r, d) /\ Busy(r) /\ c.pc = "load" /\ LiveRow(o)
                   /\ c.op \in {"rename", "delete", "enable", "move", "put"}
                   /\ c.op = "rename" => its = orga[o.adm].its
                   /\ c.op = "delete" => IsKlasse(c.id)
                   /\ c.op = "put" => pc = "check"
    BY <1>2, LoadedRow
  <2>2. PICK its : \E d \in Onward(c, pc, o, o.version, its) :
                   /\ Moves(r, d) /\ Busy(r) /\ c.pc = "load" /\ LiveRow(o)
                   /\ c.op \in {"rename", "delete", "enable", "move", "put"}
                   /\ c.op = "rename" => its = orga[o.adm].its
                   /\ c.op = "delete" => IsKlasse(c.id)
                   /\ c.op = "put" => pc = "check"
    BY <2>1
  <2>3. PICK d \in Onward(c, pc, o, o.version, its) : Moves(r, d)
    BY <2>2
  <2>4. Sited(c, o) /\ ~Telling(c) /\ c.id \in Ids /\ Knows(c, orga, missed, Dirty)
    BY <2>2 DEF SitesInv, Telling, Inv, Good, MirrorInv, Dirty
  <2>5. Knows(d, orga, missed, Dirty)
    BY <2>2, <2>3, <2>4, KnowsLoadedRow
  <2> QED
    BY <2>3, <2>4, <2>5, MirrorQuiet
<1> QED
  BY <1>1, <1>2

LEMMA MirrorCheck ==
    ASSUME Inv, SitesInv, MirrorInv, NEW r \in Requests, UNCHANGED <<groups, missed>>, ~Refuse(r),
           CheckName(r) \/ CheckMove(r)
    PROVE  MirrorInv'
<1> DEFINE c == call[r]
           want == Wanted(r)
<1>1. PICK e : \E d \in Onward(c, "save", c.row, e, c.its) :
                   /\ Moves(r, d) /\ Busy(r) /\ c.pc = "check"
                   /\ c.op \in {"create", "rename", "put", "move"}
                   /\ c.op # "move" /\ want.typ = Klasse => IsSchool(want.adm)
  BY Checked
<1>2. PICK d \in Onward(c, "save", c.row, e, c.its) : Moves(r, d)
  BY <1>1
<1>3. Sited(c, orga[c.id]) /\ ~Telling(c) /\ Knows(c, orga, missed, Dirty)
  BY <1>1 DEF SitesInv, Telling, MirrorInv, Dirty
<1>4. c.op # "move" => want.typ = Target(c).typ /\ want.adm = Target(c).adm
  <2> SUFFICES ASSUME c.op # "move" PROVE want.typ = Target(c).typ /\ want.adm = Target(c).adm
    OBVIOUS
  <2>1. c.op \in {"create", "put", "rename"} /\ c.pc # "load"
    BY <1>1
  <2> QED
    BY <1>3, <2>1, TargetFields DEF Wanted
<1>5. c.op # "move" /\ Target(c).typ = Klasse => SchoolIn(orga, Target(c).adm)
  BY <1>1, <1>4 DEF IsSchool, SchoolIn
<1>6. Knows(d, orga, missed, Dirty)
  <2> HIDE DEF c
  <2> QED
    BY <1>1, <1>2, <1>3, <1>5, KnowsChecked
<1> QED
  BY <1>2, <1>3, <1>6, MirrorQuiet

\* The handlers: a school that is not told has no itslearning, or is an Ersatzschule.
LEMMA MirrorHandle ==
    ASSUME Inv, SitesInv, MirrorInv, NEW r \in Requests,
           HandleKlasse(r) \/ HandleDeleted(r) \/ HandleEnabled(r)
    PROVE  MirrorInv'
<1> DEFINE c == call[r]
<1>1. UNCHANGED <<groups, missed>> /\ Busy(r)
  BY DEF HandleKlasse, HandleDeleted, HandleEnabled, itslearning, At, Busy
<1>2. Knows(c, orga, missed, Dirty)
  BY <1>1 DEF MirrorInv, Dirty
<1>3. CASE ~Refuse(r)
  <2>1. PICK d : /\ Moves(r, d) /\ c.pc = "published" /\ IsRequest(d)
                 /\ d.pc = "send" /\ d.op = c.op /\ d.id = c.id /\ d.sites = c.sites
                 /\ d.row = c.row /\ d.page = c.page /\ d.its = c.its
                 /\ c.op \in {"create", "rename", "delete", "enable"}
                 /\ c.op \in {"create", "rename"} => c.its
                 /\ c.op # "enable" => d.wish = c.wish
                 /\ c.op = "enable" => d.wish =
                           [k \in KlassenOf(c.id) \cup {c.id} |->
                              IF k = c.id THEN [parent |-> Root, name |-> c.row.name]
                              ELSE [parent |-> c.id, name |-> orga[k].name]]
    BY ZenonT(40), <1>3, Handled
  <2>2. Knows(d, orga, missed, Dirty)
    <3> HIDE DEF c
    <3> QED
      BY <1>2, <2>1, KnowsHandled
  <2>3. Telling(d) /\ d # Idle
    BY <2>1, IdleIsNoRequest DEF Telling
  <2>4. /\ \A s, k : LeavingFrom(c, s, k) => LeavingFrom(d, s, k)
        /\ \A s : OpeningOf(c, s) => OpeningOf(d, s)
    BY <2>1, <2>3 DEF LeavingFrom, OpeningOf
  <2>5. \A s, k : ComingTo(c, s, k) => ComingTo(d, s, k)
    <3> SUFFICES ASSUME NEW s, NEW k, ComingTo(c, s, k) PROVE ComingTo(d, s, k)
      OBVIOUS
    <3>1. c.op \in {"create", "rename"} /\ c.op # "enable"
      BY DEF ComingTo
    <3>2. Target(d) = Target(c)
      BY <2>1, <3>1 DEF Target
    <3> QED
      BY <2>1, <2>3, <3>2 DEF ComingTo
  <2> QED
    BY <1>1, <2>1, <2>2, <2>3, <2>4, <2>5, MirrorGo DEF Moves
<1>4. CASE Refuse(r)
  <2>1. ~HandleDeleted(r)
    <3>1. ASSUME HandleDeleted(r) PROVE FALSE
      <4>1. c.pc = "published" /\ Go(r, "send")
        BY <3>1 DEF HandleDeleted, At
      <4>2. call'[r] = [c EXCEPT !.pc = "send"] /\ call'[r] = Idle /\ IsRequest(c)
        BY <1>1, <1>4, <4>1 DEF Go, Refuse, Inv, Good
      <4>3. [c EXCEPT !.pc = "send"] \in Onward(c, "send", c.row, c.entity, c.its)
        BY <4>2 DEF IsRequest, Onward
      <4> QED
        BY <4>2, <4>3, OnwardFields, IdleIsNoRequest
    <3> QED
      BY <3>1
  <2>2. Moves(r, Idle) /\ raced \subseteq raced'
    BY <1>4 DEF Refuse, Moves
  <2>3. ASSUME NEW s \in Ids, SchoolIn(orga, s), s \notin Dirty
        PROVE  /\ \A k \in Ids : ~LeavingFrom(c, s, k)
               /\ EnabledIn(orga, s) => ~OpeningOf(c, s) /\ \A k \in Ids : ~ComingTo(c, s, k)
    <3>1. CASE HandleKlasse(r)
      <4>1. c.op \in {"create", "rename"} /\ c.pc = "published" /\ ~(c.its = TRUE)
        <5>1. c.its = TRUE => Go(r, "send")
          BY <3>1 DEF HandleKlasse
        <5>2. c.op \in {"create", "rename"} /\ c.pc = "published"
          BY <3>1 DEF HandleKlasse
        <5>3. ASSUME Go(r, "send") PROVE FALSE
          <6>1. call'[r] = [c EXCEPT !.pc = "send"] /\ call'[r] = Idle /\ IsRequest(c)
            BY <1>1, <1>4, <5>3 DEF Go, Refuse, Inv, Good
          <6>2. [c EXCEPT !.pc = "send"] \in Onward(c, "send", c.row, c.entity, c.its)
            BY <6>1 DEF IsRequest, Onward
          <6> QED
            BY <6>1, <6>2, OnwardFields, IdleIsNoRequest
        <5> QED
          BY <5>1, <5>2, <5>3
      <4>2. ASSUME NEW k, ComingTo(c, s, k), EnabledIn(orga, s) PROVE FALSE
        <5>1. Target(c).adm = s /\ Target(c).typ = Klasse /\ Placing(c) /\ c.op # "put"
          BY <1>2, <4>1, <4>2 DEF ComingTo, Knows, KnowsKlasse, Placing
        <5>2. c.its = orga[s].its
          BY <1>2, <2>3, <5>1 DEF Knows, KnowsSchool
        <5> QED
          BY <4>1, <4>2, <5>2 DEF EnabledIn
      <4> QED
        BY <4>1, <4>2 DEF LeavingFrom, OpeningOf
    <3>2. CASE HandleEnabled(r)
      <4>1. c.op = "enable"
        BY <3>2 DEF HandleEnabled, At
      <4>2. Zuordnung(orga[c.id].adm) = "ERSATZ"
        <5>1. ASSUME Zuordnung(orga[c.id].adm) # "ERSATZ" PROVE FALSE
          <6>1. PICK w : call' = [call EXCEPT ![r].pc = "send", ![r].wish = w]
            BY <3>2, <5>1 DEF HandleEnabled
          <6>2. /\ call'[r] = [c EXCEPT !.pc = "send", !.wish = w] /\ call'[r] = Idle /\ IsRequest(c)
            BY <1>1, <1>4, <6>1 DEF Refuse, Inv, Good
          <6>3. "op" \in DOMAIN [c EXCEPT !.pc = "send", !.wish = w]
            BY <6>2 DEF IsRequest
          <6>4. "op" \notin DOMAIN Idle
            BY DEF Idle
          <6> QED
            BY <6>2, <6>3, <6>4
        <5> QED
          BY <5>1
      <4> QED
        BY <4>1, <4>2 DEF EnabledIn, LeavingFrom, OpeningOf, ComingTo
    <3> QED
      BY <2>1, <3>1, <3>2
  <2> QED
    BY <1>1, <2>2, <2>3, MirrorGo DEF Moves
<1> QED
  BY <1>3, <1>4

\* A school that neither is nor has the row that is written.
LEMMA WriteUntouched ==
    ASSUME NEW s \in Ids, NEW id \in Ids, \A k \in Ids : k # id => orga'[k] = orga[k],
           ~(orga[id].typ = Klasse /\ orga[id].adm = s), ~(orga'[id].typ = Klasse /\ orga'[id].adm = s),
           s = id => /\ orga'[s].its = orga[s].its /\ orga'[s].adm = orga[s].adm
                     /\ orga'[s].name = orga[s].name
    PROVE  Untouched(orga, orga', s)
<1>1. id \notin KlassenIn(orga, s) /\ id \notin KlassenIn(orga', s)
  BY DEF KlassenIn
<1>2. KlassenIn(orga', s) = KlassenIn(orga, s)
  BY <1>1 DEF KlassenIn
<1>3. \A k \in KlassenIn(orga, s) : k \in Ids /\ k # id
  BY <1>1 DEF KlassenIn
<1> QED
  BY <1>2, <1>3 DEF Untouched

\* Of a school it does not touch the request that writes has nothing to tell.
LEMMA MirrorElsewhere ==
    ASSUME Inv, MirrorInv, NEW r \in Requests, NEW row, NEW d, Writes(r, row, d), UNCHANGED groups,
           call[r].id \in Ids, ~Telling(call[r]),
           NEW s \in Ids, SchoolIn(orga, s), s \notin raced \cup missed,
           ~(orga[call[r].id].typ = Klasse /\ orga[call[r].id].adm = s),
           ~(row.typ = Klasse /\ row.adm = s),
           s = call[r].id => /\ row.its = orga[s].its /\ row.adm = orga[s].adm
                             /\ row.name = orga[s].name
    PROVE  Mirrored(orga', groups', call', s)
<1>1. Untouched(orga, orga', s)
  BY WriteUntouched DEF Writes
<1>2. /\ \A k : ~LeavingFrom(call[r], s, k) /\ ~ComingTo(call[r], s, k)
      /\ ~OpeningOf(call[r], s)
  BY DEF LeavingFrom, ComingTo, OpeningOf
<1>3. call' = [call EXCEPT ![r] = d]
  BY DEF Writes
<1> QED
  BY <1>1, <1>2, <1>3, MirrorOf

\* The requests that tell of a school, before and after.
LEMMA StillTold ==
    ASSUME Inv, NEW r \in Requests, NEW d, call' = [call EXCEPT ![r] = d], ~Telling(call[r]), NEW s
    PROVE  /\ \A k : Leaving(call, s, k) => Leaving(call', s, k)
           /\ \A k : Coming(call, s, k) => Coming(call', s, k)
           /\ Opening(call, s) => Opening(call', s)
           /\ d # Idle => /\ \A k : LeavingFrom(d, s, k) => Leaving(call', s, k)
                          /\ \A k : ComingTo(d, s, k) => Coming(call', s, k)
                          /\ OpeningOf(d, s) => Opening(call', s)
<1>1. call'[r] = d /\ \A q \in Requests \ {r} : call'[q] = call[q]
  BY DEF Inv
<1>2. /\ \A k : ~LeavingFrom(call[r], s, k) /\ ~ComingTo(call[r], s, k)
      /\ ~OpeningOf(call[r], s)
  BY DEF LeavingFrom, ComingTo, OpeningOf
<1> QED
  BY <1>1, <1>2 DEF Leaving, Coming, Opening

\* A Klasse comes to a school, under a new name perhaps.
LEMMA MirrorComing ==
    ASSUME Inv, MirrorInv, NEW r \in Requests, NEW row, NEW d, Writes(r, row, d), UNCHANGED groups,
           call[r].id \in Ids, ~Telling(call[r]),
           NEW s \in Ids, SchoolIn(orga, s), s \notin raced \cup missed,
           s # call[r].id, row.typ = Klasse, row.adm = s, d # Idle, ComingTo(d, s, call[r].id)
    PROVE  Mirrored(orga', groups', call', s)
<1> DEFINE id == call[r].id
<1>1. /\ orga'[id] = row /\ \A k \in Ids : k # id => orga'[k] = orga[k]
      /\ call' = [call EXCEPT ![r] = d]
  BY DEF Writes
<1>2. /\ \A k : Leaving(call, s, k) => Leaving(call', s, k)
      /\ \A k : Coming(call, s, k) => Coming(call', s, k)
      /\ Opening(call, s) => Opening(call', s)
      /\ Coming(call', s, id)
  BY <1>1, StillTold
<1>3. KlassenIn(orga', s) = KlassenIn(orga, s) \cup {id}
  BY <1>1 DEF KlassenIn
<1>4. Mirrored(orga, groups, call, s)
  BY DEF MirrorInv
<1>5. orga'[s] = orga[s]
  BY <1>1
<1> HIDE DEF id
<1>6. \A k \in Ids : groups'[k].parent = s =>
         orga'[s].its /\ (k \in KlassenIn(orga', s) \/ Leaving(call', s, k))
  BY <1>2, <1>3, <1>4, <1>5 DEF Mirrored
<1>7. ASSUME EnabledIn(orga', s), ~Opening(call', s)
      PROVE  /\ groups'[s] = [parent |-> Root, name |-> orga'[s].name]
             /\ \A k \in KlassenIn(orga', s) :
                  Coming(call', s, k) \/ groups'[k] = [parent |-> s, name |-> orga'[k].name]
  <2>1. /\ groups[s] = [parent |-> Root, name |-> orga[s].name]
        /\ \A k \in KlassenIn(orga, s) :
             Coming(call, s, k) \/ groups[k] = [parent |-> s, name |-> orga[k].name]
    BY <1>2, <1>4, <1>5, <1>7 DEF Mirrored, EnabledIn
  <2>2. \A k \in KlassenIn(orga, s) : k \in Ids
    BY DEF KlassenIn
  <2> QED
    BY ZenonT(40), <1>1, <1>2, <1>3, <1>5, <2>1, <2>2
<1> QED
  BY <1>6, <1>7 DEF Mirrored

\* A Klasse is gone from its school.
LEMMA MirrorLeaving ==
    ASSUME Inv, MirrorInv, NEW r \in Requests, NEW d, Writes(r, Deleted, d), UNCHANGED groups,
           call[r].id \in Ids, ~Telling(call[r]),
           NEW s \in Ids, SchoolIn(orga, s), s \notin raced \cup missed,
           s # call[r].id, d # Idle, LeavingFrom(d, s, call[r].id)
    PROVE  Mirrored(orga', groups', call', s)
<1> DEFINE id == call[r].id
<1>1. /\ orga'[id] = Deleted /\ \A k \in Ids : k # id => orga'[k] = orga[k]
      /\ call' = [call EXCEPT ![r] = d]
  BY DEF Writes
<1>2. /\ \A k : Leaving(call, s, k) => Leaving(call', s, k)
      /\ \A k : Coming(call, s, k) => Coming(call', s, k)
      /\ Opening(call, s) => Opening(call', s)
      /\ Leaving(call', s, id)
  BY <1>1, StillTold
<1>3. KlassenIn(orga', s) = KlassenIn(orga, s) \ {id}
  BY <1>1, TypsDiffer DEF KlassenIn
<1>4. Mirrored(orga, groups, call, s)
  BY DEF MirrorInv
<1>5. orga'[s] = orga[s]
  BY <1>1
<1> HIDE DEF id
<1>6. \A k \in Ids : groups'[k].parent = s =>
         orga'[s].its /\ (k \in KlassenIn(orga', s) \/ Leaving(call', s, k))
  BY <1>2, <1>3, <1>4, <1>5 DEF Mirrored
<1>7. ASSUME EnabledIn(orga', s), ~Opening(call', s)
      PROVE  /\ groups'[s] = [parent |-> Root, name |-> orga'[s].name]
             /\ \A k \in KlassenIn(orga', s) :
                  Coming(call', s, k) \/ groups'[k] = [parent |-> s, name |-> orga'[k].name]
  <2>1. /\ groups[s] = [parent |-> Root, name |-> orga[s].name]
        /\ \A k \in KlassenIn(orga, s) :
             Coming(call, s, k) \/ groups[k] = [parent |-> s, name |-> orga[k].name]
    BY <1>2, <1>4, <1>5, <1>7 DEF Mirrored, EnabledIn
  <2>2. \A k \in KlassenIn(orga', s) : k \in Ids /\ k # id /\ k \in KlassenIn(orga, s)
    BY <1>3 DEF KlassenIn
  <2> QED
    BY <1>1, <1>2, <1>5, <2>1, <2>2
<1> QED
  BY <1>6, <1>7 DEF Mirrored

\* A school is enabled.
LEMMA MirrorOpening ==
    ASSUME Inv, MirrorInv, NEW r \in Requests, NEW row, NEW d, Writes(r, row, d), UNCHANGED groups,
           call[r].id \in Ids, ~Telling(call[r]),
           NEW s \in Ids, SchoolIn(orga, s), s \notin raced \cup missed,
           s = call[r].id, row.typ = Schule, row.its, d # Idle, OpeningOf(d, s)
    PROVE  Mirrored(orga', groups', call', s)
<1>1. /\ orga'[s] = row /\ \A k \in Ids : k # s => orga'[k] = orga[k]
      /\ call' = [call EXCEPT ![r] = d]
  BY DEF Writes
<1>2. /\ \A k : Leaving(call, s, k) => Leaving(call', s, k)
      /\ Opening(call', s)
  BY <1>1, StillTold
<1>3. KlassenIn(orga', s) = KlassenIn(orga, s)
  BY <1>1, TypsDiffer DEF KlassenIn, SchoolIn
<1>4. Mirrored(orga, groups, call, s)
  BY DEF MirrorInv
<1> QED
  BY <1>1, <1>2, <1>3, <1>4 DEF Mirrored

\* What all requests that write know.
LEMMA MirrorWriter ==
    ASSUME Inv, SitesInv, MirrorInv, NEW r \in Requests, Busy(r), call[r].pc = "save"
    PROVE  LET c == call[r]
           IN  /\ c.id \in Ids /\ Good(c, orga[c.id]) /\ Sited(c, orga[c.id]) /\ ~Telling(c)
               /\ Knows(c, orga, missed, raced \cup missed)
               /\ groups = [k \in Ids |-> groups[k]] /\ ParentsIn(orga, groups)
BY DEF Inv, Good, SitesInv, MirrorInv, Telling

LEMMA MirrorInsert ==
    ASSUME Inv, SitesInv, MirrorInv, NEW r \in Requests, Insert(r), UNCHANGED <<groups, missed>>
    PROVE  MirrorInv'
<1> DEFINE c == call[r]
           id == c.id
           row == With(c.wish, [its |-> FALSE, version |-> 1])
<1>1. PICK d : /\ Writes(r, row, d) /\ Busy(r) /\ c.op = "create" /\ c.pc = "save"
               /\ IF c.wish.typ = Klasse THEN d \in Onward(c, "published", c.row, c.entity, c.its)
                  ELSE d = Idle
  BY Inserted
<1>2. /\ id \in Ids /\ Good(c, orga[id]) /\ Sited(c, orga[id]) /\ ~Telling(c)
      /\ Knows(c, orga, missed, raced \cup missed)
      /\ groups = [k \in Ids |-> groups[k]] /\ ParentsIn(orga, groups)
  BY <1>1, MirrorWriter
<1>3. /\ row.typ = c.wish.typ /\ row.adm = c.wish.adm /\ row.name = c.wish.name /\ row.its = FALSE
      /\ row.typ \in {Klasse, Schule} /\ LiveRow(row) /\ row # Unborn
  <2>1. c.wish = Placed(c.wish.typ, c.wish.adm, c.wish.zug, c.wish.name) /\ LiveRow(c.wish)
    BY <1>1, <1>2 DEF Sited
  <2> DEFINE w == c.wish
  <2>2. row = With(w, [its |-> FALSE, version |-> 1])
    OBVIOUS
  <2>3. w = Placed(w.typ, w.adm, w.zug, w.name) /\ w.typ \in {Klasse, Schule}
    BY <2>1 DEF LiveRow
  <2> HIDE DEF w, row
  <2>4. row.typ = w.typ /\ row.adm = w.adm /\ row.name = w.name /\ row.its = FALSE
    BY <2>2, <2>3, InsertedRow
  <2> QED
    BY <2>3, <2>4, UnbornNotLive DEF LiveRow, w
<1>4. orga[id] = Unborn /\ orga[id].typ # Schule /\ orga[id].typ # Klasse
  BY <1>1, <1>2, TypsDiffer DEF Good, Creating
<1>5. Placing(c) /\ Target(c).typ = row.typ /\ Target(c).adm = row.adm /\ Target(c).name = row.name /\ c.op # "put"
  BY <1>1, <1>3 DEF Placing, Target
<1>6. row.typ = Klasse => /\ SchoolIn(orga, row.adm)
                          /\ row.adm \notin raced \cup missed => row.adm \in c.sites
  BY <1>2, <1>5 DEF Knows, KnowsSchool
<1>7. /\ orga'[id] = row /\ \A k \in Ids : k # id => orga'[k] = orga[k]
      /\ call' = [call EXCEPT ![r] = d] /\ raced' = raced /\ missed' = missed /\ groups' = groups
  BY <1>1 DEF Writes
<1> HIDE DEF row
<1>8. Effect(r)
  BY <1>1, <1>2, <1>3, <1>4, <1>6, EffectOfInsert
<1>9. d # Idle => /\ Knows(d, orga', missed', raced' \cup missed')
                  /\ row.typ = Klasse /\ ComingTo(d, row.adm, id)
  <2> SUFFICES ASSUME d # Idle PROVE /\ Knows(d, orga', missed, raced \cup missed)
                                     /\ row.typ = Klasse /\ ComingTo(d, row.adm, id)
    BY <1>7
  <2>1. row.typ = Klasse /\ d \in Onward(c, "published", c.row, c.entity, c.its)
    BY <1>1, <1>3
  <2>2. Knows(d, orga', missed, raced \cup missed)
    <3> HIDE DEF c, id
    <3>1. c.op \in {"create", "rename"}
      BY <1>1
    <3> QED
      BY <1>1, <1>2, <1>3, <1>4, <1>5, <1>7, <2>1, <3>1, KnowsNamed DEF id
  <2>3. d.pc = "published" /\ d.op = "create" /\ d.id = id /\ d.wish = c.wish
    BY <1>1, <2>1, OnwardFields
  <2> QED
    BY <1>3, <2>1, <2>2, <2>3 DEF ComingTo, Telling, Target
<1>10. d = Idle => row.typ # Klasse
  <2>1. ASSUME d \in Onward(c, "published", c.row, c.entity, c.its) PROVE d # Idle
    BY <2>1, OnwardFields, IdleIsNoRequest
  <2> QED
    BY <1>1, <1>3, <2>1
<1>11. ParentsIn(orga', groups')
  <2>1. \A s : SchoolIn(orga, s) => SchoolIn(orga', s)
    BY <1>8, SchoolStays DEF Effect
  <2> QED
    BY <1>2, <1>7, <2>1 DEF ParentsIn
<1>12. ASSUME NEW s \in Ids, SchoolIn(orga', s), s \notin raced' \cup missed'
       PROVE  Mirrored(orga', groups', call', s)
  <2>1. CASE s = id
    <3>1. row.typ # Klasse /\ ~SchoolIn(orga, s) /\ orga'[s].its = FALSE
      BY <1>3, <1>4, <1>7, <1>12, <2>1, TypsDiffer DEF SchoolIn
    <3>2. \A k \in Ids : groups[k].parent # s
      BY <1>2, <3>1, GroupsAssumption DEF ParentsIn, Root
    <3>3. ~EnabledIn(orga', s)
      BY <3>1 DEF EnabledIn
    <3> QED
      BY <1>7, <3>2, <3>3 DEF Mirrored
  <2>2. CASE s # id
    <3>1. SchoolIn(orga, s) /\ s \notin raced \cup missed
      BY <1>7, <1>12, <2>2 DEF SchoolIn
    <3>2. CASE row.typ = Klasse /\ row.adm = s
      <4>1. d # Idle /\ ComingTo(d, s, id)
        BY <1>9, <1>10, <3>2
      <4> QED
        BY <1>1, <1>2, <1>7, <2>2, <3>1, <3>2, <4>1, MirrorComing
    <3>3. CASE ~(row.typ = Klasse /\ row.adm = s)
      BY <1>1, <1>2, <1>4, <1>7, <2>2, <3>1, <3>3, MirrorElsewhere
    <3> QED
      BY <3>2, <3>3
  <2> QED
    BY <2>1, <2>2
<1> QED
  BY <1>1, <1>2, <1>7, <1>8, <1>9, <1>11, <1>12, MirrorStep

LEMMA MirrorRemove ==
    ASSUME Inv, SitesInv, MirrorInv, NEW r \in Requests, Remove(r), ~Refuse(r), UNCHANGED <<groups, missed>>
    PROVE  MirrorInv'
<1> DEFINE c == call[r]
           id == c.id
           o == orga[id]
<1>1. PICK d \in Onward(c, "published", c.row, c.entity, c.its) :
          Writes(r, Deleted, d) /\ Busy(r) /\ c.op = "delete" /\ c.pc = "save"
  BY Removed
<1>2. /\ id \in Ids /\ ~Telling(c)
      /\ Knows(c, orga, missed, raced \cup missed)
      /\ groups = [k \in Ids |-> groups[k]] /\ ParentsIn(orga, groups)
  BY <1>1, MirrorWriter
<1>3. LiveRow(o) => o.typ = Klasse /\ o.adm \in c.sites \cup missed
  BY <1>1, <1>2 DEF Knows, KnowsKlasse
<1>4. /\ orga'[id] = Deleted /\ \A k \in Ids : k # id => orga'[k] = orga[k]
      /\ call' = [call EXCEPT ![r] = d] /\ raced' = raced /\ missed' = missed /\ groups' = groups
  BY <1>1 DEF Writes
<1>5. Effect(r)
  BY <1>1, <1>2, <1>3, <1>4, EffectOfRemove
<1>6. /\ d # Idle /\ Telling(d) /\ d.op = "delete" /\ d.id = id /\ d.sites = c.sites
      /\ Knows(d, orga', missed', raced' \cup missed')
  <2>1. d # Idle /\ d.pc = "published" /\ d.op = "delete" /\ d.id = id /\ d.sites = c.sites
    BY <1>1, OnwardFields, IdleIsNoRequest
  <2>2. Knows(d, orga', missed', raced' \cup missed')
    <3> HIDE DEF c, id
    <3> QED
      BY <1>1, <1>4, KnowsRemoved DEF id
  <2> QED
    BY <2>1, <2>2 DEF Telling
<1>7. ParentsIn(orga', groups')
  <2>1. \A s : SchoolIn(orga, s) => SchoolIn(orga', s)
    BY <1>5, SchoolStays DEF Effect
  <2> QED
    BY <1>2, <1>4, <2>1 DEF ParentsIn
<1>8. ASSUME NEW s \in Ids, SchoolIn(orga', s), s \notin raced' \cup missed'
      PROVE  Mirrored(orga', groups', call', s)
  <2>1. s # id /\ SchoolIn(orga, s) /\ s \notin raced \cup missed
    BY <1>4, <1>8, TypsDiffer DEF SchoolIn
  <2>2. CASE o.typ = Klasse /\ o.adm = s
    <3>1. s \in c.sites
      BY <1>3, <2>1, <2>2 DEF LiveRow
    <3>2. LeavingFrom(d, s, id)
      BY <1>6, <3>1 DEF LeavingFrom
    <3> QED
      BY <1>1, <1>2, <1>4, <1>6, <2>1, <3>2, MirrorLeaving
  <2>3. CASE ~(o.typ = Klasse /\ o.adm = s)
    BY <1>1, <1>2, <1>4, <2>1, <2>3, TypsDiffer, MirrorElsewhere
  <2> QED
    BY <2>2, <2>3
<1> QED
  BY <1>1, <1>2, <1>4, <1>5, <1>6, <1>7, <1>8, MirrorStep

LEMMA MirrorUpdate ==
    ASSUME Inv, SitesInv, MirrorInv, NEW r \in Requests, Update(r), ~Refuse(r), Told(r), UNCHANGED groups
    PROVE  MirrorInv'
<1> DEFINE c == call[r]
           id == c.id
           o == orga[id]
           p == Written(r)
<1>1. PICK d : /\ Writes(r, p, d) /\ Busy(r) /\ Updating(c) /\ UpToDate(r) /\ c.pc = "save"
               /\ IF c.op \in {"rename", "enable"} THEN d \in Onward(c, "published", c.row, c.entity, c.its)
                  ELSE d = Idle
  BY Updated
<1>2. /\ id \in Ids /\ Good(c, o) /\ Sited(c, o) /\ ~Telling(c)
      /\ Knows(c, orga, missed, raced \cup missed)
      /\ groups = [k \in Ids |-> groups[k]] /\ ParentsIn(orga, groups)
  BY <1>1, MirrorWriter
<1>3. /\ LiveRow(o) /\ LiveRow(p) /\ p.typ = o.typ /\ p.version = o.version + 1 /\ o = c.row
      /\ p.adm = IF c.op = "put" THEN c.wish.adm ELSE o.adm
      /\ p.name = IF c.op \in {"put", "rename"} THEN c.wish.name ELSE o.name
      /\ p.its = IF c.op = "enable" THEN TRUE ELSE o.its
  BY <1>1, WrittenRow
<1>4. /\ orga'[id] = p /\ \A k \in Ids : k # id => orga'[k] = orga[k]
      /\ call' = [call EXCEPT ![r] = d] /\ raced' = raced /\ groups' = groups
  BY <1>1 DEF Writes
<1>5. o.version \in Nat /\ o.typ \in {Klasse, Schule} /\ p # Unborn
  BY <1>2, <1>3, UnbornNotLive DEF Inv, WellFormed, LiveRow
<1>6. /\ c.op = "put" => missed' = missed \cup c.sites
      /\ c.op # "put" => missed' = missed
  <2>1. orga' # orga
    <3> HIDE DEF p, o
    <3>1. orga'[id].version # orga[id].version
      BY <1>3, <1>4, <1>5 DEF o
    <3> QED
      BY <3>1
  <2> QED
    BY <1>1, <2>1 DEF Told, Busy
<1> HIDE DEF p
<1>7. /\ c.op \in {"rename", "move", "put", "enable"}
      /\ c.op = "rename" => o.typ = Klasse
      /\ c.op \in {"move", "enable"} => o.typ = Schule
      /\ c.op = "enable" => id \in c.sites
      /\ c.op \in {"rename", "put"} /\ o.typ = Klasse => o.adm \in c.sites \cup missed
      /\ c.op = "put" => /\ o.typ = c.wish.typ
                         /\ o.typ = Schule => id \in c.sites
                         /\ o.typ = Klasse => c.wish.adm \in c.sites /\ SchoolIn(orga, c.wish.adm)
  <2>1. c.op \in {"rename", "move", "put", "enable"}
    BY <1>1 DEF Updating
  <2>2. c.op = "rename" => o.typ = Klasse
    BY <1>1, <1>2, <1>3 DEF Sited
  <2>3. KnowsSchool(c, orga, raced \cup missed) /\ KnowsKlasse(c, o, missed, raced \cup missed)
    BY <1>2 DEF Knows
  <2>4. c.op \in {"move", "enable"} => o.typ = Schule
    BY <2>3 DEF KnowsSchool, SchoolIn
  <2>5. c.op \in {"rename", "put"} /\ o.typ = Klasse => o.adm \in c.sites \cup missed
    <3> HIDE DEF o, c
    <3> QED
      BY <1>2, <1>3, <2>3 DEF KnowsKlasse
  <2>6. ASSUME c.op = "put"
        PROVE  /\ o.typ = c.wish.typ
               /\ o.typ = Schule => id \in c.sites
               /\ o.typ = Klasse => c.wish.adm \in c.sites /\ SchoolIn(orga, c.wish.adm)
    <3>1. o.typ = c.wish.typ /\ Site(c.wish) \in c.sites
      BY <1>2, <1>3, <2>6 DEF Sited
    <3>2. Placing(c) /\ Target(c).typ = c.wish.typ /\ Target(c).adm = c.wish.adm
      BY <1>1, <2>6 DEF Placing, Target
    <3> QED
      BY <2>3, <2>6, <3>1, <3>2 DEF KnowsSchool, Site
  <2>7. c.op = "enable" => id \in c.sites
    BY <2>3 DEF KnowsSchool
  <2> QED
    BY <2>1, <2>2, <2>4, <2>5, <2>6, <2>7
<1>8. missed \subseteq missed'
  BY <1>6
<1>9. Effect(r)
  <2>1. o.typ = Klasse =>
          /\ o.adm \in c.sites \cup missed
          /\ \/ p.adm = o.adm
             \/ c.sites \subseteq missed' /\ p.adm \in c.sites /\ SchoolIn(orga, p.adm)
    BY <1>3, <1>6, <1>7, TypsDiffer
  <2>2. o.typ = Schule =>
          /\ p.adm = o.adm \/ (c.id \in c.sites /\ c.sites \subseteq missed')
          /\ c.id \in c.sites \/ (p.its = o.its /\ p.name = o.name)
    <3>1. c.op = "rename" => o.typ # Schule
      BY <1>7, TypsDiffer
    <3>2. CASE c.op = "move"
      BY <1>3, <3>2
    <3>3. CASE c.op = "put"
      BY <1>6, <1>7, <3>3
    <3>4. CASE c.op = "enable"
      BY <1>3, <1>7, <3>4
    <3> QED
      BY <1>7, <3>1, <3>2, <3>3, <3>4
  <2> QED
    BY <1>1, <1>2, <1>3, <1>8, <2>1, <2>2, EffectOfUpdate
<1>10. \A s : SchoolIn(orga, s) => SchoolIn(orga', s)
  BY <1>9, SchoolStays DEF Effect
<1>11. ParentsIn(orga', groups')
  BY <1>2, <1>4, <1>10 DEF ParentsIn
<1>12. ASSUME c.op = "rename"
       PROVE  /\ Knows(d, orga', missed', raced' \cup missed')
              /\ d # Idle /\ ComingTo(d, o.adm, id)
  <2>1. d \in Onward(c, "published", c.row, c.entity, c.its)
    BY <1>1, <1>12
  <2>2. Target(c).typ = o.typ /\ Target(c).adm = o.adm /\ Target(c).name = c.wish.name
    BY <1>3, <1>12 DEF Target
  <2>3. p.adm = o.adm /\ p.name = c.wish.name /\ p.typ = Klasse /\ o.typ # Schule
    BY <1>3, <1>7, <1>12, TypsDiffer
  <2>4. Knows(d, orga', missed, raced \cup missed)
    <3>1. c.op \in {"create", "rename"} /\ Target(c).typ = Klasse
      BY <1>7, <1>12, <2>2
    <3>2. /\ c.pc = "save" /\ orga[c.id].typ # Schule /\ \A k \in Ids : k # c.id => orga'[k] = orga[k]
          /\ orga'[c.id] # Unborn /\ orga'[c.id].typ = Klasse
          /\ orga'[c.id].adm = Target(c).adm /\ orga'[c.id].name = Target(c).name
      BY <1>1, <1>4, <1>5, <2>2, <2>3
    <3>3. Knows(c, orga, missed, raced \cup missed)
      BY <1>2
    <3> HIDE DEF c, id, o
    <3> QED
      BY <2>1, <3>1, <3>2, <3>3, KnowsNamed
  <2>5. d.pc = "published" /\ d.op = "rename" /\ d.id = id /\ d.row = c.row /\ d # Idle
    BY <1>12, <2>1, OnwardFields, IdleIsNoRequest
  <2>6. c.op # "put"
    BY <1>12
  <2> QED
    BY <1>3, <1>4, <1>6, <2>4, <2>5, <2>6 DEF ComingTo, Telling, Target
<1>13. ASSUME c.op = "enable"
       PROVE  /\ Knows(d, orga', missed', raced' \cup missed')
              /\ d # Idle /\ OpeningOf(d, id)
  <2>1. d \in Onward(c, "published", c.row, c.entity, c.its)
    BY <1>1, <1>13
  <2>2. p.its = TRUE /\ p.name = c.row.name /\ SchoolIn(orga', id)
    <3>1. c.op \notin {"put", "rename"}
      BY <1>13
    <3>2. SchoolIn(orga, id)
      BY <1>2, <1>7, <1>13 DEF SchoolIn
    <3> QED
      BY <1>3, <1>10, <1>13, <3>1, <3>2
  <2>3. Knows(d, orga', missed, raced \cup missed)
    <3> HIDE DEF c, id, o
    <3> QED
      BY <1>2, <1>4, <1>13, <2>1, <2>2, KnowsEnabled DEF id
  <2>4. d.pc = "published" /\ d.op = "enable" /\ d.id = id /\ d # Idle
    BY <1>13, <2>1, OnwardFields, IdleIsNoRequest
  <2>5. c.op # "put"
    BY <1>13
  <2> QED
    BY <1>4, <1>6, <2>3, <2>4, <2>5 DEF OpeningOf, Telling
<1>14. d # Idle => Knows(d, orga', missed', raced' \cup missed')
  BY <1>1, <1>12, <1>13
<1>15. ASSUME NEW s \in Ids, SchoolIn(orga', s), s \notin raced' \cup missed'
       PROVE  Mirrored(orga', groups', call', s)
  <2>1. SchoolIn(orga, s) /\ s \notin raced \cup missed
    <3>1. s = id => o.typ = Schule
      BY <1>3, <1>4, <1>15 DEF SchoolIn
    <3> QED
      BY <1>4, <1>8, <1>15, <3>1 DEF SchoolIn
  <2>2. CASE c.op = "rename" /\ o.adm = s
    <3>1. s # id /\ p.typ = Klasse /\ p.adm = s
      BY <1>3, <1>7, <2>1, <2>2, TypsDiffer DEF SchoolIn
    <3> QED
      BY <1>1, <1>2, <1>4, <1>12, <2>1, <2>2, <3>1, MirrorComing
  <2>3. CASE c.op = "enable" /\ id = s
    <3>1. p.typ = Schule /\ p.its
      BY <1>3, <1>7, <2>3
    <3> QED
      BY <1>1, <1>2, <1>4, <1>13, <2>1, <2>3, <3>1, MirrorOpening
  <2>4. CASE ~(c.op = "rename" /\ o.adm = s) /\ ~(c.op = "enable" /\ id = s)
    <3>1. ~(o.typ = Klasse /\ o.adm = s)
      <4>1. ASSUME o.typ = Klasse, o.adm = s PROVE FALSE
        <5>1. c.op = "put"
          BY <1>7, <2>4, <4>1, TypsDiffer
        <5> QED
          BY <1>6, <1>7, <1>15, <4>1, <5>1
      <4> QED
        BY <4>1
    <3>2. ~(p.typ = Klasse /\ p.adm = s)
      <4>1. ASSUME o.typ = Klasse, c.op = "put", c.wish.adm = s PROVE FALSE
        BY <1>6, <1>7, <1>15, <4>1
      <4> QED
        BY <1>3, <3>1, <4>1
    <3>3. s = id => p.its = o.its /\ p.adm = o.adm /\ p.name = o.name
      <4> SUFFICES ASSUME s = id PROVE p.its = o.its /\ p.adm = o.adm /\ p.name = o.name
        OBVIOUS
      <4>1. o.typ = Schule
        BY <2>1 DEF SchoolIn
      <4>2. c.op # "rename" /\ c.op # "put" /\ c.op # "enable"
        BY <1>6, <1>7, <1>15, <2>4, <4>1, TypsDiffer
      <4> QED
        BY <1>3, <4>2
    <3>4. Writes(r, p, d) /\ call[r].id \in Ids /\ ~Telling(call[r])
      BY <1>1, <1>2
    <3>5. s = call[r].id => p.its = orga[s].its /\ p.adm = orga[s].adm /\ p.name = orga[s].name
      BY <3>3
    <3> HIDE DEF c, id
    <3> QED
      BY <2>1, <3>1, <3>2, <3>4, <3>5, MirrorElsewhere DEF c, id
  <2> QED
    BY <2>2, <2>3, <2>4
<1> QED
  BY <1>1, <1>2, <1>4, <1>9, <1>11, <1>14, <1>15, MirrorStep

\* A call to itslearning that changes groups, but none of the school.
LEMMA SentElsewhere ==
    ASSUME Inv, MirrorInv, NEW r \in Requests, Refuse(r), UNCHANGED missed,
           NEW s \in Ids, SchoolIn(orga, s), s \notin raced \cup missed,
           groups'[s] = groups[s], \A k \in KlassenIn(orga, s) : groups'[k] = groups[k],
           \A k \in Ids : groups'[k].parent = s => groups[k].parent = s,
           \A k \in Ids : groups'[k].parent = s => ~LeavingFrom(call[r], s, k),
           ~OpeningOf(call[r], s), \A k : ~ComingTo(call[r], s, k)
    PROVE  Mirrored(orga', groups', call', s)
<1>1. call' = [call EXCEPT ![r] = Idle] /\ orga' = orga
  BY DEF Refuse
<1>2. Untouched(orga, orga', s)
  BY <1>1 DEF Untouched
<1> QED
  BY <1>1, <1>2, MirrorOf

\* The group of a Klasse that was created or renamed.
LEMMA MirrorSendKlasse ==
    ASSUME Inv, SitesInv, MirrorInv, NEW r \in Requests, Busy(r), Refuse(r), UNCHANGED missed,
           call[r].op \in {"create", "rename"}, call[r].pc = "send",
           groups' = [groups EXCEPT ![call[r].id] =
               [parent |-> Wanted(r).adm, name |-> Wanted(r).name]]
    PROVE  MirrorInv'
<1> DEFINE c == call[r]
           id == c.id
           o == orga[id]
           t == Target(c)
           g == [parent |-> t.adm, name |-> t.name]
<1>1. id \in Ids /\ Sited(c, o) /\ Knows(c, orga, missed, raced \cup missed) /\ Telling(c)
  BY DEF Inv, Good, SitesInv, MirrorInv, Telling
<1>2. Wanted(r).adm = t.adm /\ Wanted(r).name = t.name
  BY <1>1, TargetFields DEF Wanted
<1>3. /\ groups' = [k \in Ids |-> groups'[k]] /\ groups'[id] = g
      /\ \A k \in Ids : k # id => groups'[k] = groups[k]
  BY <1>1, <1>2 DEF MirrorInv
<1>4. call' = [call EXCEPT ![r] = Idle] /\ UNCHANGED <<orga, raced>>
  BY DEF Refuse
<1>5. Placing(c) /\ t.typ = Klasse /\ c.op # "put" /\ c.op # "delete" /\ c.op # "enable"
  BY <1>1 DEF Placing, Knows, KnowsKlasse
<1>6. SchoolIn(orga, t.adm) /\ (t.adm \notin raced \cup missed => c.its = orga[t.adm].its)
  BY <1>1, <1>5 DEF Knows, KnowsSchool
<1>7. /\ LiveRow(o) => o.typ = Klasse /\ o.adm \in {t.adm} \cup missed
      /\ t.adm \notin raced \cup missed => LiveRow(o) /\ o.adm = t.adm /\ o.name = t.name
      /\ c.its
  BY <1>1 DEF Knows, KnowsKlasse
<1>8. Effect(r)
  BY <1>4, NoEffect
<1>9. g.parent = t.adm /\ g.name = t.name
  OBVIOUS
<1> HIDE DEF g
<1>10. ParentsIn(orga', groups')
  BY <1>3, <1>4, <1>6, <1>9 DEF MirrorInv, ParentsIn
<1>11. \A s, k : ~LeavingFrom(c, s, k) /\ ~OpeningOf(c, s)
  BY <1>5 DEF LeavingFrom, OpeningOf
<1>12. ASSUME NEW s \in Ids, SchoolIn(orga, s), s \notin raced \cup missed
       PROVE  Mirrored(orga', groups', call', s)
  <2>1. s # id
    BY <1>7, <1>12, TypsDiffer DEF SchoolIn, LiveRow
  <2>2. CASE s = t.adm
    <3>1. id \in KlassenIn(orga, s) /\ o.name = t.name /\ orga[s].its
      BY <1>1, <1>6, <1>7, <1>12, <2>2 DEF KlassenIn
    <3>2. Mirrored(orga, groups, call, s)
      BY <1>12 DEF MirrorInv
    <3>3. call'[r] = Idle /\ \A q \in Requests \ {r} : call'[q] = call[q]
      BY <1>4 DEF Inv
    <3>4. /\ \A k : Leaving(call, s, k) => Leaving(call', s, k)
          /\ \A k : k # id /\ Coming(call, s, k) => Coming(call', s, k)
          /\ Opening(call, s) => Opening(call', s)
      BY <1>11, <3>3 DEF Leaving, Coming, Opening, ComingTo
    <3>5. \A k \in Ids : groups'[k].parent = s =>
             orga[s].its /\ (k \in KlassenIn(orga, s) \/ Leaving(call', s, k))
      BY <1>3, <3>1, <3>2, <3>4 DEF Mirrored
    <3>6. g = [parent |-> s, name |-> orga[id].name]
      BY <2>2, <3>1 DEF g
    <3>7. ASSUME EnabledIn(orga, s), ~Opening(call', s)
          PROVE  /\ groups'[s] = [parent |-> Root, name |-> orga[s].name]
                 /\ \A k \in KlassenIn(orga, s) :
                     Coming(call', s, k) \/ groups'[k] = [parent |-> s, name |-> orga[k].name]
      <4>1. /\ groups[s] = [parent |-> Root, name |-> orga[s].name]
            /\ \A k \in KlassenIn(orga, s) :
                     Coming(call, s, k) \/ groups[k] = [parent |-> s, name |-> orga[k].name]
        BY <3>2, <3>4, <3>7 DEF Mirrored
      <4>2. \A k \in KlassenIn(orga, s) : k \in Ids
        BY DEF KlassenIn
      <4> HIDE DEF id
      <4> QED
        BY <1>3, <1>12, <2>1, <3>4, <3>6, <4>1, <4>2
    <3> QED
      BY <1>4, <3>5, <3>7 DEF Mirrored
  <2>3. CASE s # t.adm
    <3>1. id \notin KlassenIn(orga, s)
      BY <1>7, <1>12, <2>3 DEF KlassenIn, LiveRow
    <3>2. \A k : ~ComingTo(c, s, k)
      BY <2>3 DEF ComingTo
    <3>3. \A k \in KlassenIn(orga, s) : k \in Ids /\ k # id
      BY <3>1 DEF KlassenIn
    <3>4. \A k \in Ids : groups'[k].parent = s => groups[k].parent = s
      BY <1>3, <1>9, <2>3
    <3> QED
      BY <1>3, <1>11, <1>12, <2>1, <3>2, <3>3, <3>4, SentElsewhere
  <2> QED
    BY <2>2, <2>3
<1> QED
  BY <1>3, <1>4, <1>8, <1>10, <1>12, MirrorStep

\* The group of a Klasse that is gone.
LEMMA MirrorSendDeleted ==
    ASSUME Inv, SitesInv, MirrorInv, NEW r \in Requests, Busy(r), Refuse(r), UNCHANGED missed,
           call[r].op = "delete", call[r].pc = "send",
           groups' = [groups EXCEPT ![call[r].id] = NoGroup]
    PROVE  MirrorInv'
<1> DEFINE c == call[r]
           id == c.id
<1>1. id \in Ids /\ Knows(c, orga, missed, raced \cup missed) /\ Telling(c)
  BY DEF Inv, Good, MirrorInv, Telling
<1>2. /\ groups' = [k \in Ids |-> groups'[k]] /\ groups'[id] = NoGroup
      /\ \A k \in Ids : k # id => groups'[k] = groups[k]
  BY <1>1 DEF MirrorInv
<1>3. call' = [call EXCEPT ![r] = Idle] /\ UNCHANGED <<orga, raced>>
  BY DEF Refuse
<1>4. orga[id] = Deleted
  BY <1>1 DEF Knows, KnowsKlasse
<1>5. Effect(r)
  BY <1>3, NoEffect
<1>6. NoGroup.parent = "none" /\ "none" \notin Ids
  BY GroupsAssumption DEF NoGroup
<1>7. ParentsIn(orga', groups')
  BY <1>2, <1>3, <1>6 DEF MirrorInv, ParentsIn
<1>8. ASSUME NEW s \in Ids, SchoolIn(orga, s), s \notin raced \cup missed
      PROVE  Mirrored(orga', groups', call', s)
  <2>1. s # id /\ \A k \in KlassenIn(orga, s) : k \in Ids /\ k # id
    BY <1>4, <1>8, TypsDiffer DEF SchoolIn, KlassenIn
  <2>2. \A k \in Ids : groups'[k].parent = s => groups[k].parent = s /\ k # id
    BY <1>2, <1>6
  <2>3. \A k : k # id => ~LeavingFrom(c, s, k)
    BY DEF LeavingFrom
  <2>4. ~OpeningOf(c, s) /\ \A k : ~ComingTo(c, s, k)
    BY DEF OpeningOf, ComingTo
  <2> QED
    BY <1>2, <1>8, <2>1, <2>2, <2>3, <2>4, SentElsewhere
<1> QED
  BY <1>2, <1>3, <1>5, <1>7, <1>8, MirrorStep

\* The groups of a school that was enabled.
LEMMA MirrorSendEnabled ==
    ASSUME Inv, SitesInv, MirrorInv, NEW r \in Requests, Busy(r), Refuse(r), UNCHANGED missed,
           call[r].op = "enable", call[r].pc = "send",
           groups' = With(call[r].wish, groups)
    PROVE  MirrorInv'
<1> DEFINE c == call[r]
           id == c.id
           w == c.wish
           D == raced \cup missed
<1>1. id \in Ids /\ Knows(c, orga, missed, D) /\ Telling(c) /\ groups = [k \in Ids |-> groups[k]]
  BY DEF Inv, Good, MirrorInv, Telling
<1>2. call' = [call EXCEPT ![r] = Idle] /\ UNCHANGED <<orga, raced>>
  BY DEF Refuse
<1>3. SchoolIn(orga, id) /\ id \in c.sites
  BY <1>1 DEF Knows, KnowsSchool
<1>4. /\ id \notin D => orga[id].its /\ orga[id].name = c.row.name
      /\ id \in DOMAIN w /\ w[id] = [parent |-> Root, name |-> c.row.name]
      /\ \A k \in DOMAIN w \ {id} :
              /\ k \in Ids /\ w[k].parent = id /\ orga[k] # Unborn
              /\ LiveRow(orga[k]) => orga[k].typ = Klasse /\ orga[k].adm \in {id} \cup missed
      /\ id \notin D =>
              /\ DOMAIN w \subseteq KlassenIn(orga, id) \cup {id}
              /\ \A k \in KlassenIn(orga, id) :
                   k \in DOMAIN w /\ w[k] = [parent |-> id, name |-> orga[k].name]
  BY <1>1 DEF Knows, KnowsGroups
<1> HIDE DEF D, w
<1>5. DOMAIN w \subseteq Ids /\ DOMAIN groups = Ids
  BY <1>1, <1>4
<1>6. /\ groups' = [k \in Ids |-> groups'[k]]
      /\ \A k \in DOMAIN w : groups'[k] = w[k]
      /\ \A k \in Ids \ DOMAIN w : groups'[k] = groups[k]
  <2> DEFINE f == groups
             f2 == groups'
  <2>1. f2 = With(w, f) /\ DOMAIN f = Ids
    BY <1>5 DEF w
  <2> HIDE DEF f, f2
  <2>2. f2 = [k \in Ids |-> IF k \in DOMAIN w THEN w[k] ELSE f[k]]
    BY <1>5, <2>1 DEF With
  <2>3. /\ f2 = [k \in Ids |-> f2[k]]
        /\ \A k \in DOMAIN w : f2[k] = w[k]
        /\ \A k \in Ids \ DOMAIN w : f2[k] = f[k]
    BY <1>5, <2>2
  <2> QED
    BY <2>3 DEF f, f2
<1>7. w[id].parent = Root /\ Root \notin Ids
  BY <1>4, GroupsAssumption DEF Root
<1>8. Effect(r)
  BY <1>2, NoEffect
<1>9. ParentsIn(orga', groups')
  <2> SUFFICES ASSUME NEW k \in Ids PROVE groups'[k].parent \in {"none", Root} \/ SchoolIn(orga, groups'[k].parent)
    BY <1>2 DEF ParentsIn
  <2>1. CASE k \notin DOMAIN w
    BY <1>6, <2>1 DEF MirrorInv, ParentsIn
  <2>2. CASE k = id
    BY <1>4, <1>6, <1>7, <2>2
  <2>3. CASE k \in DOMAIN w \ {id}
    BY <1>3, <1>4, <1>6, <2>3
  <2> QED
    BY <2>1, <2>2, <2>3
<1>10. \A s, k : ~LeavingFrom(c, s, k) /\ ~ComingTo(c, s, k)
  BY DEF LeavingFrom, ComingTo
<1>11. ASSUME NEW s \in Ids, SchoolIn(orga, s), s \notin raced \cup missed
       PROVE  Mirrored(orga', groups', call', s)
  <2>1. CASE s = id
    <3>1. Mirrored(orga, groups, call, s)
      BY <1>11 DEF MirrorInv
    <3>2. call'[r] = Idle /\ \A q \in Requests \ {r} : call'[q] = call[q]
      BY <1>2 DEF Inv
    <3>3. \A k : Leaving(call, s, k) => Leaving(call', s, k)
      BY <1>10, <3>2 DEF Leaving
    <3>4. id \notin D /\ orga[s].its
      BY <1>4, <1>11, <2>1 DEF D
    <3>5. \A k \in Ids : groups'[k].parent = s => k \in KlassenIn(orga, s) \/ Leaving(call', s, k)
      <4> SUFFICES ASSUME NEW k \in Ids, groups'[k].parent = s
                   PROVE  k \in KlassenIn(orga, s) \/ Leaving(call', s, k)
        OBVIOUS
      <4>1. CASE k \notin DOMAIN w
        BY <1>6, <3>1, <3>3, <4>1 DEF Mirrored
      <4>2. CASE k \in DOMAIN w
        <5>1. k # id
          BY <1>4, <1>6, <1>7
        <5> QED
          BY <1>4, <2>1, <3>4, <4>2, <5>1
      <4> QED
        BY <4>1, <4>2
    <3>6. /\ groups'[s] = [parent |-> Root, name |-> orga[s].name]
          /\ \A k \in KlassenIn(orga, s) : groups'[k] = [parent |-> s, name |-> orga[k].name]
      BY <1>4, <1>6, <2>1, <3>4
    <3> QED
      BY <1>2, <3>4, <3>5, <3>6 DEF Mirrored
  <2>2. CASE s # id
    <3>1. ~OpeningOf(c, s)
      BY <2>2 DEF OpeningOf
    <3>2. ASSUME NEW k \in DOMAIN w PROVE k # s /\ k \notin KlassenIn(orga, s) /\ w[k].parent # s
      <4>1. CASE k = id
        <5>1. id \notin KlassenIn(orga, s)
          BY <1>3, TypsDiffer DEF SchoolIn, KlassenIn
        <5> QED
          BY <1>7, <1>11, <2>2, <4>1, <5>1
      <4>2. CASE k # id
        <5>1. /\ k \in Ids /\ w[k].parent = id
              /\ LiveRow(orga[k]) => orga[k].typ = Klasse /\ orga[k].adm \in {id} \cup missed
          BY <1>4, <4>2
        <5>2. k # s /\ k \notin KlassenIn(orga, s)
          BY <1>11, <2>2, <5>1, TypsDiffer DEF SchoolIn, KlassenIn, LiveRow
        <5> QED
          BY <2>2, <5>1, <5>2
      <4> QED
        BY <4>1, <4>2
    <3>3. groups'[s] = groups[s] /\ \A k \in KlassenIn(orga, s) : groups'[k] = groups[k]
      <4>1. \A k \in KlassenIn(orga, s) : k \in Ids
        BY DEF KlassenIn
      <4> QED
        BY <1>6, <1>11, <3>2, <4>1
    <3>4. \A k \in Ids : groups'[k].parent = s => groups[k].parent = s
      BY <1>6, <3>2
    <3> QED
      BY <1>10, <1>11, <3>1, <3>3, <3>4, SentElsewhere
  <2> QED
    BY <2>1, <2>2
<1> QED
  BY <1>2, <1>6, <1>8, <1>9, <1>11, MirrorStep

\* A call that failed: its schools are those that were not told.
LEMMA MirrorSendFails ==
    ASSUME Inv, SitesInv, MirrorInv, NEW r \in Requests, Busy(r), Refuse(r), call[r].pc = "send",
           missed' = missed \cup call[r].sites, UNCHANGED groups
    PROVE  MirrorInv'
<1> DEFINE c == call[r]
<1>1. Knows(c, orga, missed, raced \cup missed) /\ Telling(c)
  BY DEF MirrorInv, Telling
<1>2. call' = [call EXCEPT ![r] = Idle] /\ UNCHANGED <<orga, raced>>
  BY DEF Refuse
<1>3. Effect(r)
  BY <1>2, NoEffect
<1>4. groups' = [k \in Ids |-> groups'[k]] /\ ParentsIn(orga', groups')
  BY <1>2 DEF MirrorInv
<1>5. ASSUME NEW s \in Ids, SchoolIn(orga, s), s \notin raced \cup missed', s \in Ids
      PROVE  Mirrored(orga', groups', call', s)
  <2>1. s \notin c.sites /\ s \notin raced \cup missed
    BY <1>5
  <2>2. ~OpeningOf(c, s)
    BY <1>1, <2>1 DEF Knows, KnowsSchool, OpeningOf
  <2>3. \A k : ~LeavingFrom(c, s, k)
    BY <2>1 DEF LeavingFrom
  <2>4. ASSUME NEW k, ComingTo(c, s, k) PROVE FALSE
    <3>1. c.op \in {"create", "rename"} /\ c.op # "put" /\ Target(c).adm = s
      BY <2>4 DEF ComingTo
    <3>2. Placing(c) /\ Target(c).typ = Klasse
      BY <1>1, <3>1 DEF Knows, KnowsKlasse, Placing, Telling
    <3> QED
      BY <1>1, <2>1, <3>1, <3>2 DEF Knows, KnowsSchool
  <2>5. Untouched(orga, orga', s)
    BY <1>2 DEF Untouched
  <2> QED
    BY <1>2, <1>5, <2>1, <2>2, <2>3, <2>4, <2>5, MirrorOf
<1> QED
  BY <1>2, <1>3, <1>4, <1>5, MirrorStep

LEMMA MirrorSend == ASSUME Inv, SitesInv, MirrorInv, NEW r \in Requests, Send(r) PROVE MirrorInv'
<1> DEFINE c == call[r]
<1>1. Busy(r) /\ c.pc = "send" /\ Refuse(r)
  BY DEF Send, Busy
<1>2. c.op \in {"create", "rename", "delete", "enable"}
  BY <1>1 DEF MirrorInv, Knows, KnowsKlasse, Telling
<1>3. CASE groups' = Sent(r) /\ UNCHANGED missed
  <2>1. CASE c.op = "enable"
    BY <1>1, <1>3, <2>1, MirrorSendEnabled DEF Sent
  <2>2. CASE c.op = "delete"
    BY <1>1, <1>3, <2>2, MirrorSendDeleted DEF Sent
  <2>3. CASE c.op \in {"create", "rename"}
    <3>1. c.op # "enable" /\ c.op # "delete"
      BY <2>3
    <3> QED
      BY <1>1, <1>3, <2>3, <3>1, MirrorSendKlasse DEF Sent
  <2> QED
    BY <1>2, <2>1, <2>2, <2>3
<1>4. CASE missed' = missed \cup c.sites /\ UNCHANGED groups
  BY <1>1, <1>4, MirrorSendFails
<1> QED
  BY <1>3, <1>4 DEF Send

LEMMA MirrorInductive == ASSUME Inv, SitesInv, MirrorInv, [Next]_vars PROVE MirrorInv'
<1>1. CASE UNCHANGED vars
  <2>1. UNCHANGED <<orga, call, raced, groups, missed>>
    BY <1>1 DEF vars
  <2> QED
    BY SMTT(30), <2>1 DEF MirrorInv, Busy, HomesIn, ParentsIn, SchoolIn, Knows, KnowsSchool, KnowsKlasse, KnowsGroups,
       KlassenIn, Mirrored, Coming, Leaving, Opening, EnabledIn
<1>2. ASSUME NEW r \in Requests, Register(r) PROVE MirrorInv'
  <2>1. UNCHANGED groups /\ Told(r) /\ Step(r)
    BY <1>2 DEF Register, itslearning
  <2>2. ~(Busy(r) /\ call[r].op = "put") \/ UNCHANGED orga => UNCHANGED missed
    BY <2>1 DEF Told, Busy
  <2>3. CASE Ask(r)
    <3>1. UNCHANGED orga
      BY <2>3, Beginning DEF Starts
    <3> QED
      BY <2>1, <2>2, <2>3, <3>1, MirrorAsk
  <2>4. ASSUME Refuse(r), Busy(r), ~Telling(call[r]) PROVE MirrorInv'
    <3>1. Moves(r, Idle) /\ UNCHANGED <<groups, missed>>
      BY <2>1, <2>2, <2>4 DEF Refuse, Moves
    <3> QED
      BY <2>4, <3>1, MirrorQuiet
  <2>5. ~Ask(r) => Busy(r) /\ ~Telling(call[r])
    BY <2>1 DEF Step, LoadCreate, LoadRename, LoadDelete, LoadOther, CheckName, CheckMove, Insert,
       Remove, Update, At, Busy, Telling
  <2>6. CASE ~Ask(r) /\ ~Refuse(r)
    <3>1. CASE LoadCreate(r) \/ LoadRename(r) \/ LoadDelete(r) \/ LoadOther(r)
      <4>1. UNCHANGED orga
        BY <3>1 DEF LoadCreate, LoadRename, LoadDelete, LoadOther, Go, Read, Refuse
      <4> QED
        BY <2>1, <2>2, <2>6, <3>1, <4>1, MirrorLoad
    <3>2. CASE CheckName(r) \/ CheckMove(r)
      <4>1. UNCHANGED orga
        BY <3>2 DEF CheckName, CheckMove, Refuse
      <4> QED
        BY <2>1, <2>2, <2>6, <3>2, <4>1, MirrorCheck
    <3>3. CASE Insert(r)
      <4>1. call[r].op # "put"
        BY <3>3 DEF Insert, At
      <4> QED
        BY <2>1, <2>2, <3>3, <4>1, MirrorInsert
    <3>4. CASE Remove(r)
      <4>1. call[r].op # "put"
        BY <3>4 DEF Remove, At
      <4> QED
        BY <2>1, <2>2, <2>6, <3>4, <4>1, MirrorRemove
    <3>5. CASE Update(r)
      BY <2>1, <2>6, <3>5, MirrorUpdate
    <3> QED
      BY <2>1, <2>6, <3>1, <3>2, <3>3, <3>4, <3>5 DEF Step
  <2> QED
    BY <2>3, <2>4, <2>5, <2>6
<1> QED
  BY <1>1, <1>2, MirrorHandle, MirrorSend DEF Next

LEMMA InitMirror == ASSUME GroupsInit PROVE MirrorInv
<1>1. /\ groups = [id \in Ids |->
           IF IsSchool(id) /\ orga[id].its THEN [parent |-> Root, name |-> orga[id].name]
           ELSE IF IsKlasse(id) /\ orga[orga[id].adm].its
                THEN [parent |-> orga[id].adm, name |-> orga[id].name]
                ELSE NoGroup]
      /\ raced = {} /\ missed = {}
  BY DEF GroupsInit, Init
<1>2. \A r \in Requests : ~Busy(r)
  BY DEF GroupsInit, Init, Busy
<1>3. \A k \in Ids : IsKlasse(k) => SchoolIn(orga, orga[k].adm)
  <2> SUFFICES ASSUME NEW k \in Ids, IsKlasse(k) PROVE SchoolIn(orga, orga[k].adm)
    OBVIOUS
  <2>1. orga[k] \in First(Klasse, Schools, Names)
    BY TypsDiffer DEF GroupsInit, Init, First, IsKlasse
  <2>2. orga[k].adm \in Schools
    BY <2>1 DEF First
  <2>3. IsSchool(orga[k].adm)
    BY <2>2 DEF GroupsInit, Init, Ids
  <2> QED
    BY <2>3 DEF IsSchool, SchoolIn
<1>4. HomesIn(orga)
  BY <1>3 DEF HomesIn, IsKlasse
<1>5. "none" \notin Ids /\ Root \notin Ids /\ Root # "none"
  BY GroupsAssumption DEF Root
<1>6. ASSUME NEW k \in Ids
      PROVE  \/ /\ IsSchool(k) /\ orga[k].its /\ groups[k].parent = Root
                /\ groups[k] = [parent |-> Root, name |-> orga[k].name]
             \/ /\ ~(IsSchool(k) /\ orga[k].its) /\ IsKlasse(k) /\ orga[orga[k].adm].its
                /\ groups[k].parent = orga[k].adm
                /\ groups[k] = [parent |-> orga[k].adm, name |-> orga[k].name]
             \/ /\ ~(IsSchool(k) /\ orga[k].its) /\ ~(IsKlasse(k) /\ orga[orga[k].adm].its)
                /\ groups[k].parent = "none"
  <2>1. groups[k] = IF IsSchool(k) /\ orga[k].its THEN [parent |-> Root, name |-> orga[k].name]
                    ELSE IF IsKlasse(k) /\ orga[orga[k].adm].its
                         THEN [parent |-> orga[k].adm, name |-> orga[k].name]
                         ELSE NoGroup
    BY <1>1
  <2>2. CASE IsSchool(k) /\ orga[k].its
    <3>1. groups[k] = [parent |-> Root, name |-> orga[k].name]
      BY <2>1, <2>2
    <3> QED
      BY <2>2, <3>1
  <2>3. CASE ~(IsSchool(k) /\ orga[k].its) /\ IsKlasse(k) /\ orga[orga[k].adm].its
    <3>1. groups[k] = [parent |-> orga[k].adm, name |-> orga[k].name]
      BY <2>1, <2>3
    <3> QED
      BY <2>3, <3>1
  <2>4. CASE ~(IsSchool(k) /\ orga[k].its) /\ ~(IsKlasse(k) /\ orga[orga[k].adm].its)
    <3>1. groups[k].parent = "none"
      BY <2>1, <2>4 DEF NoGroup
    <3> QED
      BY <2>4, <3>1
  <2> QED
    BY <2>2, <2>3, <2>4
<1>7. ParentsIn(orga, groups)
  <2> SUFFICES ASSUME NEW k \in Ids PROVE groups[k].parent \in {"none", Root} \/ SchoolIn(orga, groups[k].parent)
    BY DEF ParentsIn
  <2> QED
    BY <1>3, <1>6
<1>8. ASSUME NEW s \in Ids, SchoolIn(orga, s) PROVE Mirrored(orga, groups, call, s)
  <2>1. IsSchool(s) /\ \A k \in Ids : ~(IsKlasse(k) /\ IsSchool(k))
    BY <1>8, TypsDiffer DEF IsSchool, SchoolIn, IsKlasse
  <2>2. ASSUME NEW k \in Ids, groups[k].parent = s PROVE orga[s].its /\ k \in KlassenIn(orga, s)
    <3>1. s \in Ids /\ s # Root /\ s # "none"
      BY <1>5, <1>8
    <3>2. IsKlasse(k) /\ orga[k].adm = s /\ orga[orga[k].adm].its
      BY <1>6, <2>2, <3>1
    <3> QED
      BY <3>2 DEF KlassenIn, IsKlasse
  <2>3. ASSUME orga[s].its
        PROVE  /\ groups[s] = [parent |-> Root, name |-> orga[s].name]
               /\ \A k \in KlassenIn(orga, s) : groups[k] = [parent |-> s, name |-> orga[k].name]
    <3>1. groups[s] = [parent |-> Root, name |-> orga[s].name]
      BY <1>6, <2>1, <2>3
    <3>2. ASSUME NEW k \in KlassenIn(orga, s) PROVE groups[k] = [parent |-> s, name |-> orga[k].name]
      <4>1. k \in Ids /\ IsKlasse(k) /\ orga[k].adm = s
        BY DEF KlassenIn, IsKlasse
      <4> QED
        BY <1>6, <2>1, <2>3, <4>1
    <3> QED
      BY <3>1, <3>2
  <2> QED
    BY <2>2, <2>3 DEF Mirrored, EnabledIn
<1>9. groups = [k \in Ids |-> groups[k]]
  BY <1>1
<1> QED
  BY <1>2, <1>4, <1>7, <1>8, <1>9 DEF MirrorInv

\* Where no requests overlapped, no call failed and nothing was PUT, itslearning
\* has exactly the Klassen of every enabled public school, under their names,
\* whatever the handlers read from the identity map of their request.
THEOREM MirrorHolds == Spec => []MirrorAlone
<1>1. GroupsInit => Inv /\ SitesInv /\ MirrorInv
  BY InitInv, InitSites, InitMirror
<1>2. Inv /\ SitesInv /\ MirrorInv /\ [Next]_vars => Inv' /\ SitesInv' /\ MirrorInv'
  BY InvInductive, SitesInductive, MirrorInductive
<1>3. MirrorInv => MirrorAlone
  <2> SUFFICES ASSUME MirrorInv, NEW s \in Ids, IsSchool(s), Quiet(s), s \notin raced \cup missed,
                      orga[s].its, Zuordnung(orga[s].adm) = "OEFFENTLICH"
               PROVE  /\ groups[s].parent = Root /\ groups[s].name = orga[s].name
                      /\ {k \in Ids : groups[k].parent = s} = KlassenOf(s)
                      /\ \A k \in KlassenOf(s) : groups[k].name = orga[k].name
    BY DEF MirrorAlone
  <2>1. ASSUME NEW r \in Requests, Busy(r), NEW k
        PROVE  ~ComingTo(call[r], s, k) /\ ~LeavingFrom(call[r], s, k) /\ ~OpeningOf(call[r], s)
    <3> DEFINE c == call[r]
    <3>1. s \notin c.sites /\ Knows(c, orga, missed, raced \cup missed)
      BY <2>1 DEF Quiet, MirrorInv
    <3>2. ~LeavingFrom(c, s, k)
      BY <3>1 DEF LeavingFrom
    <3>3. ~OpeningOf(c, s)
      BY <3>1 DEF OpeningOf, Knows, KnowsSchool
    <3>4. ASSUME ComingTo(c, s, k) PROVE FALSE
      <4>1. c.op \in {"create", "rename"} /\ c.op # "put" /\ Target(c).adm = s
        BY <3>4 DEF ComingTo
      <4>2. Placing(c) /\ Target(c).typ = Klasse
        BY <3>1, <3>4, <4>1 DEF ComingTo, Knows, KnowsKlasse, Placing, Telling
      <4> QED
        BY <3>1, <4>1, <4>2 DEF Knows, KnowsSchool
    <3> QED
      BY <3>2, <3>3, <3>4
  <2>2. ~Opening(call, s) /\ \A k : ~Coming(call, s, k) /\ ~Leaving(call, s, k)
    BY <2>1 DEF Opening, Coming, Leaving, Busy
  <2>3. Mirrored(orga, groups, call, s) /\ KlassenOf(s) = KlassenIn(orga, s)
    BY DEF MirrorInv, IsSchool, SchoolIn, KlassenOf, KlassenIn, IsKlasse
  <2>4. EnabledIn(orga, s)
    BY DEF EnabledIn
  <2>5. /\ groups[s] = [parent |-> Root, name |-> orga[s].name]
        /\ \A k \in KlassenOf(s) : groups[k] = [parent |-> s, name |-> orga[k].name]
    BY <2>2, <2>3, <2>4 DEF Mirrored
  <2>6. KlassenOf(s) \subseteq Ids
    BY DEF KlassenOf
  <2>7. \A k \in Ids : groups[k].parent = s => k \in KlassenOf(s)
    BY <2>2, <2>3 DEF Mirrored
  <2>8. \A k \in KlassenOf(s) : groups[k].parent = s /\ groups[k].name = orga[k].name
    <3> TAKE k \in KlassenOf(s)
    <3>1. groups[k] = [parent |-> s, name |-> orga[k].name]
      BY <2>5
    <3> QED
      BY <3>1
  <2>9. {k \in Ids : groups[k].parent = s} = KlassenOf(s)
    BY <2>6, <2>7, <2>8
  <2>10. groups[s].parent = Root /\ groups[s].name = orga[s].name
    BY <2>5
  <2> QED
    BY <2>8, <2>9, <2>10
<1> QED
  BY <1>1, <1>2, <1>3, PTL DEF Spec

-----------------------------------------------------------------------------
(* Ranks, roles and memberships.                                           *)

LEMMA MaxOfRanks ==
    ASSUME NEW S \in SUBSET (1 .. 8), S # {} PROVE Max(S) \in S
<1>1. \E x \in S : \A y \in S : x >= y
  <2>1. PICK z \in S : TRUE
    OBVIOUS
  <2>2. CASE \E x \in {6, 7, 8} : x \in S
    <3>1. CASE 8 \in S
      BY <3>1
    <3>2. CASE 8 \notin S /\ 7 \in S
      <4>1. \A y \in S : y <= 7
        BY <3>2
      <4> QED
        BY <3>2, <4>1
    <3>3. CASE 8 \notin S /\ 7 \notin S
      <4>1. \A y \in S : y <= 6
        BY <3>3
      <4> QED
        BY <2>2, <3>3, <4>1
    <3> QED
      BY <3>1, <3>2, <3>3
  <2>3. CASE S \in SUBSET (1 .. 5)
    <3>1. CASE 5 \in S
      BY <2>3, <3>1
    <3>2. CASE 5 \notin S /\ 4 \in S
      <4>1. \A y \in S : y <= 4
        BY <2>3, <3>2
      <4> QED
        BY <3>2, <4>1
    <3>3. CASE 5 \notin S /\ 4 \notin S /\ 3 \in S
      <4>1. \A y \in S : y <= 3
        BY <2>3, <3>3
      <4> QED
        BY <3>3, <4>1
    <3>4. CASE 5 \notin S /\ 4 \notin S /\ 3 \notin S
      <4>1. \A y \in S : y = 1 \/ y = 2
        BY <2>3, <3>4
      <4> QED
        BY <2>1, <4>1
    <3> QED
      BY <3>1, <3>2, <3>3, <3>4
  <2> QED
    BY <2>2, <2>3
<1> QED
  BY <1>1 DEF Max

LEMMA MinOfTwo ==
    ASSUME NEW a \in Nat, NEW b \in Nat
    PROVE  Min({a, b}) \in {a, b} /\ Min({a, b}) <= a
<1>1. \E x \in {a, b} : \A y \in {a, b} : x <= y
  <2>1. CASE a <= b
    BY <2>1
  <2>2. CASE b <= a
    BY <2>2
  <2> QED
    BY <2>1, <2>2
<1>2. Min({a, b}) \in {a, b} /\ \A y \in {a, b} : Min({a, b}) <= y
  BY <1>1 DEF Min
<1> QED
  BY <1>2

LEMMA HighestIsRank ==
    ASSUME NEW rows \in SUBSET Kontexte PROVE Highest(rows) \in 1 .. 8
<1> DEFINE S == {Extern} \cup {RankOf[k.rolle] : k \in rows}
<1>1. S \in SUBSET (1 .. 8) /\ S # {}
  BY PersonAssumption DEF PersonAssumption, Extern
<1> HIDE DEF S
<1>2. Max(S) \in S
  BY <1>1, MaxOfRanks
<1> QED
  BY <1>1, <1>2 DEF Highest, S

LEMMA RoleForTyped ==
    ASSUME NEW kind, NEW rows \in SUBSET Kontexte, NEW its
    PROVE  RoleFor(kind, rows, its) \in 1 .. Sysadmin
<1> DEFINE counted == IF kind = "sync" THEN {k \in rows : k.rolle \in Serving}
                                       ELSE Relevant(rows, its)
<1>1. counted \in SUBSET Kontexte
  BY DEF Relevant
<1> HIDE DEF counted
<1>2. Highest(counted) \in 1 .. 8
  BY <1>1, HighestIsRank
<1>3. Min({Sysadmin, Highest(counted)}) \in 1 .. Sysadmin
  BY <1>2, MinOfTwo DEF Sysadmin
<1> QED
  BY <1>3 DEF RoleFor, counted

LEMMA TargetTyped ==
    ASSUME NEW rows \in SUBSET Kontexte, NEW its, NEW current \in [Groups -> 0 .. 8]
    PROVE  /\ TargetMembers(rows, its, current) \in [Groups -> 0 .. 8]
           /\ TargetMembers(rows, its, current)[RootGroup] <= Lehr
           /\ TargetMembers(rows, its, current)[RootGroup] = 0 <=> current[RootGroup] = 0
<1> DEFINE relevant == Relevant(rows, its)
           here(g) == {k \in relevant : k.orga = g}
<1>1. relevant \in SUBSET Kontexte /\ \A g \in Groups : here(g) \in SUBSET Kontexte
  BY DEF Relevant
<1> HIDE DEF relevant
<1>2. Min({Lehr, Highest(relevant)}) \in 1 .. Lehr
  BY <1>1, HighestIsRank, MinOfTwo DEF Lehr
<1>3. \A g \in Groups : Highest(here(g)) \in 1 .. 8
  BY <1>1, HighestIsRank
<1>4. TargetMembers(rows, its, current) =
        [g \in Groups |-> IF g = RootGroup
            THEN IF current[RootGroup] = 0 THEN 0 ELSE Min({Lehr, Highest(relevant)})
            ELSE IF here(g) = {} THEN 0 ELSE Highest(here(g))]
  BY DEF TargetMembers, relevant
<1> HIDE DEF here
<1>5. RootGroup \in Groups
  BY DEF Groups
<1> QED
  BY <1>2, <1>3, <1>4, <1>5 DEF Lehr

\* Of the memberships a person has, only whether it is at the root counts.
LEMMA TargetSame ==
    ASSUME NEW rows, NEW its, NEW m, NEW n, m[RootGroup] = 0 <=> n[RootGroup] = 0
    PROVE  TargetMembers(rows, its, m) = TargetMembers(rows, its, n)
<1> DEFINE relevant == Relevant(rows, its)
           low == Min({Lehr, Highest(relevant)})
           here(g) == {k \in relevant : k.orga = g}
           high(g) == IF here(g) = {} THEN 0 ELSE Highest(here(g))
<1>1. \A c : TargetMembers(rows, its, c) =
        [g \in Groups |-> IF g = RootGroup THEN IF c[RootGroup] = 0 THEN 0 ELSE low ELSE high(g)]
  BY DEF TargetMembers
<1> HIDE DEF low, high
<1> QED
  BY <1>1

-----------------------------------------------------------------------------
(* Types.                                                                  *)

Whole == {"person", "delete", "members", "remove", "create"}
Pcs == {"idle", "read", "load", "rows"} \cup Whole
Kinds == {"none", "update", "rename", "email", "sync"}

\* What runs, or waits to run, with names up to n.
Runs(n) == [pc : Pcs, kind : Kinds, name : 0 .. n, rows : SUBSET Kontexte, its : BOOLEAN,
            role : 0 .. Sysadmin, read : [Groups -> 0 .. 8], alone : BOOLEAN]

\* Each kind goes its own way, and the role to be written back was read.
OnItsWay(r) ==
    /\ r.kind = "none" => r.pc = "idle"
    /\ r.kind = "update" => r.pc \in Whole
    /\ r.kind \in {"rename", "email"} => r.pc \in {"read", "person"}
    /\ r.kind \in {"rename", "email"} /\ r.pc = "person" => r.role # 0
    /\ r.kind = "sync" => r.pc \in Whole \cup {"load", "rows"}

Events(n) == {e \in Runs(n) : e.kind \in {"update", "rename", "email"}}

\* Who is in itslearning is in the root groups and has a role there.
EntryOK(p, m, n) ==
    /\ p \in [name : 0 .. n, role : 0 .. Sysadmin]
    /\ m \in [Groups -> 0 .. 8] /\ m[RootGroup] <= Lehr
    /\ IF p = None THEN m = NoMembers ELSE p.role # 0 /\ m[RootGroup] # 0

DbOK ==
    /\ kontexte \in SUBSET Kontexte /\ enabled \in BOOLEAN /\ sound \in BOOLEAN
    /\ fullName \in 1 .. events + 1 /\ update \in 0 .. fullName

CountersOK ==
    events \in 0 .. MaxEvents /\ syncs \in 0 .. MaxSyncs /\ refusals \in 0 .. MaxRefusals

QueueOK == queue \in Seq(Events(fullName)) /\ Len(queue) <= events

RunOK ==
    /\ run \in [Processes -> Runs(fullName)]
    /\ \A p \in Processes : OnItsWay(run[p])
    /\ run["handler"].kind # "sync" /\ run["sync"].kind \in {"none", "sync"}

TypeInv == DbOK /\ CountersOK /\ EntryOK(person, members, fullName) /\ QueueOK /\ RunOK

LEMMA TypeInvImplies == ASSUME TypeInv PROVE PersonsTypeOK
<1>1. MaxEvents \in Nat
  BY PersonAssumption DEF PersonAssumption
<1> QED
  BY <1>1 DEF TypeInv, PersonsTypeOK, DbOK, CountersOK, EntryOK, QueueOK

LEMMA RootInGroups == RootGroup \in Groups /\ NoMembers \in [Groups -> 0 .. 8] /\ NoMembers[RootGroup] = 0
BY DEF Groups, NoMembers

LEMMA IdleTyped == ASSUME NEW n \in Nat PROVE NoRun \in Runs(n) /\ OnItsWay(NoRun)
BY RootInGroups DEF NoRun, Runs, OnItsWay, Pcs, Kinds, Sysadmin

LEMMA EventTyped ==
    ASSUME NEW n \in Nat, NEW kind \in {"update", "rename", "email"}, NEW nm \in 0 .. n,
           NEW rows \in SUBSET Kontexte, NEW its \in BOOLEAN
    PROVE  /\ Event(kind, nm, rows, its) \in Events(n)
           /\ Event(kind, nm, rows, its).kind = kind
           /\ Event(kind, nm, rows, its).name = nm
           /\ Event(kind, nm, rows, its).rows = rows
           /\ Event(kind, nm, rows, its).its = its
<1> DEFINE e == Event(kind, nm, rows, its)
<1>1. NoRun \in Runs(n) /\ e = [NoRun EXCEPT !.kind = kind, !.name = nm, !.rows = rows, !.its = its]
  BY IdleTyped DEF Event
<1>2. e \in Runs(n) /\ e.kind = kind /\ e.name = nm /\ e.rows = rows /\ e.its = its
  <2> HIDE DEF e
  <2>1. kind \in Kinds
    BY DEF Kinds
  <2> QED
    BY <1>1, <2>1 DEF Runs
<1> QED
  BY <1>2 DEF Events

LEMMA FirstTyped ==
    ASSUME NEW rows, NEW its
    PROVE  FirstStep(rows, its) \in {"person", "delete"}
BY DEF FirstStep

\* The next step of a run, which may bring a role and a name or the memberships.
LEMMA RunTyped ==
    ASSUME NEW n \in Nat, NEW r \in Runs(n), NEW pc \in Pcs,
           NEW role \in 0 .. Sysadmin, NEW nm \in 0 .. n, NEW m \in [Groups -> 0 .. 8],
           NEW rows \in SUBSET Kontexte, NEW its \in BOOLEAN, NEW alone \in BOOLEAN
    PROVE  /\ [r EXCEPT !.pc = pc] \in Runs(n)
           /\ [r EXCEPT !.pc = pc, !.role = role, !.name = nm] \in Runs(n)
           /\ [r EXCEPT !.pc = pc, !.read = m] \in Runs(n)
           /\ [r EXCEPT !.pc = pc, !.name = nm] \in Runs(n)
           /\ [r EXCEPT !.rows = rows, !.its = its, !.pc = pc] \in Runs(n)
           /\ [r EXCEPT !.pc = pc, !.alone = alone] \in Runs(n)
           /\ [r EXCEPT !.alone = alone] \in Runs(n)
BY DEF Runs

\* Later names are more.
LEMMA RunsGrow == ASSUME NEW n \in Nat PROVE Runs(n) \subseteq Runs(n + 1) /\ Events(n) \subseteq Events(n + 1)
<1>1. 0 .. n \subseteq 0 .. n + 1
  OBVIOUS
<1>2. Runs(n) \subseteq Runs(n + 1)
  <2> HIDE DEF Pcs, Kinds
  <2> QED
    BY <1>1 DEF Runs
<1> QED
  BY <1>2 DEF Events

LEMMA InitTyped == ASSUME PersonsInit PROVE TypeInv
<1>1. kontexte \in SUBSET Kontexte /\ fullName = 1 /\ events = 0
  BY DEF PersonsInit
<1>2. DbOK /\ CountersOK
  BY <1>1, PersonAssumption DEF PersonsInit, DbOK, CountersOK, PersonAssumption
<1>3. QueueOK
  BY DEF PersonsInit, QueueOK
<1>4. RunOK
  <2>1. NoRun \in Runs(1) /\ OnItsWay(NoRun) /\ NoRun.kind = "none"
    BY IdleTyped DEF NoRun
  <2> QED
    BY <1>1, <2>1 DEF PersonsInit, RunOK, Processes
<1>5. EntryOK(person, members, fullName)
  <2>1. CASE Relevant(kontexte, enabled) = {}
    <3>1. person = None /\ members = NoMembers
      BY <2>1 DEF PersonsInit
    <3> QED
      BY <1>1, <3>1, RootInGroups DEF EntryOK, None, Sysadmin, Lehr
  <2>2. CASE Relevant(kontexte, enabled) # {}
    <3> DEFINE role == RoleFor("update", kontexte, enabled)
               T == TargetMembers(kontexte, enabled, NoMembers)
               low == Min({Lehr, Highest(Relevant(kontexte, enabled))})
    <3>1. person = [name |-> 1, role |-> role] /\ members = [T EXCEPT ![RootGroup] = low]
      BY <2>2 DEF PersonsInit
    <3>2. role \in 1 .. Sysadmin
      BY <1>1, RoleForTyped
    <3>3. low \in 1 .. Lehr
      <4>1. Relevant(kontexte, enabled) \in SUBSET Kontexte
        BY <1>1 DEF Relevant
      <4> QED
        BY <4>1, HighestIsRank, MinOfTwo DEF Lehr
    <3>4. T \in [Groups -> 0 .. 8]
      BY <1>1, TargetTyped, RootInGroups
    <3> HIDE DEF role, T, low
    <3>5. members \in [Groups -> 0 .. 8] /\ members[RootGroup] = low
      BY <3>1, <3>3, <3>4, RootInGroups DEF Lehr
    <3> QED
      BY <1>1, <3>1, <3>2, <3>3, <3>5 DEF EntryOK, None, Lehr
  <2> QED
    BY <2>1, <2>2
<1> QED
  BY <1>2, <1>3, <1>4, <1>5 DEF TypeInv

-----------------------------------------------------------------------------
(* Every step keeps the types.                                             *)

LEMMA RunKept ==
    ASSUME RunOK, fullName \in Nat, NEW p \in Processes, NEW q \in Runs(fullName), OnItsWay(q),
           q.kind = "none" \/ q.kind = run[p].kind,
           run' = [run EXCEPT ![p] = q], fullName' = fullName
    PROVE  RunOK'
<1>1. run' \in [Processes -> Runs(fullName)] /\ run'[p] = q
      /\ \A o \in Processes : o # p => run'[o] = run[o]
  BY DEF RunOK
<1>2. \A o \in Processes : OnItsWay(run'[o])
  BY <1>1 DEF RunOK
<1>3. run'["handler"].kind # "sync" /\ run'["sync"].kind \in {"none", "sync"}
  BY <1>1 DEF RunOK, Processes
<1> QED
  BY <1>1, <1>2, <1>3 DEF RunOK

LEMMA NameIsNat == ASSUME DbOK, CountersOK PROVE fullName \in Nat /\ events \in Nat
BY DEF DbOK, CountersOK

LEMMA RunIsTyped ==
    ASSUME RunOK, NEW p \in Processes
    PROVE  run[p] \in Runs(fullName) /\ OnItsWay(run[p]) /\ run[p].pc \in Pcs
<1>1. run[p] \in Runs(fullName) /\ OnItsWay(run[p])
  BY DEF RunOK
<1> QED
  BY <1>1 DEF Runs

LEMMA EndTyped ==
    ASSUME TypeInv, NEW p \in Processes, run' = [run EXCEPT ![p] = NoRun], fullName' = fullName
    PROVE  RunOK'
<1>1. fullName \in Nat
  BY NameIsNat DEF TypeInv
<1>2. NoRun \in Runs(fullName) /\ OnItsWay(NoRun) /\ NoRun.kind = "none"
  BY <1>1, IdleTyped DEF NoRun
<1> QED
  BY <1>1, <1>2, RunKept DEF TypeInv

LEMMA GoTyped ==
    ASSUME TypeInv, NEW p \in Processes, NEW pc \in Whole, run[p].kind \in {"update", "sync"},
           GoOn(p, pc), fullName' = fullName
    PROVE  RunOK' /\ sound' = sound /\ run'[p].pc = pc /\ run'[p].kind = run[p].kind
<1> DEFINE q == [run[p] EXCEPT !.pc = pc]
<1>1. fullName \in Nat /\ RunOK
  BY NameIsNat DEF TypeInv
<1>2. run[p] \in Runs(fullName)
  BY <1>1, RunIsTyped
<1>3. q \in Runs(fullName) /\ q.kind = run[p].kind /\ q.pc = pc
  BY <1>2 DEF Runs, Pcs
<1>4. OnItsWay(q)
  <2> HIDE DEF q
  <2> QED
    BY <1>3 DEF OnItsWay
<1>5. run' = [run EXCEPT ![p] = q] /\ sound' = sound /\ run'[p] = q
  BY <1>1 DEF GoOn, RunOK
<1> HIDE DEF q
<1> QED
  BY <1>1, <1>3, <1>4, <1>5, RunKept

\* What is unchanged when a run goes on.
Others == UNCHANGED <<db, queue, counters>>

\* What a failure leaves of the types, whatever the run does then.
LEMMA FailRest ==
    ASSUME TypeInv, NEW p, NEW pc, Fail(p, pc), Others
    PROVE  DbOK' /\ QueueOK' /\ EntryOK(person', members', fullName') /\ CountersOK' /\ fullName' = fullName
<1>1. /\ refusals < MaxRefusals /\ refusals' = refusals + 1 /\ sound' = FALSE
      /\ UNCHANGED <<db, queue, counters, entry>>
  BY DEF Fail, Others
<1>2. DbOK' /\ QueueOK' /\ EntryOK(person', members', fullName')
  BY <1>1 DEF TypeInv, db, counters, entry, DbOK, QueueOK
<1>3. CountersOK'
  BY <1>1, PersonAssumption DEF TypeInv, counters, CountersOK, PersonAssumption
<1> QED
  BY <1>1, <1>2, <1>3 DEF db

LEMMA GiveUpTyped ==
    ASSUME TypeInv, NEW p \in Processes, Fail(p, "idle"), Others PROVE TypeInv'
<1>1. run' = [run EXCEPT ![p] = NoRun]
  BY DEF Fail
<1>2. DbOK' /\ QueueOK' /\ EntryOK(person', members', fullName') /\ CountersOK' /\ fullName' = fullName
  BY FailRest
<1> QED
  BY <1>1, <1>2, EndTyped DEF TypeInv

LEMMA ResumeTyped ==
    ASSUME TypeInv, NEW p \in Processes, NEW pc \in Whole, run[p].kind \in {"update", "sync"},
           Fail(p, pc), Others
    PROVE  TypeInv'
<1> DEFINE q == [run[p] EXCEPT !.pc = pc, !.alone = FALSE]
<1>1. DbOK' /\ QueueOK' /\ EntryOK(person', members', fullName') /\ CountersOK' /\ fullName' = fullName
  BY FailRest
<1>2. fullName \in Nat /\ RunOK
  BY NameIsNat DEF TypeInv
<1>3. run[p] \in Runs(fullName)
  BY <1>2, RunIsTyped
<1>4. q \in Runs(fullName) /\ q.kind = run[p].kind /\ q.pc = pc
  BY <1>3 DEF Runs, Pcs
<1>5. OnItsWay(q)
  <2> HIDE DEF q
  <2> QED
    BY <1>4 DEF OnItsWay
<1>6. run' = [run EXCEPT ![p] = q]
  BY DEF Fail, Whole
<1> HIDE DEF q
<1>7. RunOK'
  BY <1>1, <1>2, <1>4, <1>5, <1>6, RunKept
<1> QED
  BY <1>1, <1>7 DEF TypeInv

\* What remains to be shown when a run goes on without a failure.
LEMMA ProceedTyped ==
    ASSUME TypeInv, RunOK', EntryOK(person', members', fullName), sound' \in BOOLEAN,
           refusals' = refusals, Others
    PROVE  TypeInv'
BY DEF TypeInv, Others, db, counters, DbOK, CountersOK, QueueOK

LEMMA FinishSound ==
    ASSUME TypeInv, NEW p \in Processes, Finish(p) PROVE sound' \in BOOLEAN
<1>1. run[p].alone \in BOOLEAN
  BY RunIsTyped DEF TypeInv, Runs
<1> QED
  BY <1>1 DEF TypeInv, DbOK, Finish

LEMMA ReadPersonTyped ==
    ASSUME TypeInv, NEW p \in Processes, ReadPerson(p), Others PROVE TypeInv'
<1>1. CASE Fail(p, "idle")
  BY <1>1, GiveUpTyped
<1>2. CASE person = None /\ Finish(p) /\ UNCHANGED <<entry, refusals>>
  <2>1. RunOK'
    BY <1>2, EndTyped DEF Finish, Others, db
  <2>2. EntryOK(person', members', fullName)
    BY <1>2 DEF TypeInv, entry
  <2>3. sound' \in BOOLEAN
    BY <1>2, FinishSound
  <2> QED
    BY <1>2, <2>1, <2>2, <2>3, ProceedTyped
<1>3. ASSUME person # None, UNCHANGED <<entry, refusals, sound>>,
             NEW nm, nm = IF run[p].kind = "email" THEN person.name ELSE run[p].name,
             run' = [run EXCEPT ![p] =
                [run[p] EXCEPT !.pc = "person", !.role = person.role, !.name = nm]]
      PROVE  TypeInv'
  <2> DEFINE q == [run[p] EXCEPT !.pc = "person", !.role = person.role, !.name = nm]
  <2>1. fullName \in Nat /\ RunOK /\ run[p] \in Runs(fullName) /\ OnItsWay(run[p])
    BY NameIsNat, RunIsTyped DEF TypeInv
  <2>2. person.role \in 0 .. Sysadmin /\ person.name \in 0 .. fullName /\ person.role # 0
    BY <1>3 DEF TypeInv, EntryOK
  <2>3. nm \in 0 .. fullName
    BY <1>3, <2>1, <2>2 DEF Runs
  <2>4. q \in Runs(fullName) /\ q.kind = run[p].kind /\ q.pc = "person" /\ q.role = person.role
    BY <2>1, <2>2, <2>3 DEF Runs, Pcs, Whole
  <2>5. OnItsWay(q)
    <3>1. run[p].pc = "read"
      BY DEF ReadPerson, Stands
    <3>2. run[p].kind \in {"rename", "email"}
      BY <2>1, <3>1 DEF OnItsWay, Whole, Runs, Kinds
    <3> HIDE DEF q
    <3> QED
      BY <2>2, <2>4, <3>2 DEF OnItsWay
  <2>6. run' = [run EXCEPT ![p] = q] /\ fullName' = fullName
    BY <1>3 DEF Others, db
  <2> HIDE DEF q
  <2>7. RunOK'
    BY <2>1, <2>4, <2>5, <2>6, RunKept
  <2>8. EntryOK(person', members', fullName) /\ sound' \in BOOLEAN
    BY <1>3 DEF TypeInv, entry, DbOK
  <2> QED
    BY <1>3, <2>7, <2>8, ProceedTyped
<1> QED
  BY <1>1, <1>2, <1>3 DEF ReadPerson

LEMMA SendPersonTyped ==
    ASSUME TypeInv, NEW p \in Processes, SendPerson(p), Others PROVE TypeInv'
<1> DEFINE r == run[p]
           whole == r.kind \in {"update", "sync"}
           role == IF whole THEN RoleFor(r.kind, r.rows, r.its) ELSE r.role
<1>1. CASE Fail(p, IF r.kind = "update" THEN "members" ELSE "idle")
  <2>1. CASE r.kind = "update"
    <3>1. Fail(p, "members")
      BY <1>1, <2>1
    <3> QED
      BY <2>1, <3>1, ResumeTyped DEF Whole
  <2>2. CASE r.kind # "update"
    <3>1. Fail(p, "idle")
      BY <1>1, <2>2
    <3> QED
      BY <3>1, GiveUpTyped
  <2> QED
    BY <2>1, <2>2
<1>2. CASE /\ PutPerson([name |-> r.name, role |-> role])
           /\ IF whole THEN GoOn(p, "members") ELSE Finish(p)
           /\ UNCHANGED refusals
  <2>1. RunOK /\ r \in Runs(fullName) /\ OnItsWay(r) /\ r.pc = "person"
    BY RunIsTyped DEF TypeInv, SendPerson, Stands
  <2>2. fullName' = fullName
    BY DEF Others, db
  <2>3. RunOK' /\ sound' \in BOOLEAN
    <3>1. CASE whole
      <4>1. GoOn(p, "members")
        BY <1>2, <3>1
      <4> QED
        BY <2>2, <3>1, <4>1, GoTyped DEF Whole, TypeInv, DbOK
    <3>2. CASE ~whole
      BY <1>2, <2>2, <3>2, EndTyped, FinishSound DEF Finish
    <3> QED
      BY <3>1, <3>2
  <2>4. role \in 1 .. Sysadmin
    <3>1. CASE whole
      <4>1. r.rows \in SUBSET Kontexte
        BY <2>1 DEF Runs
      <4> QED
        BY <3>1, <4>1, RoleForTyped
    <3>2. CASE ~whole
      <4>1. r.kind \in {"rename", "email"} /\ r.role \in 0 .. Sysadmin
        BY <2>1, <3>2 DEF OnItsWay, Runs, Kinds
      <4> QED
        BY <2>1, <3>2, <4>1 DEF OnItsWay, Sysadmin
    <3> QED
      BY <3>1, <3>2
  <2>5. r.name \in 0 .. fullName
    BY <2>1 DEF Runs
  <2> HIDE DEF role
  <2>6. person' = [name |-> r.name, role |-> role]
        /\ members' = IF person = None THEN [members EXCEPT ![RootGroup] = Extern] ELSE members
    BY <1>2 DEF PutPerson
  <2>7. members' \in [Groups -> 0 .. 8] /\ members'[RootGroup] <= Lehr /\ members'[RootGroup] # 0
    BY <2>6, RootInGroups DEF TypeInv, EntryOK, Extern, Lehr
  <2>8. EntryOK(person', members', fullName)
    <3>1. person' # None /\ person'.role # 0 /\ person' \in [name : 0 .. fullName, role : 0 .. Sysadmin]
      BY <2>4, <2>5, <2>6 DEF None, Sysadmin
    <3> QED
      BY <2>7, <3>1 DEF EntryOK
  <2> QED
    BY <1>2, <2>3, <2>8, ProceedTyped
<1> QED
  BY <1>1, <1>2 DEF SendPerson

LEMMA DeletePersonTyped ==
    ASSUME TypeInv, NEW p \in Processes, DeletePerson(p), Others PROVE TypeInv'
<1>1. CASE Fail(p, "idle")
  BY <1>1, GiveUpTyped
<1>2. CASE RemovePerson /\ Finish(p) /\ UNCHANGED refusals
  <2>1. RunOK' /\ sound' \in BOOLEAN
    BY <1>2, EndTyped, FinishSound DEF Finish, Others, db
  <2>2. EntryOK(person', members', fullName)
    <3>1. person' = None /\ members' = NoMembers
      BY <1>2 DEF RemovePerson
    <3>2. fullName \in Nat
      BY NameIsNat DEF TypeInv
    <3> QED
      BY <3>1, <3>2, RootInGroups DEF EntryOK, None, Sysadmin, Lehr
  <2> QED
    BY <1>2, <2>1, <2>2, ProceedTyped
<1> QED
  BY <1>1, <1>2 DEF DeletePerson

LEMMA ReadMembersTyped ==
    ASSUME TypeInv, NEW p \in Processes, ReadMembers(p), Others PROVE TypeInv'
<1>1. CASE Fail(p, "idle")
  BY <1>1, GiveUpTyped
<1>2. CASE /\ run' = [run EXCEPT ![p] = [run[p] EXCEPT !.pc = "remove", !.read = members]]
           /\ UNCHANGED <<entry, refusals, sound>>
  <2> DEFINE q == [run[p] EXCEPT !.pc = "remove", !.read = members]
  <2>1. fullName \in Nat /\ RunOK /\ run[p] \in Runs(fullName) /\ OnItsWay(run[p])
        /\ run[p].pc = "members"
    BY NameIsNat, RunIsTyped DEF TypeInv, ReadMembers, Stands
  <2>2. q \in Runs(fullName) /\ q.kind = run[p].kind /\ q.pc = "remove"
    BY <2>1 DEF Runs, Pcs, Whole, TypeInv, EntryOK
  <2>3. OnItsWay(q)
    <3> HIDE DEF q
    <3> QED
      BY <2>1, <2>2 DEF OnItsWay, Whole
  <2>4. run' = [run EXCEPT ![p] = q] /\ fullName' = fullName
    BY <1>2 DEF Others, db
  <2> HIDE DEF q
  <2>5. RunOK'
    BY <2>1, <2>2, <2>3, <2>4, RunKept
  <2>6. EntryOK(person', members', fullName) /\ sound' \in BOOLEAN
    BY <1>2 DEF TypeInv, entry, DbOK
  <2> QED
    BY <1>2, <2>5, <2>6, ProceedTyped
<1> QED
  BY <1>1, <1>2 DEF ReadMembers

\* Who works on memberships has a whole person to send.
LEMMA MembersKind ==
    ASSUME RunOK, NEW p \in Processes, run[p].pc \in {"members", "remove", "create"}
    PROVE  run[p].kind \in {"update", "sync"}
<1>1. run[p] \in Runs(fullName) /\ OnItsWay(run[p])
  BY RunIsTyped
<1> QED
  BY <1>1 DEF OnItsWay, Runs, Kinds

\* The memberships a run wants.
LEMMA WantedTyped ==
    ASSUME RunOK, NEW p \in Processes
    PROVE  /\ WantedMembers(p) \in [Groups -> 0 .. 8] /\ WantedMembers(p)[RootGroup] <= Lehr
           /\ WantedMembers(p)[RootGroup] = 0 <=> run[p].read[RootGroup] = 0
<1>1. run[p].rows \in SUBSET Kontexte /\ run[p].read \in [Groups -> 0 .. 8]
  BY RunIsTyped DEF Runs
<1> QED
  BY <1>1, TargetTyped DEF WantedMembers

\* Memberships in which nobody leaves the root groups.
LEMMA SetMembersTyped ==
    ASSUME TypeInv, NEW m \in [Groups -> 0 .. 8], m[RootGroup] <= Lehr,
           m[RootGroup] = 0 => members[RootGroup] = 0, SetMembers(m)
    PROVE  EntryOK(person', members', fullName)
<1>1. CASE person = None
  BY <1>1 DEF TypeInv, EntryOK, SetMembers
<1>2. CASE person # None
  BY <1>2 DEF TypeInv, EntryOK, SetMembers
<1> QED
  BY <1>1, <1>2

LEMMA RemoveMembersTyped ==
    ASSUME TypeInv, NEW p \in Processes, RemoveMembers(p), Others PROVE TypeInv'
<1> DEFINE gone == {g \in Groups : run[p].read[g] # 0 /\ WantedMembers(p)[g] = 0}
           m == [g \in Groups |-> IF g \in gone THEN 0 ELSE members[g]]
<1>1. RunOK /\ run[p].kind \in {"update", "sync"}
  BY MembersKind DEF TypeInv, RemoveMembers, Stands
<1>2. CASE Fail(p, "create")
  BY <1>1, <1>2, ResumeTyped DEF Whole
<1>3. CASE SetMembers(m) /\ GoOn(p, "create") /\ UNCHANGED refusals
  <2>1. RunOK' /\ sound' \in BOOLEAN
    <3>1. fullName' = fullName
      BY DEF Others, db
    <3> QED
      BY <1>1, <1>3, <3>1, GoTyped DEF Whole, TypeInv, DbOK
  <2>2. RootGroup \notin gone
    BY <1>1, WantedTyped
  <2>3. members \in [Groups -> 0 .. 8] /\ members[RootGroup] <= Lehr
    BY DEF TypeInv, EntryOK
  <2> HIDE DEF gone
  <2>4. m \in [Groups -> 0 .. 8] /\ m[RootGroup] = members[RootGroup]
    BY <2>2, <2>3, RootInGroups
  <2> HIDE DEF m
  <2>5. EntryOK(person', members', fullName)
    BY <1>3, <2>3, <2>4, SetMembersTyped
  <2> QED
    BY <1>3, <2>1, <2>5, ProceedTyped
<1> QED
  BY <1>2, <1>3 DEF RemoveMembers

LEMMA CreateMembersTyped ==
    ASSUME TypeInv, NEW p \in Processes, CreateMembers(p), Others PROVE TypeInv'
<1> DEFINE W == WantedMembers(p)
           m == [g \in Groups |-> IF W[g] # 0 THEN W[g] ELSE members[g]]
<1>1. CASE Fail(p, "idle")
  BY <1>1, GiveUpTyped
<1>2. CASE SetMembers(m) /\ Finish(p) /\ UNCHANGED refusals
  <2>1. RunOK' /\ sound' \in BOOLEAN
    BY <1>2, EndTyped, FinishSound DEF Finish, Others, db
  <2>2. W \in [Groups -> 0 .. 8] /\ W[RootGroup] <= Lehr
    BY WantedTyped DEF TypeInv
  <2>3. members \in [Groups -> 0 .. 8] /\ members[RootGroup] <= Lehr
    BY DEF TypeInv, EntryOK
  <2> HIDE DEF W
  <2>4. m \in [Groups -> 0 .. 8] /\ m[RootGroup] = IF W[RootGroup] # 0 THEN W[RootGroup] ELSE members[RootGroup]
    BY <2>2, <2>3, RootInGroups
  <2> HIDE DEF m
  <2>5. EntryOK(person', members', fullName)
    BY <1>2, <2>2, <2>3, <2>4, SetMembersTyped
  <2> QED
    BY <1>2, <2>1, <2>5, ProceedTyped
<1> QED
  BY <1>1, <1>2 DEF CreateMembers

LEMMA ProceedsTyped ==
    ASSUME TypeInv, NEW p \in Processes, Proceed(p) PROVE TypeInv'
<1>1. Others
  BY DEF Proceed, Others
<1> QED
  BY <1>1, ReadPersonTyped, SendPersonTyped, DeletePersonTyped, ReadMembersTyped,
     RemoveMembersTyped, CreateMembersTyped DEF Proceed

\* An event is published, with the database as it is then.
LEMMA PublishTyped ==
    ASSUME QueueOK, events \in Nat, fullName \in Nat, fullName' \in {fullName, fullName + 1},
           events' = events + 1, NEW e \in Events(fullName'), Publish(e)
    PROVE  QueueOK'
<1>1. Events(fullName) \subseteq Events(fullName')
  BY RunsGrow
<1>2. queue \in Seq(Events(fullName'))
  BY <1>1 DEF QueueOK
<1>3. queue' = Append(queue, e)
  BY DEF Publish
<1> QED
  BY <1>2, <1>3 DEF QueueOK

LEMMA DisturbTyped ==
    ASSUME TypeInv, fullName' \in {fullName, fullName + 1}, Disturb
    PROVE  /\ RunOK' /\ CountersOK' /\ events' = events + 1
           /\ EntryOK(person', members', fullName')
           /\ run'["handler"] = run["handler"]
           /\ run'["sync"] = [run["sync"] EXCEPT !.alone = FALSE]
<1> DEFINE q == [run["sync"] EXCEPT !.alone = FALSE]
<1>1. fullName \in Nat /\ events \in Nat /\ RunOK /\ "sync" \in Processes /\ "handler" \in Processes
  BY NameIsNat DEF TypeInv, Processes
<1>2. run["sync"] \in Runs(fullName)
  BY <1>1, RunIsTyped
<1>3. q \in Runs(fullName) /\ q.kind = run["sync"].kind /\ q.pc = run["sync"].pc
      /\ q.role = run["sync"].role
  BY <1>2 DEF Runs
<1>4. OnItsWay(q)
  <2>1. OnItsWay(run["sync"])
    BY <1>1, RunIsTyped
  <2> HIDE DEF q
  <2> QED
    BY <1>3, <2>1 DEF OnItsWay
<1>5. run' = [run EXCEPT !["sync"] = q]
  BY DEF Disturb
<1>6. run' \in [Processes -> Runs(fullName)] /\ run'["sync"] = q /\ run'["handler"] = run["handler"]
  <2> HIDE DEF q
  <2> QED
    BY <1>1, <1>3, <1>5 DEF RunOK, Processes
<1> HIDE DEF q
<1>7. RunOK'
  <2>1. Runs(fullName) \subseteq Runs(fullName')
    BY <1>1, RunsGrow
  <2>2. \A p \in Processes : OnItsWay(run'[p])
    BY <1>1, <1>4, <1>6 DEF RunOK, Processes
  <2> QED
    BY <1>1, <1>3, <1>6, <2>1, <2>2 DEF RunOK
<1>8. CountersOK' /\ events' = events + 1
  BY PersonAssumption DEF TypeInv, Disturb, CountersOK, PersonAssumption
<1>9. EntryOK(person', members', fullName')
  BY <1>1 DEF TypeInv, Disturb, entry, EntryOK
<1> QED
  BY <1>6, <1>7, <1>8, <1>9 DEF q

LEMMA UpdateTyped == ASSUME TypeInv, UpdateRows PROVE TypeInv'
<1>1. kontexte' \in SUBSET Kontexte
  BY DEF TypeInv, DbOK, UpdateRows
<1>2. fullName \in Nat /\ events \in Nat /\ update \in 0 .. fullName /\ enabled \in BOOLEAN
      /\ fullName' = fullName /\ enabled' = enabled /\ update' = 0 /\ sound' \in BOOLEAN
  BY NameIsNat DEF TypeInv, DbOK, UpdateRows
<1>3. Disturb /\ Publish(Event("update", update, kontexte', enabled))
  BY DEF UpdateRows
<1>4. RunOK' /\ CountersOK' /\ events' = events + 1 /\ EntryOK(person', members', fullName')
  BY <1>2, <1>3, DisturbTyped
<1>5. Event("update", update, kontexte', enabled) \in Events(fullName')
  BY <1>1, <1>2, EventTyped
<1>6. QueueOK'
  BY <1>2, <1>3, <1>4, <1>5, PublishTyped DEF TypeInv
<1>7. DbOK'
  BY <1>1, <1>2, <1>4 DEF TypeInv, DbOK
<1> QED
  BY <1>4, <1>6, <1>7 DEF TypeInv

LEMMA RenameTyped == ASSUME TypeInv, RenamePerson PROVE TypeInv'
<1>1. fullName \in Nat /\ events \in Nat /\ fullName' = fullName + 1 /\ sound' \in BOOLEAN
      /\ UNCHANGED <<kontexte, enabled, update>>
  BY NameIsNat DEF TypeInv, DbOK, RenamePerson
<1>2. Disturb /\ Publish(Event("rename", fullName + 1, {}, FALSE))
  BY DEF RenamePerson
<1>3. RunOK' /\ CountersOK' /\ events' = events + 1 /\ EntryOK(person', members', fullName')
  BY <1>1, <1>2, DisturbTyped
<1>4. Event("rename", fullName + 1, {}, FALSE) \in Events(fullName')
  <2>1. fullName' \in Nat /\ fullName + 1 \in 0 .. fullName'
    BY <1>1
  <2>2. {} \in SUBSET Kontexte /\ FALSE \in BOOLEAN /\ "rename" \in {"update", "rename", "email"}
    OBVIOUS
  <2> QED
    BY <2>1, <2>2, EventTyped
<1>5. QueueOK'
  BY <1>1, <1>2, <1>3, <1>4, PublishTyped DEF TypeInv
<1>6. DbOK'
  BY <1>1, <1>3 DEF TypeInv, DbOK
<1> QED
  BY <1>3, <1>5, <1>6 DEF TypeInv

LEMMA NewAddressTyped == ASSUME TypeInv, NewAddress PROVE TypeInv'
<1>1. fullName \in Nat /\ events \in Nat /\ sound' \in BOOLEAN /\ fullName' = fullName
      /\ UNCHANGED <<kontexte, enabled, update>>
  BY NameIsNat DEF TypeInv, DbOK, NewAddress, db
<1>2. Disturb /\ Publish(Event("email", 0, {}, FALSE))
  BY DEF NewAddress
<1>3. RunOK' /\ CountersOK' /\ events' = events + 1 /\ EntryOK(person', members', fullName')
  BY <1>1, <1>2, DisturbTyped
<1>4. Event("email", 0, {}, FALSE) \in Events(fullName')
  <2>1. fullName' \in Nat /\ 0 \in 0 .. fullName'
    BY <1>1
  <2>2. {} \in SUBSET Kontexte /\ FALSE \in BOOLEAN /\ "email" \in {"update", "rename", "email"}
    OBVIOUS
  <2> QED
    BY <2>1, <2>2, EventTyped
<1>5. QueueOK'
  BY <1>1, <1>2, <1>3, <1>4, PublishTyped DEF TypeInv
<1>6. DbOK'
  BY <1>1, <1>3 DEF TypeInv, DbOK
<1> QED
  BY <1>3, <1>5, <1>6 DEF TypeInv

LEMMA EnableTyped == ASSUME TypeInv, EnableSchool PROVE TypeInv'
<1>1. fullName \in Nat /\ events \in Nat /\ sound' = FALSE /\ fullName' = fullName /\ enabled' = TRUE
      /\ UNCHANGED <<kontexte, update, queue>>
  BY NameIsNat DEF TypeInv, EnableSchool
<1>2. RunOK' /\ CountersOK' /\ events' = events + 1 /\ EntryOK(person', members', fullName')
  BY <1>1, DisturbTyped DEF EnableSchool
<1>3. DbOK'
  <2>1. enabled' \in BOOLEAN /\ sound' \in BOOLEAN
    BY <1>1
  <2>2. fullName' \in 1 .. events' + 1 /\ update' \in 0 .. fullName' /\ kontexte' \in SUBSET Kontexte
    BY <1>1, <1>2 DEF TypeInv, DbOK
  <2> QED
    BY <2>1, <2>2 DEF DbOK
<1>4. QueueOK'
  <2>1. queue \in Seq(Events(fullName)) /\ Len(queue) <= events /\ Len(queue) \in Nat
    BY DEF TypeInv, QueueOK
  <2>2. Len(queue) <= events'
    BY <1>1, <1>2, <2>1
  <2> QED
    BY <1>1, <2>1, <2>2 DEF QueueOK
<1> QED
  BY <1>2, <1>3, <1>4 DEF TypeInv

LEMMA LoadForUpdateTyped == ASSUME TypeInv, LoadForUpdate PROVE TypeInv'
<1>1. UNCHANGED <<kontexte, fullName, enabled, entry, queue, run, counters, refusals, sound>>
      /\ update' = fullName
  BY DEF LoadForUpdate
<1>2. DbOK' /\ CountersOK' /\ QueueOK' /\ RunOK'
  BY <1>1 DEF TypeInv, DbOK, CountersOK, QueueOK, RunOK, counters
<1>3. EntryOK(person, members, fullName)'
  BY <1>1 DEF TypeInv, entry
<1> QED
  BY <1>2, <1>3 DEF TypeInv

\* What Take() does with the head of the queue.
LEMMA TakeDoes ==
    ASSUME TypeInv, Take
    PROVE  \E pc \in {"read", "person", "delete"} :
             /\ queue # <<>> /\ queue \in Seq(Events(fullName)) /\ queue' = Tail(queue)
             /\ Head(queue) \in Events(fullName)
             /\ pc = IF Head(queue).kind # "update" THEN "read"
                     ELSE FirstStep(Head(queue).rows, Head(queue).its)
             /\ run'["handler"] = [Head(queue) EXCEPT !.pc = pc]
             /\ run'["sync"] = [run["sync"] EXCEPT !.alone = FALSE]
             /\ DOMAIN run' = Processes
<1> DEFINE e == Head(queue)
           pc == IF e.kind # "update" THEN "read" ELSE FirstStep(e.rows, e.its)
           y == [run["sync"] EXCEPT !.alone = FALSE]
           h == [e EXCEPT !.pc = pc]
<1>1. queue # <<>> /\ queue' = Tail(queue)
  BY DEF Take
<1>2. queue \in Seq(Events(fullName)) /\ e \in Events(fullName)
  BY <1>1 DEF TypeInv, QueueOK
<1>3. run' = [run EXCEPT !["sync"] = y, !["handler"] = h]
  BY DEF Take
<1>4. pc \in {"read", "person", "delete"}
  BY FirstTyped
<1>5. run'["handler"] = h /\ run'["sync"] = y /\ DOMAIN run' = Processes
  <2> HIDE DEF h, y
  <2> QED
    BY <1>3 DEF TypeInv, RunOK, Processes
<1> QED
  BY <1>1, <1>2, <1>4, <1>5

LEMMA TakeTyped == ASSUME TypeInv, Take PROVE TypeInv'
<1>1. PICK pc \in {"read", "person", "delete"} :
             /\ queue # <<>> /\ queue \in Seq(Events(fullName)) /\ queue' = Tail(queue)
             /\ Head(queue) \in Events(fullName)
             /\ pc = IF Head(queue).kind # "update" THEN "read"
                     ELSE FirstStep(Head(queue).rows, Head(queue).its)
             /\ run'["handler"] = [Head(queue) EXCEPT !.pc = pc]
             /\ run'["sync"] = [run["sync"] EXCEPT !.alone = FALSE]
             /\ DOMAIN run' = Processes
  BY TakeDoes
<1> DEFINE h == [Head(queue) EXCEPT !.pc = pc]
           y == [run["sync"] EXCEPT !.alone = FALSE]
<1>2. /\ UNCHANGED <<db, entry, counters, refusals>> /\ fullName' = fullName
      /\ sound' \in BOOLEAN
  BY DEF Take, TypeInv, DbOK, db
<1>3. h \in Runs(fullName) /\ h.kind = Head(queue).kind /\ h.pc = pc /\ h.kind \notin {"sync", "none"}
  BY <1>1 DEF Events, Runs, Pcs, Whole
<1>4. OnItsWay(h)
  <2>1. h.kind = "update" => pc \in {"person", "delete"}
    BY <1>1, <1>3, FirstTyped
  <2>2. h.kind # "update" => pc = "read"
    BY <1>1, <1>3
  <2> HIDE DEF h
  <2> QED
    BY <1>1, <1>3, <2>1, <2>2 DEF OnItsWay, Whole
<1>5. y \in Runs(fullName) /\ y.kind = run["sync"].kind /\ OnItsWay(y)
  <2>1. run["sync"] \in Runs(fullName) /\ OnItsWay(run["sync"])
    BY RunIsTyped DEF TypeInv, Processes
  <2>2. y \in Runs(fullName) /\ y.kind = run["sync"].kind /\ y.pc = run["sync"].pc
        /\ y.role = run["sync"].role
    BY <2>1 DEF Runs
  <2> HIDE DEF y
  <2> QED
    BY <2>1, <2>2 DEF OnItsWay
<1>6. RunOK'
  <2> HIDE DEF h, y
  <2>1. \A p \in Processes : run'[p] \in Runs(fullName) /\ OnItsWay(run'[p])
    BY <1>1, <1>3, <1>4, <1>5 DEF Processes, h, y
  <2>2. run'["handler"].kind # "sync" /\ run'["sync"].kind \in {"none", "sync"}
    BY <1>1, <1>3, <1>5 DEF TypeInv, RunOK, h, y
  <2>3. run' \in [Processes -> Runs(fullName)]
    <3>1. run' = [p \in Processes |-> run'[p]]
      BY <1>1 DEF Take, TypeInv, RunOK
    <3> QED
      BY <2>1, <3>1
  <2> QED
    BY <1>2, <2>1, <2>2, <2>3 DEF RunOK
<1>7. queue' \in Seq(Events(fullName)) /\ Len(queue') <= Len(queue)
  BY <1>1
<1>8. DbOK' /\ CountersOK' /\ EntryOK(person, members, fullName)'
  BY <1>2 DEF TypeInv, DbOK, CountersOK, db, entry, counters
<1>9. QueueOK'
  <2>1. Len(queue) \in Nat /\ Len(queue') \in Nat /\ Len(queue) <= events /\ events \in Nat
    BY <1>1, <1>7, NameIsNat DEF TypeInv, QueueOK
  <2> QED
    BY <1>2, <1>7, <2>1 DEF QueueOK, counters
<1> QED
  BY <1>6, <1>8, <1>9 DEF TypeInv

LEMMA AskSyncTyped == ASSUME TypeInv, AskSync PROVE TypeInv'
<1> DEFINE alone == queue = <<>> /\ Stands("handler", "idle")
           y == [NoRun EXCEPT !.pc = "load", !.kind = "sync", !.alone = alone]
<1>1. /\ syncs < MaxSyncs /\ syncs' = syncs + 1 /\ run' = [run EXCEPT !["sync"] = y]
      /\ sound' = (sound /\ alone) /\ UNCHANGED <<db, entry, queue, events, refusals>>
  BY DEF AskSync
<1>2. fullName \in Nat /\ RunOK /\ NoRun \in Runs(fullName) /\ alone \in BOOLEAN
  BY NameIsNat, IdleTyped DEF TypeInv
<1> HIDE DEF alone
<1>3. y \in Runs(fullName) /\ y.kind = "sync" /\ y.pc = "load"
  BY <1>2 DEF Runs, Pcs, Kinds
<1> HIDE DEF y
<1>4. OnItsWay(y)
  BY <1>3 DEF OnItsWay
<1>5. run' \in [Processes -> Runs(fullName)] /\ run'["sync"] = y /\ run'["handler"] = run["handler"]
  BY <1>1, <1>2, <1>3 DEF RunOK, Processes
<1>6. RunOK'
  <2>1. \A p \in Processes : OnItsWay(run'[p])
    BY <1>2, <1>4, <1>5 DEF RunOK, Processes
  <2> QED
    BY <1>1, <1>2, <1>3, <1>5, <2>1 DEF RunOK, db
<1>7. CountersOK'
  BY <1>1, PersonAssumption DEF TypeInv, CountersOK, PersonAssumption
<1>8. DbOK' /\ QueueOK' /\ EntryOK(person, members, fullName)'
  BY <1>1, <1>2 DEF TypeInv, DbOK, QueueOK, db, entry
<1> QED
  BY <1>6, <1>7, <1>8 DEF TypeInv

LEMMA LoadPersonTyped == ASSUME TypeInv, LoadPerson PROVE TypeInv'
<1> DEFINE q == [run["sync"] EXCEPT !.pc = "rows", !.name = fullName]
<1>1. fullName \in Nat /\ RunOK /\ "sync" \in Processes
  BY NameIsNat DEF TypeInv, Processes
<1>2. run["sync"] \in Runs(fullName) /\ run["sync"].kind = "sync"
  <2>1. run["sync"] \in Runs(fullName) /\ OnItsWay(run["sync"]) /\ run["sync"].pc = "load"
    BY <1>1, RunIsTyped DEF LoadPerson, Stands
  <2> QED
    BY <2>1 DEF OnItsWay, Runs, Kinds, Whole
<1>3. q \in Runs(fullName) /\ q.kind = "sync" /\ q.pc = "rows"
  <2>1. fullName \in 0 .. fullName /\ "rows" \in Pcs
    BY <1>1 DEF Pcs
  <2> QED
    BY <1>2, <2>1 DEF Runs
<1>4. run' = [run EXCEPT !["sync"] = q] /\ fullName' = fullName
      /\ UNCHANGED <<db, entry, queue, counters, refusals, sound>>
  BY DEF LoadPerson, db
<1> HIDE DEF q
<1>5. OnItsWay(q)
  BY <1>3 DEF OnItsWay
<1>6. RunOK'
  BY <1>1, <1>2, <1>3, <1>4, <1>5, RunKept
<1>7. EntryOK(person', members', fullName) /\ sound' \in BOOLEAN /\ refusals' = refusals /\ Others
  BY <1>4 DEF TypeInv, DbOK, entry, Others
<1> QED
  BY <1>6, <1>7, ProceedTyped

LEMMA LoadRowsTyped == ASSUME TypeInv, LoadRows PROVE TypeInv'
<1> DEFINE pc == FirstStep(kontexte, enabled)
           q == [run["sync"] EXCEPT !.rows = kontexte, !.its = enabled, !.pc = pc]
<1>1. fullName \in Nat /\ RunOK /\ "sync" \in Processes
  BY NameIsNat DEF TypeInv, Processes
<1>2. run["sync"] \in Runs(fullName) /\ run["sync"].kind = "sync"
  <2>1. run["sync"] \in Runs(fullName) /\ OnItsWay(run["sync"]) /\ run["sync"].pc = "rows"
    BY <1>1, RunIsTyped DEF LoadRows, Stands
  <2> QED
    BY <2>1 DEF OnItsWay, Runs, Kinds, Whole
<1>3. pc \in {"person", "delete"} /\ kontexte \in SUBSET Kontexte /\ enabled \in BOOLEAN
  BY FirstTyped DEF TypeInv, DbOK
<1> HIDE DEF pc
<1>4. q \in Runs(fullName) /\ q.kind = "sync" /\ q.pc = pc
  BY <1>1, <1>2, <1>3 DEF Runs, Pcs, Whole
<1>5. run' = [run EXCEPT !["sync"] = q] /\ fullName' = fullName
      /\ UNCHANGED <<db, entry, queue, counters, refusals, sound>>
  BY DEF LoadRows, db, pc
<1> HIDE DEF q
<1>6. OnItsWay(q)
  BY <1>3, <1>4 DEF OnItsWay, Whole
<1>7. RunOK'
  BY <1>1, <1>2, <1>4, <1>5, <1>6, RunKept
<1>8. EntryOK(person', members', fullName) /\ sound' \in BOOLEAN /\ refusals' = refusals /\ Others
  BY <1>5 DEF TypeInv, DbOK, entry, Others
<1> QED
  BY <1>7, <1>8, ProceedTyped

LEMMA StepTyped == ASSUME TypeInv, [PersonsNext]_personsVars PROVE TypeInv'
<1>1. CASE UNCHANGED personsVars
  <2>1. UNCHANGED <<fullName, update, enabled, kontexte, events, syncs, refusals, sound, person,
                    members, queue, run>>
    BY <1>1 DEF personsVars
  <2> QED
    BY <2>1 DEF TypeInv, DbOK, CountersOK, QueueOK, RunOK
<1>2. CASE PersonsNext
  <2>1. "sync" \in Processes /\ "handler" \in Processes
    BY DEF Processes
  <2> QED
    BY <1>2, <2>1, LoadForUpdateTyped, UpdateTyped, RenameTyped, NewAddressTyped, EnableTyped,
       TakeTyped, AskSyncTyped, LoadPersonTyped, LoadRowsTyped, ProceedsTyped
       DEF PersonsNext, Change, Synchronise
<1> QED
  BY <1>1, <1>2

\* The variables keep their types: nobody is more than LEHR at the root groups, and
\* who is not in itslearning is in none of its groups, whichever handler and
\* synchronisation write in turns.
THEOREM PersonsTypeCorrect == PersonsSpec => []PersonsTypeOK
<1>1. PersonsInit => TypeInv
  BY InitTyped
<1>2. TypeInv /\ [PersonsNext]_personsVars => TypeInv'
  BY StepTyped
<1>3. TypeInv => PersonsTypeOK
  BY TypeInvImplies
<1> QED
  BY <1>1, <1>2, <1>3, PTL DEF PersonsSpec

-----------------------------------------------------------------------------
(* What a run brings about.                                                *)

\* Existence, role and memberships are those of the rows.
Fits(rows, its, p, m) ==
    IF Relevant(rows, its) = {} THEN p = None
    ELSE /\ p # None /\ m = TargetMembers(rows, its, m)
         /\ \E kind \in {"update", "sync"} : p.role = RoleFor(kind, rows, its)

\* A run that sends a whole person has done its part for the rows that it has.
Progress(r, p, m) ==
    /\ r.pc \in Whole /\ (r.pc = "delete" <=> Relevant(r.rows, r.its) = {})
    /\ r.pc \in {"members", "remove", "create"} =>
        p = [name |-> r.name, role |-> RoleFor(r.kind, r.rows, r.its)]
    /\ r.pc \in {"remove", "create"} => r.read[RootGroup] # 0
    /\ r.pc = "remove" => r.read = m
    /\ r.pc = "create" => \A g \in Groups : TargetMembers(r.rows, r.its, r.read)[g] = 0 => m[g] = 0

\* A run that writes back what it read has read what is there.
Reread(r, p) ==
    r.pc = "person" => p # None /\ r.role = p.role /\ (r.kind = "email" => r.name = p.name)

\* The run p failed.
FailedNow(p) == sound' = FALSE /\ (run'[p].pc = "idle" \/ run'[p].alone = FALSE)

\* The run p goes on with what it has.
GoesOn(p) ==
    /\ sound' = sound /\ run'[p].pc # "idle"
    /\ run'[p].kind = run[p].kind /\ run'[p].alone = run[p].alone
    /\ run'[p].rows = run[p].rows /\ run'[p].its = run[p].its

Ended(p) == run'[p] = NoRun /\ sound' = (sound \/ (p = "sync" /\ run[p].alone))

LEMMA FailDoes ==
    ASSUME TypeInv, NEW p \in Processes, NEW pc, Fail(p, pc)
    PROVE  FailedNow(p) /\ \A o \in Processes : o # p => run'[o] = run[o]
<1>1. run[p] \in Runs(fullName) /\ run \in [Processes -> Runs(fullName)]
  BY RunIsTyped DEF TypeInv, RunOK
<1> DEFINE q == IF pc = "idle" THEN NoRun ELSE [run[p] EXCEPT !.pc = pc, !.alone = FALSE]
<1>2. run' = [run EXCEPT ![p] = q] /\ sound' = FALSE
  BY DEF Fail
<1>3. q.pc = "idle" \/ q.alone = FALSE
  <2>1. CASE pc = "idle"
    BY <2>1 DEF NoRun
  <2>2. CASE pc # "idle"
    BY <1>1, <2>2 DEF Runs
  <2> QED
    BY <2>1, <2>2
<1> HIDE DEF q
<1> QED
  BY <1>1, <1>2, <1>3 DEF FailedNow

LEMMA GoDoes ==
    ASSUME TypeInv, NEW p \in Processes, NEW pc \in Whole, GoOn(p, pc)
    PROVE  /\ GoesOn(p) /\ run'[p].pc = pc /\ run'[p].name = run[p].name
           /\ run'[p].read = run[p].read /\ run'[p].role = run[p].role
           /\ \A o \in Processes : o # p => run'[o] = run[o]
<1>1. run[p] \in Runs(fullName) /\ run \in [Processes -> Runs(fullName)]
  BY RunIsTyped DEF TypeInv, RunOK
<1> DEFINE q == [run[p] EXCEPT !.pc = pc]
<1>2. run' = [run EXCEPT ![p] = q] /\ sound' = sound
  BY DEF GoOn
<1>3. q.pc = pc /\ q.kind = run[p].kind /\ q.alone = run[p].alone /\ q.rows = run[p].rows
      /\ q.its = run[p].its /\ q.name = run[p].name /\ q.read = run[p].read
      /\ q.role = run[p].role
  BY <1>1 DEF Runs
<1> HIDE DEF q
<1>4. pc # "idle"
  BY DEF Whole
<1> QED
  BY <1>1, <1>2, <1>3, <1>4 DEF GoesOn

LEMMA FinishDoes ==
    ASSUME TypeInv, NEW p \in Processes, Finish(p)
    PROVE  Ended(p) /\ \A o \in Processes : o # p => run'[o] = run[o]
BY DEF TypeInv, RunOK, Finish, Ended

LEMMA ReadMembersDoes ==
    ASSUME TypeInv, NEW p \in Processes,
           run' = [run EXCEPT ![p] = [run[p] EXCEPT !.pc = "remove", !.read = members]],
           sound' = sound
    PROVE  /\ GoesOn(p) /\ run'[p].pc = "remove" /\ run'[p].name = run[p].name
           /\ run'[p].read = members
           /\ \A o \in Processes : o # p => run'[o] = run[o]
<1>1. run[p] \in Runs(fullName) /\ run \in [Processes -> Runs(fullName)]
  BY RunIsTyped DEF TypeInv, RunOK
<1> DEFINE q == [run[p] EXCEPT !.pc = "remove", !.read = members]
<1>2. run' = [run EXCEPT ![p] = q]
  OBVIOUS
<1>3. q.pc = "remove" /\ q.kind = run[p].kind /\ q.alone = run[p].alone /\ q.rows = run[p].rows
      /\ q.its = run[p].its /\ q.name = run[p].name /\ q.read = members
  BY <1>1 DEF Runs
<1> HIDE DEF q
<1> QED
  BY <1>1, <1>2, <1>3 DEF GoesOn

LEMMA ReadPersonDoes ==
    ASSUME TypeInv, NEW p \in Processes, person # None, NEW nm,
           run' = [run EXCEPT ![p] =
                [run[p] EXCEPT !.pc = "person", !.role = person.role, !.name = nm]],
           sound' = sound
    PROVE  /\ GoesOn(p) /\ run'[p].pc = "person" /\ run'[p].name = nm
           /\ run'[p].role = person.role
           /\ \A o \in Processes : o # p => run'[o] = run[o]
<1>1. run[p] \in Runs(fullName) /\ run \in [Processes -> Runs(fullName)]
  BY RunIsTyped DEF TypeInv, RunOK
<1> DEFINE q == [run[p] EXCEPT !.pc = "person", !.role = person.role, !.name = nm]
<1>2. run' = [run EXCEPT ![p] = q]
  OBVIOUS
<1>3. q.pc = "person" /\ q.kind = run[p].kind /\ q.alone = run[p].alone /\ q.rows = run[p].rows
      /\ q.its = run[p].its /\ q.name = nm /\ q.role = person.role
  BY <1>1 DEF Runs
<1> HIDE DEF q
<1> QED
  BY <1>1, <1>2, <1>3 DEF GoesOn

\* It meddles with nobody else's run.
Alone(p) == \A o \in Processes : o # p => run'[o] = run[o]

Frame(p) == Alone(p) /\ (FailedNow(p) \/ GoesOn(p) \/ Ended(p))

LEMMA FailFrame == ASSUME TypeInv, NEW p \in Processes, NEW pc, Fail(p, pc) PROVE Frame(p)
BY FailDoes DEF Frame, Alone

LEMMA GoFrame == ASSUME TypeInv, NEW p \in Processes, NEW pc \in Whole, GoOn(p, pc) PROVE Frame(p)
BY GoDoes DEF Frame, Alone

LEMMA FinishFrame == ASSUME TypeInv, NEW p \in Processes, Finish(p) PROVE Frame(p)
BY FinishDoes DEF Frame, Alone

\* Whatever a run does, it fails, goes on or ends, and meddles with nobody else's.
LEMMA ProceedFrame ==
    ASSUME TypeInv, NEW p \in Processes, Proceed(p)
    PROVE  /\ UNCHANGED <<kontexte, fullName, enabled, update, queue>> /\ run[p].pc # "idle"
           /\ Frame(p)
<1>1. UNCHANGED <<kontexte, fullName, enabled, update, queue>>
  BY DEF Proceed, db
<1>2. CASE ReadPerson(p)
  <2>1. run[p].pc # "idle"
    BY <1>2 DEF ReadPerson, Stands
  <2>2. ASSUME Fail(p, "idle") PROVE Frame(p)
    BY <2>2, FailFrame
  <2>3. ASSUME Finish(p) PROVE Frame(p)
    BY <2>3, FinishFrame
  <2>4. ASSUME person # None, UNCHANGED sound,
               NEW nm, run' = [run EXCEPT ![p] =
                   [run[p] EXCEPT !.pc = "person", !.role = person.role, !.name = nm]]
        PROVE  Frame(p)
    BY <2>4, ReadPersonDoes DEF Frame, Alone
  <2> QED
    BY <1>1, <1>2, <2>1, <2>2, <2>3, <2>4 DEF ReadPerson
<1>3. CASE SendPerson(p)
  <2>1. run[p].pc # "idle"
    BY <1>3 DEF SendPerson, Stands
  <2>2. ASSUME NEW pc, Fail(p, pc) PROVE Frame(p)
    BY <2>2, FailFrame
  <2>3. ASSUME GoOn(p, "members") PROVE Frame(p)
    BY <2>3, GoFrame DEF Whole
  <2>4. ASSUME Finish(p) PROVE Frame(p)
    BY <2>4, FinishFrame
  <2> QED
    BY <1>1, <1>3, <2>1, <2>2, <2>3, <2>4 DEF SendPerson
<1>4. CASE DeletePerson(p)
  <2>1. run[p].pc # "idle" /\ (Fail(p, "idle") \/ Finish(p))
    BY <1>4 DEF DeletePerson, Stands
  <2>2. ASSUME Fail(p, "idle") PROVE Frame(p)
    BY <2>2, FailFrame
  <2>3. ASSUME Finish(p) PROVE Frame(p)
    BY <2>3, FinishFrame
  <2> QED
    BY <1>1, <2>1, <2>2, <2>3
<1>5. CASE ReadMembers(p)
  <2>1. run[p].pc # "idle"
    BY <1>5 DEF ReadMembers, Stands
  <2>2. ASSUME Fail(p, "idle") PROVE Frame(p)
    BY <2>2, FailFrame
  <2>3. ASSUME run' = [run EXCEPT ![p] = [run[p] EXCEPT !.pc = "remove", !.read = members]],
               sound' = sound
        PROVE  Frame(p)
    BY <2>3, ReadMembersDoes DEF Frame, Alone
  <2> QED
    BY <1>1, <1>5, <2>1, <2>2, <2>3 DEF ReadMembers
<1>6. CASE RemoveMembers(p)
  <2>1. run[p].pc # "idle" /\ (Fail(p, "create") \/ GoOn(p, "create"))
    BY <1>6 DEF RemoveMembers, Stands
  <2>2. ASSUME Fail(p, "create") PROVE Frame(p)
    BY <2>2, FailFrame
  <2>3. ASSUME GoOn(p, "create") PROVE Frame(p)
    BY <2>3, GoFrame DEF Whole
  <2> QED
    BY <1>1, <2>1, <2>2, <2>3
<1>7. CASE CreateMembers(p)
  <2>1. run[p].pc # "idle" /\ (Fail(p, "idle") \/ Finish(p))
    BY <1>7 DEF CreateMembers, Stands
  <2>2. ASSUME Fail(p, "idle") PROVE Frame(p)
    BY <2>2, FailFrame
  <2>3. ASSUME Finish(p) PROVE Frame(p)
    BY <2>3, FinishFrame
  <2> QED
    BY <1>1, <2>1, <2>2, <2>3
<1> QED
  BY <1>2, <1>3, <1>4, <1>5, <1>6, <1>7 DEF Proceed

\* Progress is about what a run carries.
LEMMA ProgressSame ==
    ASSUME NEW r, NEW q, NEW p, NEW m, q.pc = r.pc, q.kind = r.kind, q.name = r.name,
           q.rows = r.rows, q.its = r.its, q.read = r.read
    PROVE  Progress(r, p, m) <=> Progress(q, p, m)
BY DEF Progress

Sending(p) == run[p].kind \in {"update", "sync"} /\ Progress(run[p], person, members)

\* The whole of what the run p was to do is done.
Done(p) ==
    /\ Fits(run[p].rows, run[p].its, person', members')
    /\ person' = None \/ person'.name = run[p].name

Works(p) ==
    \/ FailedNow(p)
    \/ GoesOn(p) /\ run'[p].name = run[p].name /\ Progress(run'[p], person', members')
    \/ Ended(p) /\ Done(p)

LEMMA FitsRole ==
    ASSUME NEW r, r.kind \in {"update", "sync"}, Relevant(r.rows, r.its) # {},
           NEW p, NEW m, p # None, p.role = RoleFor(r.kind, r.rows, r.its),
           m = TargetMembers(r.rows, r.its, m)
    PROVE  Fits(r.rows, r.its, p, m)
BY DEF Fits

LEMMA SendPersonWorks ==
    ASSUME TypeInv, NEW p \in Processes, Sending(p), SendPerson(p) PROVE Works(p)
<1> DEFINE r == run[p]
<1>1. r.kind \in {"update", "sync"} /\ r.pc = "person"
  BY DEF Sending, SendPerson, Stands
<1>2. CASE \E pc : Fail(p, pc)
  BY <1>2, FailDoes DEF Works
<1>3. CASE PutPerson([name |-> r.name, role |-> RoleFor(r.kind, r.rows, r.its)]) /\ GoOn(p, "members")
  <2>1. person' = [name |-> r.name, role |-> RoleFor(r.kind, r.rows, r.its)]
    BY <1>3 DEF PutPerson
  <2>2. GoesOn(p) /\ run'[p].pc = "members" /\ run'[p].name = r.name
    BY <1>3, GoDoes DEF Whole
  <2>3. Relevant(r.rows, r.its) # {}
    BY <1>1 DEF Sending, Progress
  <2>4. Progress(run'[p], person', members')
    BY <2>1, <2>2, <2>3 DEF Progress, GoesOn, Whole
  <2> QED
    BY <2>2, <2>4 DEF Works
<1> QED
  BY <1>1, <1>2, <1>3 DEF SendPerson

LEMMA DeletePersonWorks ==
    ASSUME TypeInv, NEW p \in Processes, Sending(p), DeletePerson(p) PROVE Works(p)
<1>1. CASE Fail(p, "idle")
  BY <1>1, FailDoes DEF Works
<1>2. CASE RemovePerson /\ Finish(p)
  <2>1. person' = None /\ Ended(p)
    BY <1>2, FinishDoes DEF RemovePerson
  <2>2. Relevant(run[p].rows, run[p].its) = {}
    BY DEF DeletePerson, Stands, Sending, Progress
  <2> QED
    BY <2>1, <2>2 DEF Works, Done, Fits
<1> QED
  BY <1>1, <1>2 DEF DeletePerson

LEMMA ReadMembersWorks ==
    ASSUME TypeInv, NEW p \in Processes, Sending(p), ReadMembers(p) PROVE Works(p)
<1>1. CASE Fail(p, "idle")
  BY <1>1, FailDoes DEF Works
<1>2. CASE /\ run' = [run EXCEPT ![p] = [run[p] EXCEPT !.pc = "remove", !.read = members]]
           /\ UNCHANGED <<entry, refusals, sound>>
  <2>1. GoesOn(p) /\ run'[p].pc = "remove" /\ run'[p].name = run[p].name /\ run'[p].read = members
    BY <1>2, ReadMembersDoes
  <2>2. run[p].pc = "members" /\ Progress(run[p], person, members)
        /\ run[p].kind \in {"update", "sync"}
    BY DEF ReadMembers, Stands, Sending
  <2>3. person' = person /\ members' = members
    BY <1>2 DEF entry
  <2>4. members[RootGroup] # 0
    <3>1. run[p].rows \in SUBSET Kontexte
      BY RunIsTyped DEF TypeInv, Runs
    <3>2. RoleFor(run[p].kind, run[p].rows, run[p].its) \in 1 .. Sysadmin
      BY <3>1, RoleForTyped
    <3>3. person # None
      BY <2>2, <3>2 DEF Progress, None
    <3> QED
      BY <3>3 DEF TypeInv, EntryOK
  <2>5. Progress(run'[p], person', members')
    BY <2>1, <2>2, <2>3, <2>4 DEF Progress, GoesOn, Whole
  <2> QED
    BY <2>1, <2>5 DEF Works
<1> QED
  BY <1>1, <1>2 DEF ReadMembers

\* Who is sent is somebody.
LEMMA SentIsSomebody ==
    ASSUME TypeInv, NEW p \in Processes, Sending(p), run[p].pc \in {"members", "remove", "create"}
    PROVE  person # None
<1>1. run[p].rows \in SUBSET Kontexte
  BY RunIsTyped DEF TypeInv, Runs
<1>2. RoleFor(run[p].kind, run[p].rows, run[p].its) \in 1 .. Sysadmin
  BY <1>1, RoleForTyped
<1> QED
  BY <1>2 DEF Sending, Progress, None

LEMMA RemoveMembersWorks ==
    ASSUME TypeInv, NEW p \in Processes, Sending(p), RemoveMembers(p) PROVE Works(p)
<1> DEFINE gone == {g \in Groups : run[p].read[g] # 0 /\ WantedMembers(p)[g] = 0}
           m == [g \in Groups |-> IF g \in gone THEN 0 ELSE members[g]]
<1>1. CASE Fail(p, "create")
  BY <1>1, FailDoes DEF Works
<1>2. CASE SetMembers(m) /\ GoOn(p, "create")
  <2>1. /\ GoesOn(p) /\ run'[p].pc = "create" /\ run'[p].name = run[p].name
        /\ run'[p].read = run[p].read
    BY <1>2, GoDoes DEF Whole
  <2>2. run[p].pc = "remove" /\ Progress(run[p], person, members) /\ run[p].read = members
    BY DEF RemoveMembers, Stands, Sending, Progress
  <2>3. person # None
    BY <2>2, SentIsSomebody
  <2>4. members' = m /\ person' = person
    BY <1>2, <2>3 DEF SetMembers
  <2>5. \A g \in Groups : TargetMembers(run[p].rows, run[p].its, run[p].read)[g] = 0 => members'[g] = 0
    BY <2>2, <2>4 DEF WantedMembers
  <2> HIDE DEF m
  <2>6. Progress(run'[p], person', members')
    BY <2>1, <2>2, <2>4, <2>5 DEF Progress, GoesOn, Whole
  <2> QED
    BY <2>1, <2>6 DEF Works
<1> QED
  BY <1>1, <1>2 DEF RemoveMembers

LEMMA CreateMembersWorks ==
    ASSUME TypeInv, NEW p \in Processes, Sending(p), CreateMembers(p) PROVE Works(p)
<1> DEFINE W == WantedMembers(p)
           m == [g \in Groups |-> IF W[g] # 0 THEN W[g] ELSE members[g]]
<1>1. CASE Fail(p, "idle")
  BY <1>1, FailDoes DEF Works
<1>2. CASE SetMembers(m) /\ Finish(p)
  <2>1. Ended(p)
    BY <1>2, FinishDoes
  <2>2. run[p].pc = "create" /\ Progress(run[p], person, members)
    BY DEF CreateMembers, Stands, Sending
  <2>3. person # None
    BY <2>2, SentIsSomebody
  <2>4. members' = m /\ person' = person
    BY <1>2, <2>3 DEF SetMembers
  <2>5. W \in [Groups -> 0 .. 8] /\ (W[RootGroup] = 0 <=> run[p].read[RootGroup] = 0)
    BY WantedTyped DEF TypeInv
  <2>6. \A g \in Groups : W[g] = 0 => members[g] = 0
    BY <2>2 DEF WantedMembers, Progress
  <2> HIDE DEF W
  <2>7. m = W
    BY <2>5, <2>6
  <2> HIDE DEF m
  <2>8. run[p].read[RootGroup] # 0 /\ Relevant(run[p].rows, run[p].its) # {}
    BY <2>2 DEF Progress
  <2>9. members' = TargetMembers(run[p].rows, run[p].its, members')
    <3>1. members' = TargetMembers(run[p].rows, run[p].its, run[p].read)
      BY <2>4, <2>7 DEF W, WantedMembers
    <3>2. members'[RootGroup] = 0 <=> run[p].read[RootGroup] = 0
      BY <2>4, <2>5, <2>7
    <3> QED
      BY <3>1, <3>2, TargetSame
  <2>10. person'.role = RoleFor(run[p].kind, run[p].rows, run[p].its)
         /\ person'.name = run[p].name
    BY <2>2, <2>4 DEF Progress
  <2>11. Fits(run[p].rows, run[p].its, person', members')
    BY <2>3, <2>4, <2>8, <2>9, <2>10, FitsRole DEF Sending
  <2> QED
    BY <2>1, <2>10, <2>11 DEF Works, Done
<1> QED
  BY <1>1, <1>2 DEF CreateMembers

LEMMA SendingWorks ==
    ASSUME TypeInv, NEW p \in Processes, Sending(p), Proceed(p) PROVE Works(p)
<1>1. ~ReadPerson(p)
  BY DEF Sending, Progress, Whole, ReadPerson, Stands
<1> QED
  BY <1>1, SendPersonWorks, DeletePersonWorks, ReadMembersWorks, RemoveMembersWorks,
     CreateMembersWorks DEF Proceed

\* A run of a new name or a new address writes back what it read.
LEMMA WritingBack ==
    ASSUME TypeInv, NEW p \in Processes, run[p].kind \in {"rename", "email"},
           Reread(run[p], person), Proceed(p)
    PROVE  \/ FailedNow(p)
           \/ /\ GoesOn(p) /\ Reread(run'[p], person) /\ person' = person /\ members' = members
              /\ run[p].kind = "rename" => run'[p].name = run[p].name
           \/ Ended(p) /\ person = None /\ person' = None /\ members' = members
           \/ /\ Ended(p) /\ person # None /\ members' = members
              /\ person' = [name |-> run[p].name, role |-> person.role]
              /\ run[p].kind = "email" => person' = person
<1>1. run[p] \in Runs(fullName) /\ OnItsWay(run[p])
  BY RunIsTyped DEF TypeInv
<1>2. run[p].pc \in {"read", "person"}
  BY <1>1 DEF OnItsWay
<1>3. CASE ReadPerson(p)
  <2>1. CASE Fail(p, "idle")
    BY <2>1, FailDoes
  <2>2. CASE person = None /\ Finish(p) /\ UNCHANGED <<entry, refusals>>
    BY <2>2, FinishDoes DEF entry
  <2>3. ASSUME person # None, UNCHANGED <<entry, refusals, sound>>,
               NEW nm, nm = IF run[p].kind = "email" THEN person.name ELSE run[p].name,
               run' = [run EXCEPT ![p] =
                   [run[p] EXCEPT !.pc = "person", !.role = person.role, !.name = nm]]
        PROVE  /\ GoesOn(p) /\ Reread(run'[p], person) /\ person' = person /\ members' = members
               /\ run[p].kind = "rename" => run'[p].name = run[p].name
    <3>1. sound' = sound
      BY <2>3
    <3> DEFINE Back == /\ GoesOn(p) /\ run'[p].pc = "person" /\ run'[p].name = nm
                       /\ run'[p].role = person.role
    <3>2. Back
      <4>1. person # None /\ run' = [run EXCEPT ![p] =
                   [run[p] EXCEPT !.pc = "person", !.role = person.role, !.name = nm]]
        BY <2>3
      <4> QED
        BY <3>1, <4>1, ReadPersonDoes
    <3> QED
      BY <2>3, <3>2 DEF Reread, GoesOn, entry
  <2> QED
    BY <1>3, <2>1, <2>2, <2>3 DEF ReadPerson
<1>4. CASE SendPerson(p)
  <2>1. run[p].pc = "person"
    BY <1>4 DEF SendPerson, Stands
  <2>2. ASSUME NEW pc, Fail(p, pc) PROVE FailedNow(p)
    BY <2>2, FailDoes
  <2>3. CASE PutPerson([name |-> run[p].name, role |-> run[p].role]) /\ Finish(p)
    <3>1. person # None /\ run[p].role = person.role
          /\ (run[p].kind = "email" => run[p].name = person.name)
      BY <2>1 DEF Reread
    <3>2. person' = [name |-> run[p].name, role |-> person.role] /\ members' = members
      BY <2>3, <3>1 DEF PutPerson
    <3>3. run[p].kind = "email" => person' = person
      <4>1. person \in [name : 0 .. fullName, role : 0 .. Sysadmin]
        BY DEF TypeInv, EntryOK
      <4> QED
        BY <3>1, <3>2, <4>1
    <3> QED
      BY <2>3, <3>1, <3>2, <3>3, FinishDoes
  <2> QED
    BY <1>4, <2>2, <2>3 DEF SendPerson
<1> QED
  BY <1>2, <1>3, <1>4 DEF Proceed, DeletePerson, ReadMembers, RemoveMembers, CreateMembers, Stands

-----------------------------------------------------------------------------
(* Agreement.                                                              *)

\* The last event of these kinds that waits.
LastOf(q, i, S) == q[i].kind \in S /\ \A j \in DOMAIN q : j > i => q[j].kind \notin S
NoneOf(q, S) == \A i \in DOMAIN q : q[i].kind \notin S

WithRows == {"update"}
WithName == {"update", "rename"}

\* What the rows bring about waits in the queue, or is under way, or is there.
RowsArrive(k, its, p, m, q, h) ==
    /\ \A i \in DOMAIN q : LastOf(q, i, WithRows) => q[i].rows = k /\ q[i].its = its
    /\ NoneOf(q, WithRows) =>
        IF h.kind \in WithRows THEN h.rows = k /\ h.its = its ELSE Fits(k, its, p, m)

\* So does the name, for whoever is in itslearning.
NameArrives(n, p, q, h) ==
    /\ \A i \in DOMAIN q : LastOf(q, i, WithName) => q[i].name = n
    /\ NoneOf(q, WithName) =>
        IF h.kind \in WithName THEN h.name = n ELSE p = None \/ p.name = n

\* The handler under way has done its part.
HandlerWell(h, p, m) ==
    /\ h.kind = "update" => Progress(h, p, m)
    /\ h.kind \in {"rename", "email"} => Reread(h, p)

\* A synchronisation that nothing disturbed has what the database has, and has done
\* its part.
SyncWell(y, h, k, n, its, p, m, q) ==
    /\ q = <<>> /\ h.pc = "idle"
    /\ y.pc # "load" => y.name = n
    /\ y.pc \notin {"load", "rows"} => y.rows = k /\ y.its = its /\ Progress(y, p, m)

SyncInv ==
    Syncing =>
        /\ sound => run["sync"].alone
        /\ run["sync"].alone =>
            SyncWell(run["sync"], run["handler"], kontexte, fullName, enabled, person, members, queue)

Pending ==
    sound /\ ~Syncing =>
        /\ RowsArrive(kontexte, enabled, person, members, queue, run["handler"])
        /\ NameArrives(fullName, person, queue, run["handler"])
        /\ HandlerWell(run["handler"], person, members)

PersonsInv == TypeInv /\ SyncInv /\ Pending

LEMMA AppendEvent ==
    ASSUME NEW T, NEW q \in Seq(T), NEW e, NEW S
    PROVE  LET a == Append(q, e)
           IN  /\ e.kind \in S => ~NoneOf(a, S) /\ \A i \in DOMAIN a : LastOf(a, i, S) => a[i] = e
               /\ e.kind \notin S =>
                    /\ NoneOf(a, S) => NoneOf(q, S)
                    /\ \A i \in DOMAIN a :
                        LastOf(a, i, S) => i \in DOMAIN q /\ a[i] = q[i] /\ LastOf(q, i, S)
<1> DEFINE a == Append(q, e)
           n == Len(q)
<1>1. /\ n \in Nat /\ DOMAIN q = 1 .. n /\ DOMAIN a = 1 .. n + 1 /\ a[n + 1] = e
      /\ \A i \in 1 .. n : a[i] = q[i]
  OBVIOUS
<1> HIDE DEF a, n
<1>2. ASSUME e.kind \in S
      PROVE  ~NoneOf(a, S) /\ \A i \in DOMAIN a : LastOf(a, i, S) => a[i] = e
  <2>1. n + 1 \in DOMAIN a
    BY <1>1
  <2>2. ASSUME NEW i \in DOMAIN a, LastOf(a, i, S) PROVE a[i] = e
    <3>1. CASE i = n + 1
      BY <1>1, <3>1
    <3>2. CASE n + 1 > i
      BY <1>1, <1>2, <2>1, <2>2, <3>2 DEF LastOf
    <3> QED
      BY <1>1, <3>1, <3>2
  <2> QED
    BY <1>1, <1>2, <2>1, <2>2 DEF NoneOf
<1>3. ASSUME e.kind \notin S
      PROVE  /\ NoneOf(a, S) => NoneOf(q, S)
             /\ \A i \in DOMAIN a :
                 LastOf(a, i, S) => i \in DOMAIN q /\ a[i] = q[i] /\ LastOf(q, i, S)
  <2>1. NoneOf(a, S) => NoneOf(q, S)
    BY <1>1 DEF NoneOf
  <2>2. ASSUME NEW i \in DOMAIN a, LastOf(a, i, S)
        PROVE  i \in DOMAIN q /\ a[i] = q[i] /\ LastOf(q, i, S)
    <3>1. i # n + 1
      BY <1>1, <1>3, <2>2 DEF LastOf
    <3>2. i \in DOMAIN q /\ a[i] = q[i]
      BY <1>1, <3>1
    <3>3. \A j \in DOMAIN q : j \in DOMAIN a /\ a[j] = q[j]
      BY <1>1
    <3> QED
      BY <2>2, <3>2, <3>3 DEF LastOf
  <2> QED
    BY <2>1, <2>2
<1> QED
  BY <1>2, <1>3 DEF a

LEMMA TailEvents ==
    ASSUME NEW T, NEW q \in Seq(T), q # <<>>, NEW S
    PROVE  LET t == Tail(q)
           IN  /\ \A i \in DOMAIN t :
                    i + 1 \in DOMAIN q /\ t[i] = q[i + 1] /\ (LastOf(t, i, S) => LastOf(q, i + 1, S))
               /\ NoneOf(t, S) /\ Head(q).kind \in S => 1 \in DOMAIN q /\ LastOf(q, 1, S)
               /\ NoneOf(t, S) /\ Head(q).kind \notin S => NoneOf(q, S)
<1> DEFINE t == Tail(q)
           n == Len(q)
<1>1. /\ n \in Nat /\ n # 0 /\ DOMAIN q = 1 .. n /\ DOMAIN t = 1 .. n - 1
      /\ \A i \in 1 .. n - 1 : t[i] = q[i + 1]
      /\ Head(q) = q[1]
  OBVIOUS
<1> HIDE DEF t, n
<1>2. \A j \in DOMAIN q : j # 1 => j - 1 \in DOMAIN t /\ t[j - 1] = q[j]
  <2> TAKE j \in DOMAIN q
  <2>1. j \in 1 .. n /\ (j # 1 => j - 1 \in 1 .. n - 1 /\ (j - 1) + 1 = j)
    BY <1>1
  <2> QED
    BY <1>1, <2>1
<1>3. ASSUME NEW i \in DOMAIN t
      PROVE  i + 1 \in DOMAIN q /\ t[i] = q[i + 1] /\ (LastOf(t, i, S) => LastOf(q, i + 1, S))
  <2>1. i \in Nat /\ i + 1 \in DOMAIN q /\ t[i] = q[i + 1]
    BY <1>1
  <2>2. ASSUME LastOf(t, i, S), NEW j \in DOMAIN q, j > i + 1 PROVE q[j].kind \notin S
    <3>1. j # 1 /\ j - 1 > i
      BY <1>1, <2>1, <2>2
    <3> QED
      BY <1>2, <2>2, <3>1 DEF LastOf
  <2> QED
    BY <2>1, <2>2 DEF LastOf
<1>4. ASSUME NoneOf(t, S) PROVE \A j \in DOMAIN q : j # 1 => q[j].kind \notin S
  BY <1>2, <1>4 DEF NoneOf
<1>5. 1 \in DOMAIN q
  BY <1>1
<1>6. ASSUME NoneOf(t, S), Head(q).kind \in S PROVE LastOf(q, 1, S)
  BY <1>1, <1>4, <1>5, <1>6 DEF LastOf
<1>7. ASSUME NoneOf(t, S), Head(q).kind \notin S PROVE NoneOf(q, S)
  BY <1>1, <1>4, <1>7 DEF NoneOf
<1> QED
  BY <1>3, <1>5, <1>6, <1>7 DEF t

LEMMA RowsAppended ==
    ASSUME NEW T, NEW q \in Seq(T), NEW e, NEW k, NEW its, NEW p, NEW m, NEW h,
           IF e.kind \in WithRows THEN e.rows = k /\ e.its = its ELSE RowsArrive(k, its, p, m, q, h)
    PROVE  RowsArrive(k, its, p, m, Append(q, e), h)
<1> DEFINE a == Append(q, e)
<1>1. CASE e.kind \in WithRows
  <2>1. ~NoneOf(a, WithRows) /\ \A i \in DOMAIN a : LastOf(a, i, WithRows) => a[i] = e
    BY <1>1, AppendEvent
  <2> HIDE DEF a
  <2> QED
    BY <1>1, <2>1 DEF RowsArrive, a
<1>2. CASE e.kind \notin WithRows
  <2>1. /\ NoneOf(a, WithRows) => NoneOf(q, WithRows)
        /\ \A i \in DOMAIN a :
            LastOf(a, i, WithRows) => i \in DOMAIN q /\ a[i] = q[i] /\ LastOf(q, i, WithRows)
    BY <1>2, AppendEvent
  <2> HIDE DEF a
  <2> QED
    BY <1>2, <2>1 DEF RowsArrive, a
<1> QED
  BY <1>1, <1>2

LEMMA NameAppended ==
    ASSUME NEW T, NEW q \in Seq(T), NEW e, NEW n, NEW p, NEW h,
           IF e.kind \in WithName THEN e.name = n ELSE NameArrives(n, p, q, h)
    PROVE  NameArrives(n, p, Append(q, e), h)
<1> DEFINE a == Append(q, e)
<1>1. CASE e.kind \in WithName
  <2>1. ~NoneOf(a, WithName) /\ \A i \in DOMAIN a : LastOf(a, i, WithName) => a[i] = e
    BY <1>1, AppendEvent
  <2> HIDE DEF a
  <2> QED
    BY <1>1, <2>1 DEF NameArrives, a
<1>2. CASE e.kind \notin WithName
  <2>1. /\ NoneOf(a, WithName) => NoneOf(q, WithName)
        /\ \A i \in DOMAIN a :
            LastOf(a, i, WithName) => i \in DOMAIN q /\ a[i] = q[i] /\ LastOf(q, i, WithName)
    BY <1>2, AppendEvent
  <2> HIDE DEF a
  <2> QED
    BY <1>2, <2>1 DEF NameArrives, a
<1> QED
  BY <1>1, <1>2

\* The handler takes the first event.
LEMMA RowsTaken ==
    ASSUME NEW T, NEW q \in Seq(T), q # <<>>, NEW k, NEW its, NEW p, NEW m, NEW h, NEW h1,
           h.kind = "none", h1.kind = Head(q).kind, h1.rows = Head(q).rows, h1.its = Head(q).its,
           RowsArrive(k, its, p, m, q, h)
    PROVE  RowsArrive(k, its, p, m, Tail(q), h1)
<1> DEFINE t == Tail(q)
<1>1. /\ \A i \in DOMAIN t : i + 1 \in DOMAIN q /\ t[i] = q[i + 1]
            /\ (LastOf(t, i, WithRows) => LastOf(q, i + 1, WithRows))
      /\ NoneOf(t, WithRows) /\ Head(q).kind \in WithRows => 1 \in DOMAIN q /\ LastOf(q, 1, WithRows)
      /\ NoneOf(t, WithRows) /\ Head(q).kind \notin WithRows => NoneOf(q, WithRows)
  BY TailEvents
<1>2. Head(q) = q[1]
  OBVIOUS
<1> HIDE DEF t
<1>3. \A i \in DOMAIN t : LastOf(t, i, WithRows) => t[i].rows = k /\ t[i].its = its
  BY <1>1 DEF RowsArrive
<1>4. ASSUME NoneOf(t, WithRows)
      PROVE  IF h1.kind \in WithRows THEN h1.rows = k /\ h1.its = its ELSE Fits(k, its, p, m)
  <2>1. CASE h1.kind \in WithRows
    BY <1>1, <1>2, <1>4, <2>1 DEF RowsArrive
  <2>2. CASE h1.kind \notin WithRows
    <3>1. NoneOf(q, WithRows) /\ h.kind \notin WithRows
      BY <1>1, <1>4, <2>2 DEF WithRows
    <3> QED
      BY <2>2, <3>1 DEF RowsArrive
  <2> QED
    BY <2>1, <2>2
<1> QED
  BY <1>3, <1>4 DEF RowsArrive, t

LEMMA NameTaken ==
    ASSUME NEW T, NEW q \in Seq(T), q # <<>>, NEW n, NEW p, NEW h, NEW h1,
           h.kind = "none", h1.kind = Head(q).kind, h1.name = Head(q).name, NameArrives(n, p, q, h)
    PROVE  NameArrives(n, p, Tail(q), h1)
<1> DEFINE t == Tail(q)
<1>1. /\ \A i \in DOMAIN t : i + 1 \in DOMAIN q /\ t[i] = q[i + 1]
            /\ (LastOf(t, i, WithName) => LastOf(q, i + 1, WithName))
      /\ NoneOf(t, WithName) /\ Head(q).kind \in WithName => 1 \in DOMAIN q /\ LastOf(q, 1, WithName)
      /\ NoneOf(t, WithName) /\ Head(q).kind \notin WithName => NoneOf(q, WithName)
  BY TailEvents
<1>2. Head(q) = q[1]
  OBVIOUS
<1> HIDE DEF t
<1>3. \A i \in DOMAIN t : LastOf(t, i, WithName) => t[i].name = n
  BY <1>1 DEF NameArrives
<1>4. ASSUME NoneOf(t, WithName)
      PROVE  IF h1.kind \in WithName THEN h1.name = n ELSE p = None \/ p.name = n
  <2>1. CASE h1.kind \in WithName
    BY <1>1, <1>2, <1>4, <2>1 DEF NameArrives
  <2>2. CASE h1.kind \notin WithName
    <3>1. NoneOf(q, WithName) /\ h.kind \notin WithName
      BY <1>1, <1>4, <2>2 DEF WithName
    <3> QED
      BY <2>2, <3>1 DEF NameArrives
  <2> QED
    BY <2>1, <2>2
<1> QED
  BY <1>3, <1>4 DEF NameArrives, t

LEMMA HandlerIdle ==
    ASSUME TypeInv
    PROVE  /\ run["handler"].pc = "idle" <=> run["handler"].kind = "none"
           /\ run["sync"].pc = "idle" <=> run["sync"].kind = "none"
           /\ run["handler"].kind \in {"none", "update", "rename", "email"}
           /\ run["sync"].kind \in {"none", "sync"}
           /\ queue \in Seq(Events(fullName))
<1>1. \A p \in Processes : run[p] \in Runs(fullName) /\ OnItsWay(run[p])
  BY RunIsTyped DEF TypeInv
<1>2. "handler" \in Processes /\ "sync" \in Processes
  BY DEF Processes
<1>3. run["handler"].kind \in Kinds /\ run["handler"].kind # "sync"
      /\ run["sync"].kind \in {"none", "sync"}
  BY <1>1, <1>2 DEF Runs, TypeInv, RunOK
<1> QED
  BY <1>1, <1>2, <1>3 DEF OnItsWay, Kinds, Whole, TypeInv, QueueOK

LEMMA PersonsInitInv == ASSUME PersonsInit PROVE PersonsInv
<1>1. TypeInv
  BY InitTyped
<1>2. /\ queue = <<>> /\ run = [p \in Processes |-> NoRun] /\ fullName = 1
      /\ kontexte \in SUBSET Kontexte
  BY DEF PersonsInit
<1>3. run["handler"] = NoRun /\ run["sync"] = NoRun /\ NoRun.pc = "idle" /\ NoRun.kind = "none"
  BY <1>2 DEF Processes, NoRun
<1>4. person = None \/ person.name = 1
  <2>1. CASE Relevant(kontexte, enabled) = {}
    BY <2>1 DEF PersonsInit
  <2>2. CASE Relevant(kontexte, enabled) # {}
    <3>1. person = [name |-> 1, role |-> RoleFor("update", kontexte, enabled)]
      BY <2>2 DEF PersonsInit
    <3> QED
      BY <3>1
  <2> QED
    BY <2>1, <2>2
<1>5. Fits(kontexte, enabled, person, members)
  <2>1. CASE Relevant(kontexte, enabled) = {}
    BY <2>1 DEF PersonsInit, Fits
  <2>2. CASE Relevant(kontexte, enabled) # {}
    <3> DEFINE low == Min({Lehr, Highest(Relevant(kontexte, enabled))})
               T(m) == TargetMembers(kontexte, enabled, m)
    <3>1. /\ person = [name |-> 1, role |-> RoleFor("update", kontexte, enabled)]
          /\ members = [T(NoMembers) EXCEPT ![RootGroup] = low]
      BY <2>2 DEF PersonsInit
    <3>2. low # 0
      <4>1. Relevant(kontexte, enabled) \in SUBSET Kontexte
        BY <1>2 DEF Relevant
      <4>2. low \in {Lehr, Highest(Relevant(kontexte, enabled))}
            /\ Highest(Relevant(kontexte, enabled)) \in 1 .. 8
        BY <4>1, HighestIsRank, MinOfTwo DEF Lehr
      <4> QED
        BY <4>2 DEF Lehr
    <3>3. PICK high : \A m : T(m) = [g \in Groups |-> IF g = RootGroup
                                    THEN IF m[RootGroup] = 0 THEN 0 ELSE low ELSE high[g]]
      <4> DEFINE here(g) == {k \in Relevant(kontexte, enabled) : k.orga = g}
                 high == [g \in Groups |-> IF here(g) = {} THEN 0 ELSE Highest(here(g))]
      <4>1. \A m : T(m) = [g \in Groups |-> IF g = RootGroup
                              THEN IF m[RootGroup] = 0 THEN 0 ELSE low
                              ELSE IF here(g) = {} THEN 0 ELSE Highest(here(g))]
        BY DEF TargetMembers
      <4> HIDE DEF T, low, here
      <4>2. \A g \in Groups : high[g] = IF here(g) = {} THEN 0 ELSE Highest(here(g))
        OBVIOUS
      <4> HIDE DEF high
      <4> QED
        BY <4>1, <4>2
    <3> HIDE DEF low, T
    <3>4. members[RootGroup] = low /\ members = T(members)
      BY <3>1, <3>2, <3>3, RootInGroups
    <3>5. person # None /\ person.role = RoleFor("update", kontexte, enabled)
      BY <3>1 DEF None
    <3> QED
      BY <2>2, <3>4, <3>5 DEF Fits, T
  <2> QED
    BY <2>1, <2>2
<1>6. RowsArrive(kontexte, enabled, person, members, queue, run["handler"])
      /\ NameArrives(fullName, person, queue, run["handler"])
  BY <1>2, <1>3, <1>4, <1>5 DEF RowsArrive, NameArrives, WithRows, WithName
<1>7. HandlerWell(run["handler"], person, members)
  BY <1>3 DEF HandlerWell
<1> QED
  BY <1>1, <1>3, <1>6, <1>7 DEF PersonsInv, SyncInv, Pending, Syncing

\* Once all is quiet, what was to arrive is there.
LEMMA InvAgrees == ASSUME PersonsInv PROVE SoundAgrees
<1> SUFFICES ASSUME AllHandled, sound PROVE Agrees
  BY DEF SoundAgrees
<1>1. queue = <<>> /\ run["handler"].kind = "none" /\ ~Syncing
  BY HandlerIdle DEF PersonsInv, AllHandled, Processes, Syncing
<1>2. Fits(kontexte, enabled, person, members) /\ (person = None \/ person.name = fullName)
  <2>1. RowsArrive(kontexte, enabled, person, members, queue, run["handler"])
        /\ NameArrives(fullName, person, queue, run["handler"])
    BY <1>1 DEF PersonsInv, Pending
  <2>2. NoneOf(queue, WithRows) /\ NoneOf(queue, WithName)
    BY <1>1 DEF NoneOf
  <2> QED
    BY <1>1, <2>1, <2>2 DEF RowsArrive, NameArrives, WithRows, WithName
<1>3. person # None => members[RootGroup] # 0
  BY DEF PersonsInv, TypeInv, EntryOK
<1> QED
  BY <1>2, <1>3 DEF Fits, Agrees

-----------------------------------------------------------------------------
(* Every step keeps the agreement.                                         *)

LEMMA DisturbKeeps ==
    ASSUME PersonsInv, Disturb, fullName' \in {fullName, fullName + 1}, sound' => sound /\ ~Syncing
    PROVE  /\ SyncInv' /\ Syncing' = Syncing
           /\ run'["handler"] = run["handler"] /\ person' = person /\ members' = members
<1>1. /\ run'["handler"] = run["handler"]
      /\ run'["sync"] = [run["sync"] EXCEPT !.alone = FALSE]
  BY DisturbTyped DEF PersonsInv
<1>2. run["sync"] \in Runs(fullName)
  BY RunIsTyped DEF PersonsInv, TypeInv, Processes
<1>3. run'["sync"].pc = run["sync"].pc /\ run'["sync"].alone = FALSE
  BY <1>1, <1>2 DEF Runs
<1>4. Syncing' = Syncing
  BY <1>3 DEF Syncing
<1>5. person' = person /\ members' = members
  BY DEF Disturb, entry
<1>6. SyncInv'
  BY <1>3, <1>4 DEF SyncInv
<1> QED
  BY <1>1, <1>4, <1>5, <1>6

LEMMA UpdateKeeps == ASSUME PersonsInv, UpdateRows PROVE PersonsInv'
<1> DEFINE e == Event("update", update, kontexte', enabled)
<1>1. TypeInv' /\ Disturb /\ fullName' = fullName /\ enabled' = enabled /\ queue' = Append(queue, e)
      /\ sound' = (sound /\ update = fullName /\ ~Syncing)
  BY UpdateTyped DEF PersonsInv, UpdateRows, Publish
<1>2. /\ SyncInv' /\ Syncing' = Syncing
      /\ run'["handler"] = run["handler"] /\ person' = person /\ members' = members
  BY <1>1, DisturbKeeps
<1>3. e.kind = "update" /\ e.name = update /\ e.rows = kontexte' /\ e.its = enabled
  BY DEF Event, NoRun
<1>4. queue \in Seq(Events(fullName)) /\ "update" \in WithRows /\ "update" \in WithName
  BY HandlerIdle DEF PersonsInv, WithRows, WithName
<1> HIDE DEF e
<1>5. ASSUME sound', ~Syncing'
      PROVE  /\ RowsArrive(kontexte, enabled, person, members, queue, run["handler"])'
             /\ NameArrives(fullName, person, queue, run["handler"])'
             /\ HandlerWell(run["handler"], person, members)'
  <2>1. sound /\ ~Syncing /\ update = fullName
    BY <1>1, <1>5
  <2>2. RowsArrive(kontexte', enabled, person, members, Append(queue, e), run["handler"])
    BY <1>3, <1>4, RowsAppended
  <2>3. NameArrives(fullName, person, Append(queue, e), run["handler"])
    BY <1>3, <1>4, <2>1, NameAppended
  <2>4. HandlerWell(run["handler"], person, members)
    BY <2>1 DEF PersonsInv, Pending
  <2> QED
    BY <1>1, <1>2, <2>2, <2>3, <2>4
<1>6. Pending'
  BY <1>5 DEF Pending
<1> QED
  BY <1>1, <1>2, <1>6 DEF PersonsInv

LEMMA RenameKeeps == ASSUME PersonsInv, RenamePerson PROVE PersonsInv'
<1> DEFINE e == Event("rename", fullName + 1, {}, FALSE)
<1>1. TypeInv' /\ Disturb /\ fullName' = fullName + 1 /\ enabled' = enabled /\ kontexte' = kontexte
      /\ queue' = Append(queue, e) /\ sound' = (sound /\ ~Syncing)
  BY RenameTyped DEF PersonsInv, RenamePerson, Publish
<1>2. /\ SyncInv' /\ Syncing' = Syncing
      /\ run'["handler"] = run["handler"] /\ person' = person /\ members' = members
  BY <1>1, DisturbKeeps
<1>3. e.kind = "rename" /\ e.name = fullName + 1
  BY DEF Event, NoRun
<1>4. queue \in Seq(Events(fullName)) /\ "rename" \notin WithRows /\ "rename" \in WithName
  BY HandlerIdle DEF PersonsInv, WithRows, WithName
<1> HIDE DEF e
<1>5. ASSUME sound', ~Syncing'
      PROVE  /\ RowsArrive(kontexte, enabled, person, members, queue, run["handler"])'
             /\ NameArrives(fullName, person, queue, run["handler"])'
             /\ HandlerWell(run["handler"], person, members)'
  <2>1. sound /\ ~Syncing
    BY <1>1, <1>5
  <2>2. /\ RowsArrive(kontexte, enabled, person, members, queue, run["handler"])
        /\ HandlerWell(run["handler"], person, members)
    BY <2>1 DEF PersonsInv, Pending
  <2>3. RowsArrive(kontexte, enabled, person, members, Append(queue, e), run["handler"])
    BY <1>3, <1>4, <2>2, RowsAppended
  <2>4. NameArrives(fullName + 1, person, Append(queue, e), run["handler"])
    BY <1>3, <1>4, NameAppended
  <2> QED
    BY <1>1, <1>2, <2>2, <2>3, <2>4
<1>6. Pending'
  BY <1>5 DEF Pending
<1> QED
  BY <1>1, <1>2, <1>6 DEF PersonsInv

LEMMA NewAddressKeeps == ASSUME PersonsInv, NewAddress PROVE PersonsInv'
<1> DEFINE e == Event("email", 0, {}, FALSE)
<1>1. TypeInv' /\ Disturb /\ fullName' = fullName /\ enabled' = enabled /\ kontexte' = kontexte
      /\ queue' = Append(queue, e) /\ sound' = (sound /\ ~Syncing)
  BY NewAddressTyped DEF PersonsInv, NewAddress, Publish, db
<1>2. /\ SyncInv' /\ Syncing' = Syncing
      /\ run'["handler"] = run["handler"] /\ person' = person /\ members' = members
  BY <1>1, DisturbKeeps
<1>3. e.kind = "email"
  BY DEF Event, NoRun
<1>4. queue \in Seq(Events(fullName)) /\ "email" \notin WithRows /\ "email" \notin WithName
  BY HandlerIdle DEF PersonsInv, WithRows, WithName
<1> HIDE DEF e
<1>5. ASSUME sound', ~Syncing'
      PROVE  /\ RowsArrive(kontexte, enabled, person, members, queue, run["handler"])'
             /\ NameArrives(fullName, person, queue, run["handler"])'
             /\ HandlerWell(run["handler"], person, members)'
  <2>1. sound /\ ~Syncing
    BY <1>1, <1>5
  <2>2. /\ RowsArrive(kontexte, enabled, person, members, queue, run["handler"])
        /\ NameArrives(fullName, person, queue, run["handler"])
        /\ HandlerWell(run["handler"], person, members)
    BY <2>1 DEF PersonsInv, Pending
  <2>3. RowsArrive(kontexte, enabled, person, members, Append(queue, e), run["handler"])
    BY <1>3, <1>4, <2>2, RowsAppended
  <2>4. NameArrives(fullName, person, Append(queue, e), run["handler"])
    BY <1>3, <1>4, <2>2, NameAppended
  <2> QED
    BY <1>1, <1>2, <2>2, <2>3, <2>4
<1>6. Pending'
  BY <1>5 DEF Pending
<1> QED
  BY <1>1, <1>2, <1>6 DEF PersonsInv

LEMMA EnableKeeps == ASSUME PersonsInv, EnableSchool PROVE PersonsInv'
<1>1. TypeInv' /\ Disturb /\ fullName' = fullName /\ sound' = FALSE
  BY EnableTyped DEF PersonsInv, EnableSchool
<1>2. SyncInv'
  BY <1>1, DisturbKeeps
<1> QED
  BY <1>1, <1>2 DEF PersonsInv, Pending

\* Nothing that the agreement is about changes.
LEMMA NothingKeeps ==
    ASSUME PersonsInv, UNCHANGED <<kontexte, fullName, enabled, person, members, queue, run, sound>>
    PROVE  SyncInv' /\ Pending'
<1>1. Syncing' = Syncing
  BY DEF Syncing
<1>2. SyncInv'
  BY <1>1 DEF PersonsInv, SyncInv
<1>3. Pending'
  BY <1>1 DEF PersonsInv, Pending
<1> QED
  BY <1>2, <1>3

LEMMA LoadForUpdateKeeps == ASSUME PersonsInv, LoadForUpdate PROVE PersonsInv'
<1>1. TypeInv'
  BY LoadForUpdateTyped DEF PersonsInv
<1>2. UNCHANGED <<kontexte, fullName, enabled, person, members, queue, run, sound>>
  BY DEF LoadForUpdate, entry
<1> QED
  BY <1>1, <1>2, NothingKeeps DEF PersonsInv

LEMMA TakeKeeps == ASSUME PersonsInv, Take PROVE PersonsInv'
<1>1. PICK pc \in {"read", "person", "delete"} :
             /\ queue # <<>> /\ queue \in Seq(Events(fullName)) /\ queue' = Tail(queue)
             /\ Head(queue) \in Events(fullName)
             /\ pc = IF Head(queue).kind # "update" THEN "read"
                     ELSE FirstStep(Head(queue).rows, Head(queue).its)
             /\ run'["handler"] = [Head(queue) EXCEPT !.pc = pc]
             /\ run'["sync"] = [run["sync"] EXCEPT !.alone = FALSE]
             /\ DOMAIN run' = Processes
  BY TakeDoes DEF PersonsInv
<1> DEFINE e == Head(queue)
           h == run["handler"]
           h1 == run'["handler"]
<1>2. UNCHANGED <<kontexte, fullName, enabled, person, members>> /\ sound' = (sound /\ ~Syncing)
      /\ TypeInv' /\ h.pc = "idle"
  BY TakeTyped DEF PersonsInv, Take, db, entry, Stands
<1>3. /\ h1.kind = e.kind /\ h1.rows = e.rows /\ h1.its = e.its /\ h1.name = e.name
      /\ h1.pc = pc
  BY <1>1 DEF Events, Runs
<1>4. run["sync"] \in Runs(fullName)
  BY RunIsTyped DEF PersonsInv, TypeInv, Processes
<1>5. run'["sync"].pc = run["sync"].pc /\ run'["sync"].alone = FALSE
  BY <1>1, <1>4 DEF Runs
<1>6. Syncing' = Syncing
  BY <1>5 DEF Syncing
<1>7. SyncInv'
  BY <1>2, <1>5, <1>6 DEF SyncInv
<1>8. ASSUME sound', ~Syncing'
      PROVE  /\ RowsArrive(kontexte, enabled, person, members, queue, run["handler"])'
             /\ NameArrives(fullName, person, queue, run["handler"])'
             /\ HandlerWell(run["handler"], person, members)'
  <2>1. /\ RowsArrive(kontexte, enabled, person, members, queue, h)
        /\ NameArrives(fullName, person, queue, h)
    BY <1>2, <1>6, <1>8 DEF PersonsInv, Pending
  <2>2. h.kind = "none"
    BY <1>2, HandlerIdle DEF PersonsInv
  <2> HIDE DEF h1
  <2>3. RowsArrive(kontexte, enabled, person, members, Tail(queue), h1)
    BY <1>1, <1>3, <2>1, <2>2, RowsTaken
  <2>4. NameArrives(fullName, person, Tail(queue), h1)
    BY <1>1, <1>3, <2>1, <2>2, NameTaken
  <2>5. HandlerWell(h1, person, members)
    <3>1. CASE e.kind = "update"
      <4>1. pc = FirstStep(h1.rows, h1.its)
        BY <1>1, <1>3, <3>1
      <4> QED
        BY <1>3, <3>1, <4>1 DEF HandlerWell, Progress, FirstStep, Whole
    <3>2. CASE e.kind # "update"
      <4>1. pc = "read"
        BY <1>1, <3>2
      <4> QED
        BY <1>3, <3>2, <4>1 DEF HandlerWell, Reread
    <3> QED
      BY <3>1, <3>2
  <2> QED
    BY <1>1, <1>2, <2>3, <2>4, <2>5 DEF h1
<1>9. Pending'
  BY <1>8 DEF Pending
<1> QED
  BY <1>2, <1>7, <1>9 DEF PersonsInv

LEMMA AskSyncKeeps == ASSUME PersonsInv, AskSync PROVE PersonsInv'
<1> DEFINE alone == queue = <<>> /\ Stands("handler", "idle")
           y == [NoRun EXCEPT !.pc = "load", !.kind = "sync", !.alone = alone]
<1>1. TypeInv' /\ run' = [run EXCEPT !["sync"] = y] /\ sound' = (sound /\ alone)
      /\ queue' = queue
  BY AskSyncTyped DEF PersonsInv, AskSync
<1>2. y.pc = "load" /\ y.alone = alone
  <2> HIDE DEF alone
  <2> QED
    BY DEF NoRun
<1> HIDE DEF y
<1>3. run'["sync"] = y /\ run'["handler"] = run["handler"]
  BY <1>1 DEF PersonsInv, TypeInv, RunOK, Processes
<1>4. Syncing'
  BY <1>2, <1>3 DEF Syncing
<1>5. sound' => run'["sync"].alone
  BY <1>1, <1>2, <1>3
<1>6. run'["sync"].alone => queue' = <<>> /\ run'["handler"].pc = "idle"
  BY <1>1, <1>2, <1>3 DEF Stands
<1>7. SyncInv'
  BY <1>2, <1>3, <1>5, <1>6 DEF SyncInv, SyncWell
<1> QED
  BY <1>1, <1>4, <1>7 DEF PersonsInv, Pending

LEMMA LoadPersonKeeps == ASSUME PersonsInv, LoadPerson PROVE PersonsInv'
<1> DEFINE y == [run["sync"] EXCEPT !.pc = "rows", !.name = fullName]
<1>1. TypeInv' /\ run' = [run EXCEPT !["sync"] = y] /\ run["sync"].pc = "load"
      /\ UNCHANGED <<kontexte, fullName, enabled, person, members, queue, sound>>
  BY LoadPersonTyped DEF PersonsInv, LoadPerson, Stands, db, entry
<1>2. y.pc = "rows" /\ y.name = fullName /\ y.alone = run["sync"].alone
  <2>1. run["sync"] \in Runs(fullName)
    BY RunIsTyped DEF PersonsInv, TypeInv, Processes
  <2> QED
    BY <2>1 DEF Runs
<1> HIDE DEF y
<1>3. run'["sync"] = y /\ run'["handler"] = run["handler"]
  BY <1>1 DEF PersonsInv, TypeInv, RunOK, Processes
<1>4. Syncing /\ Syncing'
  BY <1>1, <1>2, <1>3 DEF Syncing
<1>5. SyncInv'
  BY <1>1, <1>2, <1>3, <1>4 DEF PersonsInv, SyncInv, SyncWell
<1> QED
  BY <1>1, <1>4, <1>5 DEF PersonsInv, Pending

LEMMA LoadRowsKeeps == ASSUME PersonsInv, LoadRows PROVE PersonsInv'
<1> DEFINE y == [run["sync"] EXCEPT
               !.rows = kontexte, !.its = enabled, !.pc = FirstStep(kontexte, enabled)]
<1>1. TypeInv' /\ run' = [run EXCEPT !["sync"] = y] /\ run["sync"].pc = "rows"
      /\ UNCHANGED <<kontexte, fullName, enabled, person, members, queue, sound>>
  BY LoadRowsTyped DEF PersonsInv, LoadRows, Stands, db, entry
<1>2. y.pc = FirstStep(kontexte, enabled) /\ y.name = run["sync"].name
      /\ y.alone = run["sync"].alone /\ y.rows = kontexte /\ y.its = enabled
  <2>1. run["sync"] \in Runs(fullName)
    BY RunIsTyped DEF PersonsInv, TypeInv, Processes
  <2> QED
    BY <2>1 DEF Runs
<1> HIDE DEF y
<1>3. run'["sync"] = y /\ run'["handler"] = run["handler"]
  BY <1>1 DEF PersonsInv, TypeInv, RunOK, Processes
<1>4. Syncing /\ Syncing'
  BY <1>1, <1>2, <1>3 DEF Syncing, FirstStep
<1>5. Progress(y, person, members)
  BY <1>2 DEF Progress, FirstStep, Whole
<1>6. SyncInv'
  BY <1>1, <1>2, <1>3, <1>4, <1>5 DEF PersonsInv, SyncInv, SyncWell
<1> QED
  BY <1>1, <1>4, <1>6 DEF PersonsInv, Pending

\* The synchronisation goes on.
LEMMA SyncKeeps == ASSUME PersonsInv, Proceed("sync") PROVE PersonsInv'
<1> DEFINE y == run["sync"]
           y1 == run'["sync"]
<1>1. "sync" \in Processes /\ "handler" \in Processes /\ "handler" # "sync"
  BY DEF Processes
<1>2. TypeInv' /\ UNCHANGED <<kontexte, fullName, enabled, update, queue>> /\ Syncing
      /\ run'["handler"] = run["handler"] /\ Frame("sync")
  <2>1. /\ UNCHANGED <<kontexte, fullName, enabled, update, queue>> /\ run["sync"].pc # "idle"
        /\ Frame("sync")
    BY <1>1, ProceedFrame DEF PersonsInv
  <2>2. run'["handler"] = run["handler"]
    BY <1>1, <2>1 DEF Frame, Alone
  <2> QED
    BY <1>1, <2>1, <2>2, ProceedsTyped DEF PersonsInv, Syncing
<1>3. y \in Runs(fullName) /\ y.alone \in BOOLEAN /\ OnItsWay(y) /\ sound \in BOOLEAN
  BY <1>1, RunIsTyped DEF PersonsInv, TypeInv, DbOK, Runs
<1>4. CASE ~y.alone
  <2>1. sound = FALSE
    BY <1>2, <1>3, <1>4 DEF PersonsInv, SyncInv
  <2>2. sound' = FALSE /\ (y1.pc = "idle" \/ y1.alone = FALSE)
    BY <1>2, <1>3, <1>4, <2>1 DEF Frame, FailedNow, GoesOn, Ended, NoRun
  <2> QED
    BY <1>2, <2>2 DEF PersonsInv, SyncInv, Pending, Syncing
<1>5. CASE y.alone
  <2>1. SyncWell(y, run["handler"], kontexte, fullName, enabled, person, members, queue)
    BY <1>2, <1>5 DEF PersonsInv, SyncInv
  <2>2. y.kind = "sync" /\ y.pc \notin {"load", "rows"}
    <3>1. y.kind = "sync"
      BY <1>2, HandlerIdle DEF PersonsInv, Syncing
    <3>2. y.pc \notin {"load", "rows"}
      BY DEF Proceed, ReadPerson, SendPerson, DeletePerson, ReadMembers, RemoveMembers,
         CreateMembers, Stands
    <3> QED
      BY <3>1, <3>2
  <2>3. queue = <<>> /\ run["handler"].pc = "idle" /\ y.name = fullName /\ y.rows = kontexte
        /\ y.its = enabled /\ Progress(y, person, members)
    BY <2>1, <2>2 DEF SyncWell
  <2>4. Works("sync")
    BY <1>1, <2>2, <2>3, SendingWorks DEF PersonsInv, Sending
  <2>5. CASE FailedNow("sync")
    BY <1>2, <2>5 DEF PersonsInv, SyncInv, Pending, Syncing, FailedNow
  <2>6. CASE GoesOn("sync") /\ y1.name = y.name /\ Progress(y1, person', members')
    <3>1. Syncing' /\ y1.alone = y.alone /\ y1.rows = y.rows /\ y1.its = y.its
      BY <2>6 DEF Syncing, GoesOn
    <3>2. SyncWell(y1, run'["handler"], kontexte', fullName', enabled', person', members', queue')
      BY <1>2, <2>3, <2>6, <3>1 DEF SyncWell
    <3> QED
      BY <1>2, <1>5, <3>1, <3>2 DEF PersonsInv, SyncInv, Pending
  <2>7. CASE Ended("sync") /\ Done("sync")
    <3>1. y1 = NoRun /\ ~Syncing'
      BY <2>7 DEF Ended, Syncing, NoRun
    <3>2. run["handler"].kind = "none"
      BY <2>3, HandlerIdle DEF PersonsInv
    <3>3. Fits(kontexte, enabled, person', members') /\ (person' = None \/ person'.name = fullName)
      BY <2>3, <2>7 DEF Done
    <3>4. /\ RowsArrive(kontexte, enabled, person', members', queue, run["handler"])
          /\ NameArrives(fullName, person', queue, run["handler"])
          /\ HandlerWell(run["handler"], person', members')
      BY <2>3, <3>2, <3>3 DEF RowsArrive, NameArrives, HandlerWell, WithRows, WithName
    <3>5. Pending'
      BY <1>2, <3>4 DEF Pending
    <3> QED
      BY <1>2, <3>1, <3>5 DEF PersonsInv, SyncInv
  <2> QED
    BY <2>4, <2>5, <2>6, <2>7 DEF Works
<1> QED
  BY <1>4, <1>5

\* A handler goes on that nothing went wrong for: its event is arriving.
LEMMA HandlerWorks ==
    ASSUME PersonsInv, Proceed("handler"), ~Syncing, sound, sound'
    PROVE  /\ RowsArrive(kontexte, enabled, person', members', queue, run'["handler"])
           /\ NameArrives(fullName, person', queue, run'["handler"])
           /\ HandlerWell(run'["handler"], person', members')
<1> DEFINE h == run["handler"]
           h1 == run'["handler"]
<1>1. "handler" \in Processes /\ TypeInv
  BY DEF Processes, PersonsInv
<1>2. h.pc # "idle"
  BY <1>1, ProceedFrame
<1>3. /\ RowsArrive(kontexte, enabled, person, members, queue, h)
      /\ NameArrives(fullName, person, queue, h)
      /\ HandlerWell(h, person, members)
  BY DEF PersonsInv, Pending
<1>4. h.kind \in {"update", "rename", "email"}
  BY <1>1, <1>2, HandlerIdle
<1>5. ~FailedNow("handler")
  BY DEF FailedNow
<1>6. CASE h.kind = "update"
  <2>1. Works("handler")
    BY <1>1, <1>3, <1>6, SendingWorks DEF Sending, HandlerWell
  <2>2. CASE GoesOn("handler") /\ h1.name = h.name /\ Progress(h1, person', members')
    BY <1>3, <1>6, <2>2 DEF GoesOn, RowsArrive, NameArrives, HandlerWell, WithRows, WithName
  <2>3. CASE Ended("handler") /\ Done("handler")
    <3>1. h1.kind = "none"
      BY <2>3 DEF Ended, NoRun
    <3> QED
      BY <1>3, <1>6, <2>3, <3>1 DEF Done, RowsArrive, NameArrives, HandlerWell, WithRows, WithName
  <2> QED
    BY <1>5, <2>1, <2>2, <2>3 DEF Works
<1>7. CASE h.kind \in {"rename", "email"}
  <2>1. Reread(h, person)
    BY <1>3, <1>7 DEF HandlerWell
  <2>2. CASE /\ GoesOn("handler") /\ Reread(h1, person) /\ person' = person /\ members' = members
             /\ h.kind = "rename" => h1.name = h.name
    BY <1>3, <1>7, <2>2 DEF GoesOn, RowsArrive, NameArrives, HandlerWell, WithRows, WithName
  <2>3. CASE Ended("handler") /\ person = None /\ person' = None /\ members' = members
    <3>1. h1.kind = "none"
      BY <2>3 DEF Ended, NoRun
    <3> QED
      BY <1>3, <1>7, <2>3, <3>1 DEF RowsArrive, NameArrives, HandlerWell, WithRows, WithName
  <2>4. CASE /\ Ended("handler") /\ person # None /\ members' = members
             /\ person' = [name |-> h.name, role |-> person.role]
             /\ h.kind = "email" => person' = person
    <3>1. h1.kind = "none"
      BY <2>4 DEF Ended, NoRun
    <3>2. person' # None /\ person'.role = person.role /\ person'.name = h.name
      BY <1>1, <2>4 DEF None, TypeInv, EntryOK
    <3>3. Fits(kontexte, enabled, person, members) => Fits(kontexte, enabled, person', members')
      BY <2>4, <3>2 DEF Fits
    <3>4. RowsArrive(kontexte, enabled, person', members', queue, h1)
      BY <1>3, <1>7, <3>1, <3>3 DEF RowsArrive, WithRows
    <3>5. NameArrives(fullName, person', queue, h1)
      BY <1>3, <1>7, <2>4, <3>1, <3>2 DEF NameArrives, WithName
    <3> QED
      BY <3>1, <3>4, <3>5 DEF HandlerWell
  <2> HIDE DEF h1
  <2> QED
    BY <1>1, <1>5, <1>7, <2>1, <2>2, <2>3, <2>4, WritingBack DEF h1
<1> QED
  BY <1>4, <1>6, <1>7

LEMMA HandlerKeeps == ASSUME PersonsInv, Proceed("handler") PROVE PersonsInv'
<1>1. "sync" \in Processes /\ "handler" \in Processes /\ "handler" # "sync"
  BY DEF Processes
<1>2. TypeInv' /\ UNCHANGED <<kontexte, fullName, enabled, update, queue>>
      /\ run'["sync"] = run["sync"] /\ Frame("handler") /\ run["handler"].pc # "idle"
  <2>1. /\ UNCHANGED <<kontexte, fullName, enabled, update, queue>> /\ run["handler"].pc # "idle"
        /\ Frame("handler")
    BY <1>1, ProceedFrame DEF PersonsInv
  <2>2. run'["sync"] = run["sync"]
    BY <1>1, <2>1 DEF Frame, Alone
  <2> QED
    BY <1>1, <2>1, <2>2, ProceedsTyped DEF PersonsInv
<1>3. sound' => sound
  BY <1>2 DEF Frame, FailedNow, GoesOn, Ended
<1>4. Syncing' = Syncing
  BY <1>2 DEF Syncing
<1>5. SyncInv'
  <2>1. Syncing => ~run["sync"].alone
    BY <1>2 DEF PersonsInv, SyncInv, SyncWell
  <2>2. Syncing => ~sound
    BY <2>1 DEF PersonsInv, SyncInv
  <2> QED
    BY <1>2, <1>3, <1>4, <2>1, <2>2 DEF SyncInv
<1>6. ASSUME sound', ~Syncing'
      PROVE  /\ RowsArrive(kontexte, enabled, person, members, queue, run["handler"])'
             /\ NameArrives(fullName, person, queue, run["handler"])'
             /\ HandlerWell(run["handler"], person, members)'
  <2>1. /\ RowsArrive(kontexte, enabled, person', members', queue, run'["handler"])
        /\ NameArrives(fullName, person', queue, run'["handler"])
        /\ HandlerWell(run'["handler"], person', members')
    BY <1>3, <1>4, <1>6, HandlerWorks
  <2> QED
    BY <1>2, <2>1
<1>7. Pending'
  BY <1>6 DEF Pending
<1> QED
  BY <1>2, <1>5, <1>7 DEF PersonsInv

LEMMA PersonsInvInductive == ASSUME PersonsInv, [PersonsNext]_personsVars PROVE PersonsInv'
<1>1. CASE UNCHANGED personsVars
  <2>1. TypeInv'
    BY <1>1, StepTyped DEF PersonsInv
  <2>2. UNCHANGED <<kontexte, fullName, enabled, person, members, queue, run, sound>>
    BY <1>1 DEF personsVars
  <2> QED
    BY <2>1, <2>2, NothingKeeps DEF PersonsInv
<1>2. CASE PersonsNext
  BY <1>2, LoadForUpdateKeeps, UpdateKeeps, RenameKeeps, NewAddressKeeps, EnableKeeps, TakeKeeps,
     AskSyncKeeps, LoadPersonKeeps, LoadRowsKeeps, SyncKeeps, HandlerKeeps
     DEF PersonsNext, Change, Synchronise
<1> QED
  BY <1>1, <1>2

\* Once all handlers have ended, itslearning agrees with the database, unless a call
\* failed, a synchronisation met a handler, an update carried an old name or the school
\* was enabled, and no synchronisation has run alone since: what an event is to bring
\* about waits in the queue, is under way, or is there.
THEOREM SoundPersonsAgree == PersonsSpec => []SoundAgrees
<1>1. PersonsInit => PersonsInv
  BY PersonsInitInv
<1>2. PersonsInv /\ [PersonsNext]_personsVars => PersonsInv'
  BY PersonsInvInductive
<1>3. PersonsInv => SoundAgrees
  BY InvAgrees
<1> QED
  BY <1>1, <1>2, <1>3, PTL DEF PersonsSpec

=============================================================================
