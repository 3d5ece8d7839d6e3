------------------------ MODULE RolleRegister_proofs ------------------------
(***************************************************************************)
(* Proofs about the Rollen, for any number of Rollen, Knoten and requests. *)
(***************************************************************************)
EXTENDS RolleRegister, TLAPS

-----------------------------------------------------------------------------
(* Rows, requests, and what a request knows of the row it works on.        *)

Table == Row \cup {Unborn, Deleted}
LiveRow(o) == o.version > 0
WithPage == {"put", "attach", "detach"}

IsRequest(c) ==
    c \in [pc : {c.pc}, op : {c.op}, id : {c.id}, wish : {c.wish}, page : {c.page},
           row : {c.row}, entity : {c.entity}, assigned : {c.assigned}, sites : {c.sites}]

WishOK(c) ==
    /\ c.op = "create" => c.wish \in Row /\ c.wish.version = 1 /\ c.wish.angebote = {}
    /\ c.op = "put" => c.wish \in [name : Names, merkmale : SUBSET Merkmale,
                                   rechte : SUBSET Rechte, angebote : SUBSET Angebote]
    /\ c.op = "recht" => c.wish \subseteq Rechte
    /\ c.op \in {"attach", "detach"} => c.wish \subseteq Angebote
    /\ c.op = "assign" => c.wish \in BOOLEAN

Loaded(c) == c.op \in Changing /\ c.pc \in {"offers", "check", "save"}

\* What the row c.row, which is to be written, leaves as it is in o.
Agrees(c, o) ==
    /\ c.op # "put" => c.row.name = o.name /\ c.row.merkmale = o.merkmale
    /\ c.op \in {"attach", "detach"} => c.row.rechte = o.rechte
    /\ c.op = "recht" => c.row.angebote = o.angebote /\ c.row.rechte = o.rechte \cup c.wish

\* The version that update() is going to compare is no newer than the row; if it
\* is the version of the row, then the row is the one that was loaded.
Seen(c, o) ==
    /\ c.row \in Row /\ c.row.knoten \in c.sites
    /\ c.op # "recht" => c.row.version = c.page
    /\ c.op = "put" => c.row.angebote = c.wish.angebote /\ c.row.merkmale = c.wish.merkmale
    /\ LiveRow(o) =>
        /\ c.row.version <= o.version /\ c.row.knoten = o.knoten
        /\ c.row.version = o.version => Agrees(c, o)

Good(c, o) ==
    /\ IsRequest(c) /\ c.id \in Ids /\ c.pc # "idle"
    /\ WishOK(c)
    /\ c.op = "create" => o = Unborn /\ c.wish.knoten \in c.sites
    /\ c.op # "create" => o # Unborn /\ c.id \in c.sites
    /\ c.op \in WithPage => c.page \in Nat \ {0} /\ (LiveRow(o) => c.page <= o.version)
    /\ c.op \in Changing /\ LiveRow(o) => o.knoten \in c.sites
    /\ Loaded(c) => Seen(c, o)

Typed ==
    /\ TypeOK
    /\ rollen = [id \in Ids |-> rollen[id]] /\ kontexte = [id \in Ids |-> kontexte[id]]
    /\ told = [id \in Ids |-> told[id]] /\ call = [r \in Requests |-> call[r]]

\* Requests for one site overlap only where raced tells so.
Inv ==
    /\ Typed
    /\ \A r \in Requests : Busy(r) => Good(call[r], rollen[call[r].id])
    /\ \A r, s \in Requests : Busy(r) /\ Busy(s) /\ r # s =>
        /\ call[r].op = "create" => call[r].id # call[s].id
        /\ call[r].sites \cap call[s].sites \subseteq raced

\* How a row may change under a request that did not change it.
Later(o, p) ==
    \/ p = o
    \/ o # Unborn /\ p = Deleted
    \/ o \in Row /\ p \in Row /\ p.version > o.version /\ p.knoten = o.knoten

LEMMA TableRows ==
    ASSUME NEW o \in Table
    PROVE  /\ LiveRow(o) <=> o \in Row
           /\ o \in Row => o # Unborn /\ o # Deleted /\ o.version \in Nat
           /\ Unborn # Deleted /\ ~LiveRow(Unborn) /\ ~LiveRow(Deleted)
<1>1. Unborn.version = 0 /\ Deleted.version = 0 /\ Unborn # Deleted
  BY DEF Unborn, Deleted
<1>2. \A p \in Row : p.version \in Nat \ {0}
  BY DEF Row
<1> QED
  BY <1>1, <1>2 DEF Table, LiveRow

LEMMA LaterIsGood ==
    ASSUME NEW c, NEW o \in Table, NEW p \in Table, Good(c, o), Later(o, p)
    PROVE  Good(c, p) \/ c.op = "create"
<1> SUFFICES ASSUME c.op # "create" PROVE Good(c, p)
  OBVIOUS
<1>1. CASE p = o
  BY <1>1
<1>2. CASE p = Deleted
  <2>1. ~LiveRow(p) /\ p # Unborn
    BY <1>2, TableRows
  <2> QED
    BY <2>1 DEF Good, Seen
<1>3. CASE o \in Row /\ p \in Row /\ p.version > o.version /\ p.knoten = o.knoten
  <2>1. o.version \in Nat /\ p.version \in Nat /\ LiveRow(o) /\ LiveRow(p) /\ p # Unborn
    BY <1>3, TableRows
  <2>2. Loaded(c) => Seen(c, p)
    <3> SUFFICES ASSUME Loaded(c) PROVE Seen(c, p)
      OBVIOUS
    <3>1. Seen(c, o) /\ c.row.version \in Nat
      BY DEF Good, Seen, Row
    <3> QED
      BY <1>3, <2>1, <3>1 DEF Seen
  <2> QED
    BY <1>3, <2>1, <2>2 DEF Good, WithPage
<1> QED
  BY <1>1, <1>2, <1>3 DEF Later

LEMMA Requested ==
    ASSUME Inv, NEW r \in Requests, Busy(r)
    PROVE  /\ Good(call[r], rollen[call[r].id]) /\ call[r].id \in Ids
           /\ rollen[call[r].id] \in Table
BY DEF Inv, Good, Typed, TypeOK, Table

\* The fields of a request that goes on.
Onward(c, pc, row, entity, assigned) ==
    [pc : {pc}, op : {c.op}, id : {c.id}, wish : {c.wish}, page : {c.page},
     row : {row}, entity : {entity}, assigned : {assigned}, sites : {c.sites}]

LEMMA OnwardFields ==
    ASSUME NEW c, NEW pc, NEW row, NEW entity, NEW assigned,
           NEW d \in Onward(c, pc, row, entity, assigned)
    PROVE  /\ IsRequest(d) /\ d.pc = pc /\ d.op = c.op /\ d.id = c.id /\ d.wish = c.wish
           /\ d.page = c.page /\ d.row = row /\ d.assigned = assigned /\ d.sites = c.sites
BY DEF Onward, IsRequest

\* A step of a request that changes no row but its own.
LEMMA StepInv ==
    ASSUME Inv, NEW r \in Requests, Busy(r), NEW d, call' = [call EXCEPT ![r] = d],
           Typed', raced' = raced,
           \A k \in Ids : k # call[r].id => rollen'[k] = rollen[k],
           \/ call[r].op = "create"
           \/ Later(rollen[call[r].id], rollen'[call[r].id]),
           \/ d = Idle
           \/ /\ Good(d, rollen'[d.id]) /\ d.id = call[r].id
              /\ d.op = call[r].op /\ d.sites = call[r].sites
    PROVE  Inv'
<1>1. call'[r] = d /\ \A s \in Requests \ {r} : call'[s] = call[s]
  BY DEF Inv, Typed
<1>2. ASSUME NEW s \in Requests, call'[s] # Idle PROVE Good(call'[s], rollen'[call'[s].id])
  <2>1. CASE s = r
    BY <1>1, <1>2, <2>1
  <2>2. CASE s # r
    <3>1. call'[s] = call[s] /\ Busy(s)
      BY <1>1, <1>2, <2>2 DEF Busy
    <3>2. Good(call[s], rollen[call[s].id]) /\ call[s].id \in Ids /\ rollen[call[s].id] \in Table
      BY <3>1, Requested
    <3>3. CASE call[s].id # call[r].id
      BY <3>1, <3>2, <3>3
    <3>4. CASE call[s].id = call[r].id
      <4>1. call[s].op # "create" /\ call[r].op # "create"
        BY <2>2, <3>1, <3>4 DEF Inv
      <4>2. rollen'[call[s].id] \in Table
        BY <3>2 DEF Typed, TypeOK, Table, Ids, Row, Unborn, Deleted
      <4> QED
        BY <3>1, <3>2, <3>4, <4>1, <4>2, LaterIsGood
    <3> QED
      BY <3>3, <3>4
  <2> QED
    BY <2>1, <2>2
<1>3. ASSUME NEW s \in Requests, NEW t \in Requests, call'[s] # Idle, call'[t] # Idle, s # t
      PROVE  /\ call'[s].op = "create" => call'[s].id # call'[t].id
             /\ call'[s].sites \cap call'[t].sites \subseteq raced'
  BY <1>1, <1>3 DEF Inv, Busy
<1> QED
  BY <1>2, <1>3 DEF Inv, Busy

\* A request that goes on with nothing else changed, or ends.
LEMMA GoInv ==
    ASSUME Inv, NEW r \in Requests, Busy(r), NEW d, Go(r, d),
           \/ d = Idle
           \/ /\ Good(d, rollen[call[r].id]) /\ d.id = call[r].id
              /\ d.op = call[r].op /\ d.sites = call[r].sites
    PROVE  Inv'
<1>1. call' = [call EXCEPT ![r] = d]
      /\ UNCHANGED <<rollen, kontexte, angebote, told, calls, raced>>
  BY DEF Go, Set
<1>2. Typed'
  <2>1. call' = [s \in Requests |-> call'[s]]
    BY <1>1 DEF Inv, Typed
  <2> QED
    BY <1>1, <2>1 DEF Inv, Typed, TypeOK, Live
<1>3. d = Idle \/ Good(d, rollen'[d.id])
  BY <1>1
<1> QED
  BY <1>1, <1>2, <1>3, StepInv DEF Later

LEMMA RefuseInv == ASSUME Inv, NEW r \in Requests, Busy(r), Refuse(r) PROVE Inv'
BY GoInv DEF Refuse

-----------------------------------------------------------------------------
(* Requests begin and read.                                                *)

LEMMA BeginInv ==
    ASSUME Inv, NEW r \in Requests, NEW op, NEW pc, NEW id \in Ids, NEW wish, NEW page, NEW sites,
           Begin(r, op, pc, id, wish, page, sites),
           pc # "idle", pc \in {"offers", "check", "save"} => op \notin Changing,
           \A c : c.op = op /\ c.wish = wish => WishOK(c),
           op = "create" => /\ rollen[id] = Unborn /\ wish.knoten \in sites
                            /\ \A q \in Requests : Busy(q) => call[q].id # id,
           op # "create" => Live(id) /\ id \in sites,
           op \in WithPage => page \in 1 .. rollen[id].version,
           op \in Changing => rollen[id].knoten \in sites
    PROVE  Inv'
<1> DEFINE d == [pc |-> pc, op |-> op, id |-> id, wish |-> wish, page |-> page,
                 row |-> Unborn, entity |-> 0, assigned |-> FALSE, sites |-> sites]
<1>1. /\ call[r] = Idle /\ call' = [call EXCEPT ![r] = d] /\ calls < MaxCalls /\ calls' = calls + 1
      /\ raced' = raced \cup UNION {sites \cap call[q].sites : q \in {q \in Requests : Busy(q)}}
      /\ UNCHANGED <<rollen, kontexte, angebote, told>>
  BY DEF Begin, Busy
<1>2. /\ IsRequest(d) /\ d.pc = pc /\ d.op = op /\ d.id = id /\ d.wish = wish /\ d.page = page
      /\ d.sites = sites
  BY DEF IsRequest
<1> HIDE DEF d
<1>3. call' = [s \in Requests |-> call'[s]] /\ call'[r] = d
      /\ \A s \in Requests \ {r} : call'[s] = call[s]
  BY <1>1 DEF Inv, Typed
<1>4. Typed'
  BY <1>1, <1>3, RolleAssumption DEF Inv, Typed, TypeOK, Live
<1>5. rollen[id] \in Table
  BY DEF Inv, Typed, TypeOK, Table
<1>6. Good(d, rollen[id])
  <2>1. op # "create" => rollen[id] \in Row /\ rollen[id] # Unborn /\ rollen[id].version \in Nat
    BY <1>5, TableRows DEF Live, LiveRow
  <2>2. op \in WithPage => page \in Nat \ {0} /\ page <= rollen[id].version
    BY <2>1 DEF WithPage
  <2>3. ~Loaded(d) /\ WishOK(d)
    BY <1>2 DEF Loaded
  <2> QED
    BY <1>2, <2>1, <2>2, <2>3 DEF Good
<1>7. ASSUME NEW s \in Requests, call'[s] # Idle PROVE Good(call'[s], rollen'[call'[s].id])
  BY <1>1, <1>2, <1>3, <1>6, <1>7 DEF Inv, Busy
<1>8. \A s \in Requests \ {r} : Busy(s) => /\ call[s].id = id => op # "create" /\ call[s].op # "create"
                                           /\ sites \cap call[s].sites \subseteq raced'
  <2> SUFFICES ASSUME NEW s \in Requests \ {r}, Busy(s)
               PROVE  /\ call[s].id = id => op # "create" /\ call[s].op # "create"
                      /\ sites \cap call[s].sites \subseteq raced'
    OBVIOUS
  <2>1. call[s].op = "create" => rollen[call[s].id] = Unborn
    BY Requested DEF Good
  <2>2. call[s].id = id => op # "create" /\ call[s].op # "create"
    BY <1>5, <2>1, TableRows DEF Live, LiveRow
  <2>3. sites \cap call[s].sites \subseteq raced'
    BY <1>1
  <2> QED
    BY <2>2, <2>3
<1>9. ASSUME NEW s \in Requests, NEW t \in Requests, call'[s] # Idle, call'[t] # Idle, s # t
      PROVE  /\ call'[s].op = "create" => call'[s].id # call'[t].id
             /\ call'[s].sites \cap call'[t].sites \subseteq raced'
  <2>1. raced \subseteq raced'
    BY <1>1
  <2> QED
    BY <1>2, <1>3, <1>8, <1>9, <2>1 DEF Inv, Busy
<1> QED
  BY <1>4, <1>7, <1>9 DEF Inv, Busy

LEMMA AskInv == ASSUME Inv, NEW r \in Requests, Ask(r) PROVE Inv'
<1> USE DEF Changing, WithPage
<1>1. CASE AskCreate(r)
  <2>1. PICK id \in NewIds, name \in Names, knoten \in Knoten,
             merkmale \in SUBSET Merkmale, rechte \in SUBSET Rechte :
          /\ rollen[id] = Unborn
          /\ \A q \in Requests : Busy(q) => call[q].id # id
          /\ Begin(r, "create", "check", id,
                   [name |-> name, knoten |-> knoten, merkmale |-> merkmale, rechte |-> rechte,
                    angebote |-> {}, version |-> 1], 0, {knoten})
    BY <1>1 DEF AskCreate
  <2> DEFINE w == [name |-> name, knoten |-> knoten, merkmale |-> merkmale, rechte |-> rechte,
                   angebote |-> {}, version |-> 1]
  <2>2. w \in Row /\ w.version = 1 /\ w.angebote = {} /\ w.knoten = knoten /\ id \in Ids
    BY DEF Row, Ids
  <2>3. Begin(r, "create", "check", id, w, 0, {knoten})
    BY <2>1
  <2> HIDE DEF w
  <2>4. \A c : c.op = "create" /\ c.wish = w => WishOK(c)
    BY <2>2 DEF WishOK
  <2> QED
    BY <2>1, <2>2, <2>3, <2>4, BeginInv
<1>2. CASE AskPut(r)
  <2>1. PICK id \in Ids, name \in Names, merkmale \in SUBSET Merkmale, rechte \in SUBSET Rechte,
             wanted \in SUBSET angebote :
          /\ Live(id)
          /\ \E page \in 1 .. rollen[id].version :
                 Begin(r, "put", "assigned", id,
                       [name |-> name, merkmale |-> merkmale, rechte |-> rechte, angebote |-> wanted],
                       page, {id, rollen[id].knoten})
    BY <1>2 DEF AskPut
  <2> DEFINE w == [name |-> name, merkmale |-> merkmale, rechte |-> rechte, angebote |-> wanted]
  <2>2. PICK page \in 1 .. rollen[id].version :
          Begin(r, "put", "assigned", id, w, page, {id, rollen[id].knoten})
    BY <2>1
  <2>3. w \in [name : Names, merkmale : SUBSET Merkmale, rechte : SUBSET Rechte,
               angebote : SUBSET Angebote]
    BY DEF Inv, Typed, TypeOK
  <2> HIDE DEF w
  <2>4. \A c : c.op = "put" /\ c.wish = w => WishOK(c)
    BY <2>3 DEF WishOK
  <2> QED
    BY <2>1, <2>2, <2>4, BeginInv
<1>3. CASE AskChange(r)
  <2>1. PICK id \in Ids :
          /\ Live(id)
          /\ LET sites == {id, rollen[id].knoten}
             IN  \/ \E recht \in Rechte : Begin(r, "recht", "load", id, {recht}, 0, sites)
                 \/ \E page \in 1 .. rollen[id].version, some \in SUBSET angebote,
                       op \in {"attach", "detach"} :
                        Begin(r, op, "load", id, some, page, sites)
    BY <1>3 DEF AskChange
  <2> DEFINE sites == {id, rollen[id].knoten}
  <2>2. CASE \E recht \in Rechte : Begin(r, "recht", "load", id, {recht}, 0, sites)
    <3>1. PICK recht \in Rechte : Begin(r, "recht", "load", id, {recht}, 0, sites)
      BY <2>2
    <3>2. \A c : c.op = "recht" /\ c.wish = {recht} => WishOK(c)
      BY DEF WishOK
    <3> QED
      BY <2>1, <3>1, <3>2, BeginInv
  <2>3. ASSUME NEW page \in 1 .. rollen[id].version, NEW some \in SUBSET angebote,
               NEW op \in {"attach", "detach"}, Begin(r, op, "load", id, some, page, sites)
        PROVE  Inv'
    <3>1. \A c : c.op = op /\ c.wish = some => WishOK(c)
      BY DEF WishOK, Inv, Typed, TypeOK
    <3> QED
      BY <2>1, <2>3, <3>1, BeginInv
  <2> QED
    BY <2>1, <2>2, <2>3
<1>4. CASE AskDelete(r)
  <2>1. PICK id \in Ids : Live(id) /\ Begin(r, "delete", "load", id, {}, 0, {id})
    BY <1>4 DEF AskDelete
  <2>2. \A c : c.op = "delete" /\ c.wish = {} => WishOK(c)
    BY DEF WishOK
  <2> QED
    BY <2>1, <2>2, BeginInv
<1>5. CASE AskAssign(r)
  <2>1. PICK id \in Ids, befristet \in BOOLEAN :
          Live(id) /\ Begin(r, "assign", "load", id, befristet, 0, {id})
    BY <1>5 DEF AskAssign
  <2>2. \A c : c.op = "assign" /\ c.wish = befristet => WishOK(c)
    BY DEF WishOK
  <2> QED
    BY <2>1, <2>2, BeginInv
<1> QED
  BY <1>1, <1>2, <1>3, <1>4, <1>5 DEF Ask

\* Steps that only move a request on.
LEMMA MoveOn ==
    ASSUME Inv, NEW r \in Requests, Busy(r), NEW pc, pc # "idle",
           NEW entity, NEW assigned, NEW d,
           d \in Onward(call[r], pc, call[r].row, entity, assigned),
           Go(r, d), Loaded(d) => Loaded(call[r])
    PROVE  Inv'
<1>1. Good(call[r], rollen[call[r].id])
  BY Requested
<1>2. /\ IsRequest(d) /\ d.pc = pc /\ d.op = call[r].op /\ d.id = call[r].id /\ d.wish = call[r].wish
      /\ d.page = call[r].page /\ d.row = call[r].row /\ d.sites = call[r].sites
  BY OnwardFields
<1>3. Loaded(d) => Seen(d, rollen[call[r].id])
  BY <1>1, <1>2 DEF Good, Seen, Agrees
<1>4. WishOK(d)
  BY <1>1, <1>2 DEF Good, WishOK
<1>5. Good(d, rollen[call[r].id])
  BY <1>1, <1>2, <1>3, <1>4 DEF Good
<1> QED
  BY <1>2, <1>5, GoInv

\* What findById() and the endpoint make of the row.
LEMMA WantedRow ==
    ASSUME NEW c, NEW o \in Row, WishOK(c), c.op \in WithPage => c.page \in Nat \ {0}, NEW row,
           row = Wanted(c, o)
    PROVE  /\ row \in Row /\ row.knoten = o.knoten
           /\ c.op \in WithPage => row.version = c.page
           /\ c.op \notin WithPage => row.version = o.version
           /\ c.op = "put" => row.angebote = c.wish.angebote /\ row.merkmale = c.wish.merkmale
           /\ c.op # "put" => row.name = o.name /\ row.merkmale = o.merkmale
           /\ c.op \in {"attach", "detach"} => row.rechte = o.rechte
           /\ c.op = "recht" => row.angebote = o.angebote /\ row.rechte = o.rechte \cup c.wish
<1> USE DEF WithPage
<1>1. CASE c.op = "put"
  <2>1. row = [o EXCEPT !.name = c.wish.name, !.merkmale = c.wish.merkmale, !.rechte = c.wish.rechte,
                        !.angebote = c.wish.angebote, !.version = c.page]
    BY <1>1 DEF Wanted
  <2>2. /\ c.wish.name \in Names /\ c.wish.merkmale \in SUBSET Merkmale
        /\ c.wish.rechte \in SUBSET Rechte /\ c.wish.angebote \in SUBSET Angebote
    BY <1>1 DEF WishOK
  <2> QED
    BY <1>1, <2>1, <2>2 DEF Row
<1>2. CASE c.op = "recht"
  <2>1. row = [o EXCEPT !.rechte = o.rechte \cup c.wish] /\ c.wish \subseteq Rechte
    BY <1>2 DEF Wanted, WishOK, Row
  <2> QED
    BY <1>2, <2>1 DEF Row
<1>3. CASE c.op = "attach"
  <2>1. row = [o EXCEPT !.angebote = c.wish, !.version = c.page] /\ c.wish \subseteq Angebote
    BY <1>3 DEF Wanted, WishOK
  <2> QED
    BY <1>3, <2>1 DEF Row
<1>4. CASE c.op = "detach"
  <2>1. row = [o EXCEPT !.angebote = o.angebote \ c.wish, !.version = c.page]
    BY <1>4 DEF Wanted, Row
  <2> QED
    BY <1>4, <2>1 DEF Row
<1>5. CASE c.op \notin {"put", "recht", "attach", "detach"}
  BY <1>5 DEF Wanted
<1> QED
  BY <1>1, <1>2, <1>3, <1>4, <1>5

\* How LoadRow() goes on if it does not refuse.
LEMMA LoadedAs ==
    ASSUME Inv, NEW r \in Requests, LoadRow(r), ~Refuse(r)
    PROVE  \E d : /\ Go(r, d) /\ IsRequest(d)
                  /\ d.pc = IF call[r].op = "delete" THEN "save" ELSE "offers"
                  /\ d.op = call[r].op /\ d.id = call[r].id /\ d.wish = call[r].wish
                  /\ d.page = call[r].page /\ d.sites = call[r].sites
                  /\ d.row = Wanted(call[r], rollen[call[r].id])
                  /\ MayChange(call[r], rollen[call[r].id]) /\ LiveRow(rollen[call[r].id])
                  /\ call[r].pc = "load" /\ call[r].op \in Changing \cup {"delete"}
<1> DEFINE c == call[r]
           o == rollen[c.id]
           w == Wanted(c, o)
           n == o.version
           pc == IF c.op = "delete" THEN "save" ELSE "offers"
           d == [c EXCEPT !.row = w, !.entity = n, !.pc = pc]
<1>1. /\ Go(r, d) /\ MayChange(c, o) /\ LiveRow(o) /\ c.pc = "load"
      /\ c.op \in Changing \cup {"delete"}
  BY DEF LoadRow, At, Live, LiveRow
<1>2. IsRequest(c)
  <2>1. Busy(r)
    BY <1>1 DEF Busy, Idle
  <2> QED
    BY <2>1, Requested DEF Good
<1> HIDE DEF w, n, pc, o
<1>3. d \in Onward(c, pc, w, n, c.assigned)
  BY <1>2 DEF IsRequest, Onward
<1> HIDE DEF d
<1>4. IsRequest(d) /\ d.pc = pc /\ d.op = c.op /\ d.id = c.id /\ d.wish = c.wish
      /\ d.page = c.page /\ d.row = w /\ d.sites = c.sites
  BY <1>3, OnwardFields
<1> QED
  BY <1>1, <1>4 DEF w, pc, o

LEMMA LoadInv == ASSUME Inv, NEW r \in Requests, LoadRow(r) PROVE Inv'
<1> DEFINE c == call[r]
           o == rollen[c.id]
<1>1. Busy(r)
  BY DEF LoadRow, At, Busy, Idle
<1>2. Good(c, o) /\ o \in Table
  BY <1>1, Requested
<1>3. CASE Refuse(r)
  BY <1>1, <1>3, RefuseInv
<1>4. CASE ~Refuse(r)
  <2>1. PICK d : /\ Go(r, d) /\ IsRequest(d)
                 /\ d.pc = IF c.op = "delete" THEN "save" ELSE "offers"
                 /\ d.op = c.op /\ d.id = c.id /\ d.wish = c.wish
                 /\ d.page = c.page /\ d.sites = c.sites /\ d.row = Wanted(c, o)
                 /\ LiveRow(o) /\ c.pc = "load" /\ c.op \in Changing \cup {"delete"}
    BY <1>4, LoadedAs
  <2>2. o \in Row /\ o.version \in Nat
    BY <1>2, <2>1, TableRows
  <2> HIDE DEF o, c
  <2>3. WishOK(d) /\ WishOK(c) /\ (c.op \in WithPage => c.page \in Nat \ {0} /\ c.page <= o.version)
    BY <1>2, <2>1 DEF Good, WishOK
  <2>4. Loaded(d) => Seen(d, o)
    <3> SUFFICES ASSUME Loaded(d) PROVE Seen(d, o)
      OBVIOUS
    <3>1. c.op \in Changing /\ o.knoten \in c.sites
      BY <1>2, <2>1 DEF Loaded, Good
    <3>2. /\ d.row \in Row /\ d.row.knoten = o.knoten
          /\ c.op \in WithPage => d.row.version = c.page
          /\ c.op \notin WithPage => d.row.version = o.version
          /\ c.op = "put" => d.row.angebote = c.wish.angebote /\ d.row.merkmale = c.wish.merkmale
          /\ Agrees(d, o)
      BY <2>1, <2>2, <2>3, WantedRow DEF Agrees
    <3> QED
      BY <2>1, <2>2, <2>3, <3>1, <3>2 DEF Seen, Changing, WithPage
  <2>5. Good(d, o)
    BY <1>2, <2>1, <2>3, <2>4 DEF Good
  <2> QED
    BY <1>1, <2>1, <2>5, GoInv DEF o, c
<1> QED
  BY <1>3, <1>4

LEMMA CheckInv ==
    ASSUME Inv, NEW r \in Requests,
           CheckAssigned(r) \/ CheckOffers(r) \/ CheckName(r) \/ CheckBefristung(r)
    PROVE  Inv'
<1>1. Busy(r)
  BY DEF CheckAssigned, CheckOffers, CheckName, CheckBefristung, At, Busy, Idle
<1>2. IsRequest(call[r])
  BY <1>1, Requested DEF Good
<1>3. CASE Refuse(r)
  BY <1>1, <1>3, RefuseInv
<1>4. CASE CheckAssigned(r)
  <2> DEFINE a == kontexte[call[r].id] # {}
             d == [call[r] EXCEPT !.pc = "load", !.assigned = a]
  <2>1. Go(r, d)
    BY <1>4 DEF CheckAssigned
  <2> HIDE DEF a
  <2>2. d \in Onward(call[r], "load", call[r].row, call[r].entity, a)
    BY <1>2 DEF IsRequest, Onward
  <2> HIDE DEF d
  <2>3. d.pc = "load"
    BY <2>2, OnwardFields
  <2> QED
    BY <1>1, <2>1, <2>2, <2>3, MoveOn DEF Loaded
<1>5. CASE CheckOffers(r) /\ ~Refuse(r)
  <2> DEFINE d == [call[r] EXCEPT !.pc = "check"]
  <2>1. Go(r, d) /\ Loaded(call[r])
    BY <1>5 DEF CheckOffers, At, Loaded
  <2>2. d \in Onward(call[r], "check", call[r].row, call[r].entity, call[r].assigned)
    BY <1>2 DEF IsRequest, Onward
  <2> HIDE DEF d
  <2> QED
    BY <1>1, <2>1, <2>2, MoveOn
<1>6. CASE CheckName(r) /\ ~Refuse(r)
  <2>1. PICK v : Go(r, [call[r] EXCEPT !.pc = "save", !.entity = v])
    BY <1>6 DEF CheckName
  <2> DEFINE d == [call[r] EXCEPT !.pc = "save", !.entity = v]
  <2>2. d \in Onward(call[r], "save", call[r].row, v, call[r].assigned)
    BY <1>2 DEF IsRequest, Onward
  <2>3. Go(r, d)
    BY <2>1
  <2> HIDE DEF d
  <2>4. d.op = call[r].op
    BY <2>2, OnwardFields
  <2>5. Loaded(d) => Loaded(call[r])
    BY <1>6, <2>4 DEF Loaded, CheckName, At
  <2> QED
    BY <1>1, <2>2, <2>3, <2>5, MoveOn
<1>7. CASE CheckBefristung(r) /\ ~Refuse(r)
  <2> DEFINE d == [call[r] EXCEPT !.pc = "save"]
  <2>1. Go(r, d) /\ call[r].op = "assign"
    BY <1>7 DEF CheckBefristung, At
  <2>2. d \in Onward(call[r], "save", call[r].row, call[r].entity, call[r].assigned)
    BY <1>2 DEF IsRequest, Onward
  <2> HIDE DEF d
  <2>3. ~Loaded(d)
    BY <2>1, <2>2, OnwardFields DEF Loaded, Changing
  <2> QED
    BY <1>1, <2>1, <2>2, <2>3, MoveOn
<1> QED
  BY <1>3, <1>4, <1>5, <1>6, <1>7

-----------------------------------------------------------------------------
(* Requests write.                                                         *)

\* Equal versions are the same row, and if a client sent one it is of that row.
LEMMA UpdatesSeen ==
    ASSUME Inv, NEW r \in Requests, At(r, Changing, "save"), UpToDate(r)
    PROVE  LET c == call[r]  o == rollen[call[r].id]
           IN  /\ Busy(r) /\ Good(c, o) /\ Seen(c, o) /\ c.id \in Ids
               /\ o \in Row /\ c.row \in Row
               /\ o.version = c.entity /\ o.version \in Nat
               /\ c.row.knoten = o.knoten /\ Agrees(c, o)
               /\ c.op # "recht" => o.version = c.page
<1>1. Busy(r) /\ Loaded(call[r])
  BY DEF At, Busy, Idle, Loaded
<1>2. /\ Good(call[r], rollen[call[r].id]) /\ call[r].id \in Ids
      /\ rollen[call[r].id] \in Table
  BY <1>1, Requested
<1>3. rollen[call[r].id] \in Row /\ LiveRow(rollen[call[r].id]) /\ rollen[call[r].id].version \in Nat
  BY <1>2, TableRows DEF UpToDate, Live, LiveRow
<1>4. Seen(call[r], rollen[call[r].id])
  BY <1>1, <1>2 DEF Good
<1> QED
  BY <1>1, <1>2, <1>3, <1>4 DEF Seen, UpToDate

\* The row that Update() writes.
Written(r) == [call[r].row EXCEPT !.version = call[r].entity + 1]

LEMMA WrittenRow ==
    ASSUME Inv, NEW r \in Requests, At(r, Changing, "save"), UpToDate(r)
    PROVE  LET c == call[r]  w == Written(r)
           IN  /\ w \in Row /\ w.version = rollen[c.id].version + 1
               /\ w.name = c.row.name /\ w.knoten = c.row.knoten /\ w.merkmale = c.row.merkmale
               /\ w.rechte = c.row.rechte /\ w.angebote = c.row.angebote
<1>1. call[r].row \in Row /\ call[r].entity \in Nat /\ rollen[call[r].id].version = call[r].entity
  BY UpdatesSeen
<1> DEFINE row == call[r].row
           n == call[r].entity
<1>2. row \in [name : Names, knoten : Knoten, merkmale : SUBSET Merkmale, rechte : SUBSET Rechte,
               angebote : SUBSET Angebote, version : Nat \ {0}]
  BY <1>1 DEF Row
<1>3. Written(r) = [row EXCEPT !.version = n + 1] /\ n + 1 \in Nat \ {0}
  BY <1>1 DEF Written
<1> HIDE DEF row, n
<1> QED
  BY <1>1, <1>2, <1>3 DEF Row, row, n

\* The fields of a request that was written, and is to be told of.
LEMMA TellingRequest ==
    ASSUME Inv, NEW r \in Requests, Busy(r), NEW d, d = [call[r] EXCEPT !.pc = "tell"]
    PROVE  /\ IsRequest(d) /\ d.pc = "tell" /\ d.op = call[r].op /\ d.id = call[r].id
           /\ d.wish = call[r].wish /\ d.page = call[r].page /\ d.sites = call[r].sites
<1>1. IsRequest(call[r])
  BY Requested DEF Good
<1>2. d \in Onward(call[r], "tell", call[r].row, call[r].entity, call[r].assigned)
  BY <1>1 DEF IsRequest, Onward
<1> QED
  BY <1>2, OnwardFields

LEMMA UpdateInv == ASSUME Inv, NEW r \in Requests, Update(r) PROVE Inv'
<1> DEFINE c == call[r]
           o == rollen[c.id]
           w == Written(r)
           t == [c EXCEPT !.pc = "tell"]
           d == IF c.op = "put" THEN t ELSE Idle
<1>1. /\ At(r, Changing, "save") /\ UpToDate(r) /\ c.row.angebote \subseteq angebote
      /\ rollen' = [rollen EXCEPT ![c.id] = w] /\ call' = [call EXCEPT ![r] = d]
      /\ UNCHANGED <<kontexte, angebote, told, calls, raced>>
  BY DEF Update, Set, Written
<1>2. /\ Busy(r) /\ Good(c, o) /\ c.id \in Ids /\ o \in Row /\ o.version \in Nat
      /\ c.row.knoten = o.knoten /\ (c.op # "recht" => o.version = c.page)
  BY <1>1, UpdatesSeen
<1>3. w \in Row /\ w.version = o.version + 1 /\ w.knoten = o.knoten /\ w.angebote = c.row.angebote
  BY <1>1, <1>2, WrittenRow
<1> HIDE DEF w
<1>4. Later(o, w) /\ w \in Table /\ LiveRow(w)
  BY <1>2, <1>3, TableRows DEF Later, Table
<1>5. rollen' = [id \in Ids |-> IF id = c.id THEN w ELSE rollen[id]]
  BY <1>1, <1>2 DEF Inv, Typed
<1>6. Typed'
  <2>1. call' = [s \in Requests |-> call'[s]]
    BY <1>1 DEF Inv, Typed
  <2>2. \A id \in Ids : /\ rollen'[id] \in Row \cup {Unborn, Deleted}
                        /\ kontexte[id] # {} => rollen'[id].version > 0
                        /\ rollen'[id].version > 0 => rollen'[id].angebote \subseteq angebote
    BY <1>1, <1>3, <1>4, <1>5 DEF Inv, Typed, TypeOK, Live, LiveRow
  <2>3. rollen' = [id \in Ids |-> rollen'[id]]
    BY <1>5
  <2> QED
    BY <1>1, <2>1, <2>2, <2>3 DEF Inv, Typed, TypeOK, Live
<1>7. c.op = "put" => Good(t, w) /\ t.id = c.id /\ t.op = c.op /\ t.sites = c.sites
  <2>1. /\ IsRequest(t) /\ t.pc = "tell" /\ t.op = c.op /\ t.id = c.id /\ t.wish = c.wish
        /\ t.page = c.page /\ t.sites = c.sites
    BY <1>2, TellingRequest
  <2>2. w # Unborn
    BY <1>3, <1>4, TableRows
  <2> HIDE DEF t, o
  <2>3. ~Loaded(t) /\ (WishOK(c) => WishOK(t))
    BY <2>1 DEF Loaded, WishOK
  <2>4. LiveRow(o)
    BY <1>2, TableRows DEF Table
  <2> QED
    BY <1>2, <1>3, <2>1, <2>2, <2>3, <2>4 DEF Good, WithPage, Changing
<1>8. rollen'[c.id] = w /\ \A k \in Ids : k # c.id => rollen'[k] = rollen[k]
  BY <1>2, <1>5
<1>9. \/ d = Idle
      \/ Good(d, rollen'[d.id]) /\ d.id = c.id /\ d.op = c.op /\ d.sites = c.sites
  BY <1>7, <1>8
<1> HIDE DEF d
<1> QED
  BY <1>1, <1>2, <1>4, <1>6, <1>8, <1>9, StepInv

LEMMA InsertInv == ASSUME Inv, NEW r \in Requests, Insert(r) PROVE Inv'
<1>1. /\ Busy(r) /\ call[r].op = "create" /\ call' = [call EXCEPT ![r] = Idle]
      /\ rollen' = [rollen EXCEPT ![call[r].id] = call[r].wish]
      /\ told' = [told EXCEPT ![call[r].id] = {}]
      /\ UNCHANGED <<kontexte, angebote, calls, raced>>
  BY DEF Insert, At, Set, Busy, Idle
<1>2. call[r].id \in Ids /\ call[r].wish \in Row /\ call[r].wish.version = 1 /\ call[r].wish.angebote = {}
  BY <1>1, Requested DEF Good, WishOK
<1>3. rollen' = [id \in Ids |-> IF id = call[r].id THEN call[r].wish ELSE rollen[id]]
  BY <1>1 DEF Inv, Typed
<1>4. told' = [id \in Ids |-> IF id = call[r].id THEN {} ELSE told[id]]
  BY <1>1 DEF Inv, Typed
<1>5. Typed'
  <2>1. call' = [s \in Requests |-> call'[s]]
    BY <1>1 DEF Inv, Typed
  <2>2. \A id \in Ids : /\ rollen'[id] \in Row \cup {Unborn, Deleted} /\ told'[id] \subseteq Angebote
                        /\ kontexte[id] # {} => rollen'[id].version > 0
                        /\ rollen'[id].version > 0 => rollen'[id].angebote \subseteq angebote
    BY <1>2, <1>3, <1>4 DEF Inv, Typed, TypeOK, Live
  <2>3. rollen' = [id \in Ids |-> rollen'[id]] /\ told' = [id \in Ids |-> told'[id]]
    BY <1>3, <1>4
  <2> QED
    BY <1>1, <2>1, <2>2, <2>3 DEF Inv, Typed, TypeOK, Live
<1>6. \A k \in Ids : k # call[r].id => rollen'[k] = rollen[k]
  BY <1>3
<1> QED
  BY <1>1, <1>5, <1>6, StepInv

LEMMA RemoveInv == ASSUME Inv, NEW r \in Requests, Remove(r) PROVE Inv'
<1>1. /\ Busy(r) /\ call[r].op = "delete" /\ call' = [call EXCEPT ![r] = Idle]
      /\ Live(call[r].id) => kontexte[call[r].id] = {}
      /\ rollen' = [rollen EXCEPT ![call[r].id] = Deleted]
      /\ UNCHANGED <<kontexte, angebote, told, calls, raced>>
  BY DEF Remove, Referred, At, Set, Busy, Idle
<1>2. /\ call[r].id \in Ids /\ Later(rollen[call[r].id], Deleted)
  BY <1>1, Requested DEF Good, Later
<1>3. rollen' = [id \in Ids |-> IF id = call[r].id THEN Deleted ELSE rollen[id]]
  BY <1>1 DEF Inv, Typed
<1>4. Typed'
  <2>1. call' = [s \in Requests |-> call'[s]]
    BY <1>1 DEF Inv, Typed
  <2>2. ~(Deleted.version > 0)
    BY DEF Deleted
  <2>3. \A id \in Ids : /\ rollen'[id] \in Row \cup {Unborn, Deleted}
                        /\ kontexte[id] # {} => rollen'[id].version > 0
                        /\ rollen'[id].version > 0 => rollen'[id].angebote \subseteq angebote
    BY <1>1, <1>3, <2>2 DEF Inv, Typed, TypeOK, Live
  <2>4. rollen' = [id \in Ids |-> rollen'[id]]
    BY <1>3
  <2> QED
    BY <1>1, <2>1, <2>3, <2>4 DEF Inv, Typed, TypeOK, Live
<1>5. rollen'[call[r].id] = Deleted /\ \A k \in Ids : k # call[r].id => rollen'[k] = rollen[k]
  BY <1>2, <1>3
<1> QED
  BY <1>1, <1>2, <1>4, <1>5, StepInv

LEMMA TellInv == ASSUME Inv, NEW r \in Requests, Tell(r) PROVE Inv'
<1>1. /\ Busy(r) /\ call[r].op = "put" /\ call' = [call EXCEPT ![r] = Idle]
      /\ told' = [told EXCEPT ![call[r].id] = call[r].wish.angebote]
      /\ UNCHANGED <<rollen, kontexte, angebote, calls, raced>>
  BY DEF Tell, At, Set, Busy, Idle
<1>2. call[r].id \in Ids /\ call[r].wish.angebote \subseteq Angebote
  BY <1>1, Requested DEF Good, WishOK
<1>3. Typed'
  BY <1>1, <1>2 DEF Inv, Typed, TypeOK, Live
<1> QED
  BY <1>1, <1>3, StepInv DEF Later

LEMMA InsertKontextInv == ASSUME Inv, NEW r \in Requests, InsertKontext(r) PROVE Inv'
<1>1. /\ Busy(r) /\ call[r].op = "assign" /\ call' = [call EXCEPT ![r] = Idle] /\ Live(call[r].id)
      /\ kontexte' = [kontexte EXCEPT ![call[r].id] = @ \cup {call[r].wish}]
      /\ UNCHANGED <<rollen, angebote, told, calls, raced>>
  BY DEF InsertKontext, At, Set, Busy, Idle
<1>2. call[r].id \in Ids /\ call[r].wish \in BOOLEAN
  BY <1>1, Requested DEF Good, WishOK
<1>3. Typed'
  BY <1>1, <1>2 DEF Inv, Typed, TypeOK, Live
<1> QED
  BY <1>1, <1>3, StepInv DEF Later

LEMMA FailsInv ==
    ASSUME Inv, NEW r \in Requests,
           UpdateFails(r) \/ InsertFails(r) \/ RemoveRefused(r) \/ RemoveFails(r) \/ InsertKontextFails(r)
    PROVE  Busy(r) /\ Refuse(r) /\ Inv'
<1>1. Busy(r) /\ Refuse(r)
  BY DEF UpdateFails, InsertFails, RemoveRefused, RemoveFails, InsertKontextFails, At, Busy, Idle
<1> QED
  BY <1>1, RefuseInv

LEMMA OthersInv == ASSUME Inv, RemoveKontext \/ DeleteAngebot PROVE Inv'
<1>1. UNCHANGED <<rollen, told, call, calls, raced>>
  BY DEF RemoveKontext, DeleteAngebot
<1>2. Typed'
  <2>1. CASE RemoveKontext
    <3>1. PICK id \in Ids : \E befristet \in kontexte[id] :
            kontexte' = [kontexte EXCEPT ![id] = @ \ {befristet}] /\ UNCHANGED angebote
      BY <2>1 DEF RemoveKontext
    <3>2. /\ kontexte' = [k \in Ids |-> kontexte'[k]]
          /\ \A k \in Ids : kontexte'[k] \subseteq kontexte[k]
      BY <3>1 DEF Inv, Typed
    <3>3. \A k \in Ids : kontexte'[k] \subseteq BOOLEAN /\ (kontexte'[k] # {} => rollen[k].version > 0)
      BY <3>2 DEF Inv, Typed, TypeOK, Live
    <3> QED
      BY <1>1, <3>1, <3>2, <3>3 DEF Inv, Typed, TypeOK, Live
  <2>2. CASE DeleteAngebot
    <3>1. PICK a \in angebote : /\ \A id \in Ids : Live(id) => a \notin rollen[id].angebote
                                /\ angebote' = angebote \ {a} /\ UNCHANGED kontexte
      BY <2>2 DEF DeleteAngebot
    <3> QED
      BY <1>1, <3>1 DEF Inv, Typed, TypeOK, Live
  <2> QED
    BY <2>1, <2>2
<1> QED
  BY <1>1, <1>2 DEF Inv, Busy

-----------------------------------------------------------------------------
(* Types, and what a request changes.                                      *)

LEMMA InitInv == ASSUME Init PROVE Inv
<1>1. \A r \in Requests : ~Busy(r)
  BY DEF Init, Busy
<1>2. Typed
  <2>1. \A id \in Ids : rollen[id] \in Row \cup {Unborn} /\ (rollen[id] = Unborn => ~Live(id))
    BY DEF Init, Row, Unborn, Live
  <2>2. \A id \in Ids : kontexte[id] # {} => Live(id)
    BY DEF Init
  <2>3. \A id \in Ids : Live(id) => rollen[id].angebote \subseteq Angebote
    BY <2>1 DEF Row
  <2> QED
    BY <2>1, <2>2, <2>3, RolleAssumption DEF Init, Typed, TypeOK
<1> QED
  BY <1>1, <1>2 DEF Inv

LEMMA InvInductive == ASSUME Inv, [Next]_vars PROVE Inv'
<1>1. CASE UNCHANGED vars
  BY <1>1 DEF vars, Inv, Typed, TypeOK, Live, Busy
<1>2. ASSUME NEW r \in Requests, Step(r) PROVE Inv'
  BY <1>2, LoadInv, CheckInv, InsertInv, UpdateInv, TellInv, RemoveInv, InsertKontextInv, FailsInv
  DEF Step
<1> QED
  BY <1>1, <1>2, AskInv, OthersInv DEF Next

\* Every row is a Rolle, not there yet or deleted; Personenkontexte are of a Rolle
\* that is there, and a Rolle has service providers that are there.
THEOREM TypeCorrect == Spec => []TypeOK
<1>1. Inv => TypeOK
  BY DEF Inv, Typed
<1> QED
  BY <1>1, InitInv, InvInductive, PTL DEF Spec

\* A request is changed by its own steps only.
LEMMA OwnSteps ==
    ASSUME Inv, NEW r \in Requests, NEW s \in Requests, s # r, Ask(s) \/ Step(s)
    PROVE  call'[r] = call[r]
<1>1. call = [t \in Requests |-> call[t]]
  BY DEF Inv, Typed
<1>2. CASE Ask(s)
  BY SMTT(30), <1>1, <1>2 DEF Ask, AskCreate, AskPut, AskChange, AskDelete, AskAssign, Begin
<1>3. CASE CheckAssigned(s) \/ LoadRow(s) \/ CheckOffers(s) \/ CheckName(s) \/ CheckBefristung(s)
  BY <1>1, <1>3 DEF CheckAssigned, LoadRow, CheckOffers, CheckName, CheckBefristung, Go, Set, Refuse
<1>4. CASE Insert(s) \/ Update(s) \/ Tell(s) \/ Remove(s) \/ InsertKontext(s)
  BY <1>1, <1>4 DEF Insert, Update, Tell, Remove, InsertKontext, Set
<1>5. CASE UpdateFails(s) \/ InsertFails(s) \/ RemoveRefused(s) \/ RemoveFails(s) \/ InsertKontextFails(s)
  BY <1>1, <1>5, FailsInv DEF Go, Set, Refuse
<1> QED
  BY <1>2, <1>3, <1>4, <1>5 DEF Step

\* A request changes only what it names, of the row of the version that its client
\* sent: update() compares two versions in memory and the UPDATE the third, and
\* only together do they say that the row is the one that was loaded.
THEOREM NothingElseChanged == Spec => ChangesOnlyWhatItNames
<1>1. ASSUME Inv, [Next]_vars, NEW r \in Requests,
             At(r, Changing, "save"), call'[r] # call[r], rollen' # rollen
      PROVE  LET op == call[r].op  old == rollen[call[r].id]  new == rollen'[call[r].id]
             IN  /\ op # "recht" => old.version = call[r].page
                 /\ new.version = old.version + 1 /\ new.knoten = old.knoten
                 /\ op # "put" => new.name = old.name /\ new.merkmale = old.merkmale
                 /\ op \in {"attach", "detach"} => new.rechte = old.rechte
                 /\ op = "recht" => /\ new.angebote = old.angebote
                                    /\ new.rechte = old.rechte \cup call[r].wish
  <2>1. PICK s \in Requests : Ask(s) \/ Step(s)
    BY <1>1 DEF Next, vars, RemoveKontext, DeleteAngebot
  <2>2. s = r
    BY <1>1, <2>1, OwnSteps
  <2>3. ~Ask(r)
    BY <1>1 DEF Ask, AskCreate, AskPut, AskChange, AskDelete, AskAssign, Begin, Busy, At, Idle
  <2>4. Update(r)
    BY <1>1, <2>1, <2>2, <2>3 DEF Step, CheckAssigned, LoadRow, CheckOffers, CheckName, Insert,
       InsertFails, UpdateFails, Tell, Remove, RemoveRefused, RemoveFails, CheckBefristung,
       InsertKontext, InsertKontextFails, At, Changing, Refuse, Go
  <2>5. UpToDate(r) /\ rollen' = [rollen EXCEPT ![call[r].id] = Written(r)]
    BY <2>4 DEF Update, Written
  <2>6. rollen'[call[r].id] = Written(r)
    BY <1>1, <2>5, UpdatesSeen DEF Inv, Typed
  <2> QED
    BY <1>1, <2>5, <2>6, UpdatesSeen, WrittenRow DEF Agrees
<1>2. ASSUME Inv, [Next]_vars
      PROVE  [\A r \in Requests :
                 At(r, Changing, "save") /\ call'[r] # call[r] /\ rollen' # rollen =>
                     LET op == call[r].op  old == rollen[call[r].id]  new == rollen'[call[r].id]
                     IN  /\ op # "recht" => old.version = call[r].page
                         /\ new.version = old.version + 1 /\ new.knoten = old.knoten
                         /\ op # "put" => new.name = old.name /\ new.merkmale = old.merkmale
                         /\ op \in {"attach", "detach"} => new.rechte = old.rechte
                         /\ op = "recht" => /\ new.angebote = old.angebote
                                            /\ new.rechte = old.rechte \cup call[r].wish]_vars
  BY <1>1, <1>2
<1> QED
  BY <1>2, InitInv, InvInductive, PTL DEF Spec, ChangesOnlyWhatItNames

-----------------------------------------------------------------------------
(* Rollen whose requests do not overlap: their Merkmale, and what was told. *)

Befristet(o, k) == LiveRow(o) /\ Pflicht \in o.merkmale => FALSE \notin k

\* What a request relies on: what it found of Personenkontexte, Merkmale and
\* service providers still holds.
Relies(c, o, k) ==
    /\ c.op = "put" /\ c.pc = "load" => c.assigned \/ k = {}
    /\ c.op = "put" /\ Loaded(c) => c.row.merkmale = {} \/ k = {}
    /\ c.op = "assign" /\ c.pc = "save" => (LiveRow(o) /\ Pflicht \in o.merkmale => c.wish)
    /\ c.pc = "tell" => c.op = "put" /\ (LiveRow(o) => o.angebote = c.wish.angebote)

Telling(id) == \E r \in Requests : Busy(r) /\ call[r].id = id /\ call[r].pc = "tell"

AloneInv ==
    \A id \in Ids \ raced :
        /\ Befristet(rollen[id], kontexte[id])
        /\ \A r \in Requests : Busy(r) /\ call[r].id = id =>
               Relies(call[r], rollen[id], kontexte[id])
        /\ id \notin silent /\ LiveRow(rollen[id]) /\ ~Telling(id) => told[id] = rollen[id].angebote

LEMMA OnlyOne ==
    ASSUME Inv, NEW r \in Requests, NEW s \in Requests, Busy(r), Busy(s), r # s,
           call[r].id = call[s].id
    PROVE  call[r].id \in raced
<1>1. call[r].op # "create" /\ call[s].op # "create"
  BY DEF Inv
<1>2. call[r].id \in call[r].sites /\ call[s].id \in call[s].sites
  BY <1>1, Requested DEF Good
<1> QED
  BY <1>2 DEF Inv

\* A step of a request, about the Rolle that it is for.
LEMMA AloneStep ==
    ASSUME Inv, AloneInv, NEW r \in Requests, Busy(r), NEW d, call' = [call EXCEPT ![r] = d],
           raced' = raced, d = Idle \/ d.id = call[r].id,
           \A k \in Ids : k # call[r].id =>
               /\ rollen'[k] = rollen[k] /\ kontexte'[k] = kontexte[k] /\ told'[k] = told[k]
               /\ k \in silent' <=> k \in silent,
           call[r].id \notin raced =>
               LET id == call[r].id
               IN  /\ Befristet(rollen'[id], kontexte'[id])
                   /\ d # Idle => Relies(d, rollen'[id], kontexte'[id])
                   /\ id \notin silent' /\ LiveRow(rollen'[id]) /\ (d = Idle \/ d.pc # "tell")
                        => told'[id] = rollen'[id].angebote
    PROVE  AloneInv'
<1>1. call'[r] = d /\ \A s \in Requests \ {r} : call'[s] = call[s]
  BY DEF Inv, Typed
<1> SUFFICES ASSUME NEW id \in Ids \ raced
             PROVE  /\ Befristet(rollen'[id], kontexte'[id])
                    /\ \A s \in Requests : call'[s] # Idle /\ call'[s].id = id =>
                           Relies(call'[s], rollen'[id], kontexte'[id])
                    /\ id \notin silent' /\ LiveRow(rollen'[id]) /\ ~Telling(id)'
                         => told'[id] = rollen'[id].angebote
  BY DEF AloneInv, Busy
<1>2. CASE id = call[r].id
  <2>1. \A s \in Requests \ {r} : call'[s] # Idle => call'[s].id # id
    BY <1>1, <1>2, OnlyOne DEF Busy
  <2>2. ~Telling(id)' => d = Idle \/ d.pc # "tell"
    BY <1>1, <1>2 DEF Telling, Busy
  <2> QED
    BY <1>1, <1>2, <2>1, <2>2
<1>3. CASE id # call[r].id
  <2>1. /\ rollen'[id] = rollen[id] /\ kontexte'[id] = kontexte[id] /\ told'[id] = told[id]
        /\ id \in silent' <=> id \in silent
    BY <1>3
  <2>2. \A s \in Requests : call'[s] # Idle /\ call'[s].id = id =>
            s # r /\ Busy(s) /\ call[s].id = id /\ call'[s] = call[s]
    BY <1>1, <1>3 DEF Busy
  <2>3. Telling(id) => Telling(id)'
    <3> SUFFICES ASSUME NEW s \in Requests, Busy(s), call[s].id = id, call[s].pc = "tell"
                 PROVE  Telling(id)'
      BY DEF Telling
    <3>1. s # r /\ call'[s] = call[s]
      BY <1>1, <1>3
    <3> QED
      BY <3>1 DEF Telling, Busy
  <2> QED
    BY <2>1, <2>2, <2>3 DEF AloneInv
<1> QED
  BY <1>2, <1>3

\* What AloneInv says of the Rolle of a request.
LEMMA AloneHere ==
    ASSUME Inv, AloneInv, NEW r \in Requests, Busy(r), call[r].id \notin raced
    PROVE  LET id == call[r].id
           IN  /\ Befristet(rollen[id], kontexte[id]) /\ Relies(call[r], rollen[id], kontexte[id])
               /\ id \notin silent /\ LiveRow(rollen[id]) /\ call[r].pc # "tell"
                    => told[id] = rollen[id].angebote
<1>1. call[r].id \in Ids \ raced
  BY Requested
<1>2. Telling(call[r].id) => call[r].pc = "tell"
  BY OnlyOne DEF Telling
<1> QED
  BY <1>1, <1>2 DEF AloneInv

LEMMA AloneGo ==
    ASSUME Inv, AloneInv, NEW r \in Requests, Busy(r), call[r].pc # "tell", NEW d, Go(r, d),
           \/ d = Idle
           \/ /\ d.id = call[r].id /\ d.pc # "tell"
              /\ call[r].id \notin raced =>
                   (Relies(call[r], rollen[call[r].id], kontexte[call[r].id])
                    => Relies(d, rollen[call[r].id], kontexte[call[r].id]))
    PROVE  AloneInv'
<1>1. call' = [call EXCEPT ![r] = d] /\ UNCHANGED <<rollen, kontexte, told, silent, raced>>
  BY DEF Go, Set
<1>2. call[r].id \notin raced =>
        LET id == call[r].id
        IN  /\ Befristet(rollen[id], kontexte[id]) /\ Relies(call[r], rollen[id], kontexte[id])
            /\ id \notin silent /\ LiveRow(rollen[id]) /\ call[r].pc # "tell"
                 => told[id] = rollen[id].angebote
  BY AloneHere
<1> QED
  BY <1>1, <1>2, AloneStep

LEMMA AloneLoad == ASSUME Inv, AloneInv, NEW r \in Requests, LoadRow(r) PROVE AloneInv'
<1> DEFINE c == call[r]
           o == rollen[c.id]
<1>1. Busy(r) /\ c.pc = "load"
  BY DEF LoadRow, At, Busy, Idle
<1>2. Good(c, o) /\ o \in Table
  BY <1>1, Requested
<1>3. CASE Refuse(r)
  BY <1>1, <1>3, AloneGo DEF Refuse
<1>4. CASE ~Refuse(r)
  <2>1. PICK d : /\ Go(r, d)
                 /\ d.pc = IF c.op = "delete" THEN "save" ELSE "offers"
                 /\ d.op = c.op /\ d.id = c.id /\ d.wish = c.wish
                 /\ d.row = Wanted(c, o) /\ MayChange(c, o) /\ LiveRow(o)
                 /\ c.op \in Changing \cup {"delete"}
    BY <1>4, LoadedAs
  <2>2. o \in Row
    BY <1>2, <2>1, TableRows
  <2>3. c.op = "put" => d.row.merkmale = c.wish.merkmale
    <3> HIDE DEF c, o
    <3> QED
      BY <1>2, <2>1, <2>2, WantedRow DEF Good
  <2>4. c.op = "put" /\ c.assigned => c.wish.merkmale = {}
    BY <2>1 DEF MayChange
  <2>5. Relies(c, o, kontexte[c.id]) => Relies(d, o, kontexte[c.id])
    <3> HIDE DEF o, c
    <3> QED
      BY <1>1, <2>1, <2>3, <2>4 DEF Relies, Changing
  <2> QED
    BY <1>1, <2>1, <2>5, AloneGo
<1> QED
  BY <1>3, <1>4

LEMMA AloneCheck ==
    ASSUME Inv, AloneInv, NEW r \in Requests,
           CheckAssigned(r) \/ CheckOffers(r) \/ CheckName(r) \/ CheckBefristung(r)
    PROVE  AloneInv'
<1>1. Busy(r) /\ call[r].pc # "tell"
  BY DEF CheckAssigned, CheckOffers, CheckName, CheckBefristung, At, Busy, Idle
<1>2. IsRequest(call[r])
  BY <1>1, Requested DEF Good
<1>3. CASE Refuse(r)
  BY <1>1, <1>3, AloneGo DEF Refuse
<1>4. CASE CheckAssigned(r)
  <2> DEFINE a == kontexte[call[r].id] # {}
             d == [call[r] EXCEPT !.pc = "load", !.assigned = a]
  <2>1. Go(r, d) /\ call[r].op = "put"
    BY <1>4 DEF CheckAssigned, At
  <2>2. d.pc = "load" /\ d.op = "put" /\ d.id = call[r].id /\ d.assigned = a
    BY <1>2, <2>1 DEF IsRequest
  <2>3. Relies(d, rollen[call[r].id], kontexte[call[r].id])
    BY <2>2 DEF Relies, Loaded
  <2> HIDE DEF d
  <2> QED
    BY <1>1, <2>1, <2>2, <2>3, AloneGo
<1>5. CASE CheckOffers(r) /\ ~Refuse(r)
  <2> DEFINE d == [call[r] EXCEPT !.pc = "check"]
  <2>1. Go(r, d) /\ Loaded(call[r]) /\ call[r].op # "assign"
    BY <1>5 DEF CheckOffers, At, Loaded, Changing
  <2>2. d.pc = "check" /\ d.op = call[r].op /\ d.id = call[r].id /\ d.row = call[r].row
    BY <1>2 DEF IsRequest
  <2> HIDE DEF d
  <2>3. Relies(call[r], rollen[call[r].id], kontexte[call[r].id])
        => Relies(d, rollen[call[r].id], kontexte[call[r].id])
    BY <2>1, <2>2 DEF Relies
  <2> QED
    BY <1>1, <2>1, <2>2, <2>3, AloneGo
<1>6. CASE CheckName(r) /\ ~Refuse(r)
  <2>1. PICK v : Go(r, [call[r] EXCEPT !.pc = "save", !.entity = v])
    BY <1>6 DEF CheckName
  <2> DEFINE d == [call[r] EXCEPT !.pc = "save", !.entity = v]
  <2>2. Go(r, d) /\ call[r].op # "assign" /\ (call[r].op = "put" => Loaded(call[r]))
    BY <1>6, <2>1 DEF CheckName, At, Loaded, Changing
  <2>3. d.pc = "save" /\ d.op = call[r].op /\ d.id = call[r].id /\ d.row = call[r].row
    BY <1>2 DEF IsRequest
  <2> HIDE DEF d
  <2>4. Relies(call[r], rollen[call[r].id], kontexte[call[r].id])
        => Relies(d, rollen[call[r].id], kontexte[call[r].id])
    BY <2>2, <2>3 DEF Relies
  <2> QED
    BY <1>1, <2>2, <2>3, <2>4, AloneGo
<1>7. CASE CheckBefristung(r) /\ ~Refuse(r)
  <2> DEFINE d == [call[r] EXCEPT !.pc = "save"]
  <2>1. /\ Go(r, d) /\ call[r].op = "assign"
        /\ Live(call[r].id) /\ Pflicht \in rollen[call[r].id].merkmale => call[r].wish
    BY <1>7 DEF CheckBefristung, At
  <2>2. d.pc = "save" /\ d.op = "assign" /\ d.id = call[r].id /\ d.wish = call[r].wish
    BY <1>2, <2>1 DEF IsRequest
  <2> HIDE DEF d
  <2>3. Relies(d, rollen[call[r].id], kontexte[call[r].id])
    BY <2>1, <2>2 DEF Relies, Loaded, Live, LiveRow, Changing
  <2> QED
    BY <1>1, <2>1, <2>2, <2>3, AloneGo
<1> QED
  BY <1>3, <1>4, <1>5, <1>6, <1>7

LEMMA AloneUpdate == ASSUME Inv, AloneInv, NEW r \in Requests, Update(r) PROVE AloneInv'
<1> DEFINE c == call[r]
           o == rollen[c.id]
           k == kontexte[c.id]
           w == Written(r)
           t == [c EXCEPT !.pc = "tell"]
           d == IF c.op = "put" THEN t ELSE Idle
<1>1. /\ At(r, Changing, "save") /\ UpToDate(r)
      /\ rollen' = [rollen EXCEPT ![c.id] = w] /\ call' = [call EXCEPT ![r] = d]
      /\ silent' = IF c.op \in {"attach", "detach"} THEN silent \cup {c.id} ELSE silent
      /\ UNCHANGED <<kontexte, told, raced>>
  BY DEF Update, Set, Written
<1>2. /\ Busy(r) /\ Seen(c, o) /\ c.id \in Ids /\ o \in Row /\ Agrees(c, o) /\ Loaded(c)
  BY <1>1, UpdatesSeen DEF At, Loaded
<1>3. w \in Row /\ w.merkmale = c.row.merkmale /\ w.angebote = c.row.angebote
  BY <1>1, WrittenRow
<1>4. LiveRow(o)
  BY <1>2, TableRows DEF Table
<1>5. rollen'[c.id] = w /\ \A i \in Ids : i # c.id => rollen'[i] = rollen[i]
  BY <1>1, <1>2 DEF Inv, Typed
<1> HIDE DEF w
<1>6. c.op = "put" => t.id = c.id /\ t.pc = "tell" /\ t.op = "put" /\ t.wish = c.wish
  BY <1>2, TellingRequest
<1>7. d = Idle \/ d.id = c.id
  BY <1>6
<1>8. ASSUME c.id \notin raced
      PROVE  /\ Befristet(w, k) /\ (d # Idle => Relies(d, w, k))
             /\ c.id \notin silent' /\ LiveRow(w) /\ (d = Idle \/ d.pc # "tell")
                  => told[c.id] = w.angebote
  <2>1. /\ Befristet(o, k) /\ Relies(c, o, k)
        /\ c.id \notin silent /\ c.pc # "tell" => told[c.id] = o.angebote
    BY <1>2, <1>4, <1>8, AloneHere
  <2> HIDE DEF t, o, k
  <2>2. CASE c.op = "put"
    <3>1. c.row.merkmale = {} \/ k = {}
      BY <1>2, <2>1, <2>2 DEF Relies
    <3>2. Relies(t, w, k)
      BY <1>2, <1>3, <1>6, <2>2 DEF Relies, Loaded, Seen
    <3>3. Idle.pc = "idle"
      BY DEF Idle
    <3> QED
      BY <1>3, <1>6, <2>2, <3>1, <3>2, <3>3 DEF Befristet
  <2>3. CASE c.op # "put"
    <3>1. w.merkmale = o.merkmale /\ Befristet(w, k)
      BY <1>2, <1>3, <1>4, <2>1, <2>3 DEF Agrees, Befristet
    <3>2. c.op \in {"recht", "attach", "detach"} /\ c.pc = "save"
      BY <1>1, <2>3 DEF At, Changing
    <3>3. c.op = "recht" => w.angebote = o.angebote
      BY <1>2, <1>3 DEF Agrees
    <3> QED
      BY <1>1, <2>1, <2>3, <3>1, <3>2, <3>3
  <2> QED
    BY <2>2, <2>3
<1> HIDE DEF d
<1> QED
  BY <1>1, <1>2, <1>5, <1>7, <1>8, AloneStep

LEMMA AloneInsert == ASSUME Inv, AloneInv, NEW r \in Requests, Insert(r) PROVE AloneInv'
<1>1. /\ Busy(r) /\ call[r].op = "create" /\ call' = [call EXCEPT ![r] = Idle]
      /\ rollen' = [rollen EXCEPT ![call[r].id] = call[r].wish]
      /\ told' = [told EXCEPT ![call[r].id] = {}]
      /\ UNCHANGED <<kontexte, silent, raced>>
  BY DEF Insert, At, Set, Busy, Idle
<1>2. /\ call[r].id \in Ids /\ call[r].wish.angebote = {} /\ rollen[call[r].id] = Unborn
  BY <1>1, Requested DEF Good, WishOK
<1>3. kontexte[call[r].id] = {}
  BY <1>2 DEF Inv, Typed, TypeOK, Live, Unborn
<1>4. /\ rollen'[call[r].id] = call[r].wish /\ told'[call[r].id] = {}
      /\ \A k \in Ids : k # call[r].id => rollen'[k] = rollen[k] /\ told'[k] = told[k]
  BY <1>1, <1>2 DEF Inv, Typed
<1> QED
  BY <1>1, <1>2, <1>3, <1>4, AloneStep DEF Befristet

LEMMA AloneRemove == ASSUME Inv, AloneInv, NEW r \in Requests, Remove(r) PROVE AloneInv'
<1>1. /\ Busy(r) /\ call' = [call EXCEPT ![r] = Idle]
      /\ rollen' = [rollen EXCEPT ![call[r].id] = Deleted]
      /\ UNCHANGED <<kontexte, told, silent, raced>>
  BY DEF Remove, At, Set, Busy, Idle
<1>2. /\ rollen'[call[r].id] = Deleted /\ \A k \in Ids : k # call[r].id => rollen'[k] = rollen[k]
  BY <1>1, Requested DEF Inv, Typed
<1>3. ~LiveRow(Deleted)
  BY DEF LiveRow, Deleted
<1> QED
  BY <1>1, <1>2, <1>3, AloneStep DEF Befristet

LEMMA AloneTell == ASSUME Inv, AloneInv, NEW r \in Requests, Tell(r) PROVE AloneInv'
<1>1. /\ Busy(r) /\ call[r].pc = "tell" /\ call' = [call EXCEPT ![r] = Idle]
      /\ told' = [told EXCEPT ![call[r].id] = call[r].wish.angebote]
      /\ silent' = silent \ {call[r].id}
      /\ UNCHANGED <<rollen, kontexte, raced>>
  BY DEF Tell, At, Set, Busy, Idle
<1>2. call[r].id \in Ids
  BY <1>1, Requested
<1>3. /\ told'[call[r].id] = call[r].wish.angebote
      /\ \A k \in Ids : k # call[r].id => told'[k] = told[k]
  BY <1>1, <1>2 DEF Inv, Typed
<1>4. call[r].id \notin raced =>
        /\ Befristet(rollen[call[r].id], kontexte[call[r].id])
        /\ LiveRow(rollen[call[r].id]) => rollen[call[r].id].angebote = call[r].wish.angebote
  BY <1>1, AloneHere DEF Relies
<1> QED
  BY <1>1, <1>3, <1>4, AloneStep

LEMMA AloneInsertKontext ==
    ASSUME Inv, AloneInv, NEW r \in Requests, InsertKontext(r) PROVE AloneInv'
<1>1. /\ Busy(r) /\ call[r].op = "assign" /\ call[r].pc = "save"
      /\ call' = [call EXCEPT ![r] = Idle]
      /\ kontexte' = [kontexte EXCEPT ![call[r].id] = @ \cup {call[r].wish}]
      /\ UNCHANGED <<rollen, told, silent, raced>>
  BY DEF InsertKontext, At, Set, Busy, Idle
<1>2. call[r].id \in Ids /\ call[r].wish \in BOOLEAN
  BY <1>1, Requested DEF Good, WishOK
<1>3. /\ kontexte'[call[r].id] = kontexte[call[r].id] \cup {call[r].wish}
      /\ \A k \in Ids : k # call[r].id => kontexte'[k] = kontexte[k]
  BY <1>1, <1>2 DEF Inv, Typed
<1>4. call[r].id \notin raced =>
        /\ Befristet(rollen[call[r].id], kontexte'[call[r].id])
        /\ call[r].id \notin silent /\ LiveRow(rollen[call[r].id])
             => told[call[r].id] = rollen[call[r].id].angebote
  <2> SUFFICES ASSUME call[r].id \notin raced
               PROVE  /\ Befristet(rollen[call[r].id], kontexte'[call[r].id])
                      /\ call[r].id \notin silent /\ LiveRow(rollen[call[r].id])
                           => told[call[r].id] = rollen[call[r].id].angebote
    OBVIOUS
  <2> DEFINE o == rollen[call[r].id]
             k == kontexte[call[r].id]
  <2>1. Befristet(o, k) /\ Relies(call[r], o, k)
        /\ (call[r].id \notin silent /\ LiveRow(o) => told[call[r].id] = o.angebote)
    BY <1>1, AloneHere
  <2>2. LiveRow(o) /\ Pflicht \in o.merkmale => call[r].wish
    BY <1>1, <2>1 DEF Relies
  <2> HIDE DEF o, k
  <2>3. Befristet(o, k \cup {call[r].wish})
    BY <1>2, <2>1, <2>2 DEF Befristet
  <2> QED
    BY <1>3, <2>1, <2>3 DEF o, k
<1> QED
  BY <1>1, <1>3, <1>4, AloneStep

LEMMA AloneOthers == ASSUME Inv, AloneInv, RemoveKontext \/ DeleteAngebot PROVE AloneInv'
<1>1. UNCHANGED <<rollen, told, call, raced, silent>>
  BY DEF RemoveKontext, DeleteAngebot
<1>2. \A k \in Ids : kontexte'[k] \subseteq kontexte[k]
  BY DEF RemoveKontext, DeleteAngebot, Inv, Typed
<1>3. ASSUME NEW id \in Ids \ raced
      PROVE  /\ Befristet(rollen[id], kontexte'[id])
             /\ \A r \in Requests : Busy(r) /\ call[r].id = id =>
                    Relies(call[r], rollen[id], kontexte'[id])
             /\ id \notin silent /\ LiveRow(rollen[id]) /\ ~Telling(id) => told[id] = rollen[id].angebote
  BY <1>2 DEF AloneInv, Befristet, Relies
<1>4. \A id : Telling(id)' <=> Telling(id)
  BY <1>1 DEF Telling, Busy
<1> QED
  BY <1>1, <1>3, <1>4 DEF AloneInv, Busy

\* Every request begins at the place that is the first for it.
Begun(op, pc) ==
    \/ op = "create" /\ pc = "check"
    \/ op = "put" /\ pc = "assigned"
    \/ op \in {"recht", "attach", "detach", "delete", "assign"} /\ pc = "load"

LEMMA Beginning ==
    ASSUME NEW r \in Requests, Ask(r)
    PROVE  \E d : /\ call' = [call EXCEPT ![r] = d] /\ call[r] = Idle /\ Begun(d.op, d.pc)
                  /\ UNCHANGED <<rollen, kontexte, told, silent>> /\ raced \subseteq raced'
<1> DEFINE Goal == \E d : /\ call' = [call EXCEPT ![r] = d] /\ call[r] = Idle /\ Begun(d.op, d.pc)
                         /\ UNCHANGED <<rollen, kontexte, told, silent>> /\ raced \subseteq raced'
<1>1. ASSUME NEW op, NEW pc, NEW id, NEW wish, NEW page, NEW sites,
             Begin(r, op, pc, id, wish, page, sites), Begun(op, pc)
      PROVE  Goal
  <2> DEFINE d == [pc |-> pc, op |-> op, id |-> id, wish |-> wish, page |-> page,
                   row |-> Unborn, entity |-> 0, assigned |-> FALSE, sites |-> sites]
  <2>1. d.op = op /\ d.pc = pc
    OBVIOUS
  <2>2. /\ call' = [call EXCEPT ![r] = d] /\ call[r] = Idle
        /\ UNCHANGED <<rollen, kontexte, told, silent>> /\ raced \subseteq raced'
    BY <1>1 DEF Begin, Busy
  <2> HIDE DEF d
  <2> QED
    BY <1>1, <2>1, <2>2
<1> SUFFICES Goal
  OBVIOUS
<1> HIDE DEF Goal
<1>2. CASE AskCreate(r)
  BY <1>1, <1>2 DEF AskCreate, Begun
<1>3. CASE AskPut(r)
  BY <1>1, <1>3 DEF AskPut, Begun
<1>4. CASE AskChange(r)
  BY <1>1, <1>4 DEF AskChange, Begun
<1>5. CASE AskDelete(r)
  BY <1>1, <1>5 DEF AskDelete, Begun
<1>6. CASE AskAssign(r)
  BY <1>1, <1>6 DEF AskAssign, Begun
<1> QED
  BY <1>2, <1>3, <1>4, <1>5, <1>6 DEF Ask

\* A request begins without having found anything.
LEMMA AloneBegin == ASSUME Inv, AloneInv, NEW r \in Requests, Ask(r) PROVE AloneInv'
<1>1. PICK d : /\ call' = [call EXCEPT ![r] = d] /\ call[r] = Idle /\ Begun(d.op, d.pc)
               /\ UNCHANGED <<rollen, kontexte, told, silent>> /\ raced \subseteq raced'
  BY Beginning
<1>2. call'[r] = d /\ \A s \in Requests \ {r} : call'[s] = call[s]
  BY <1>1 DEF Inv, Typed
<1>3. \A o, k : Relies(d, o, k)
  BY <1>1 DEF Begun, Relies, Loaded, Changing
<1>4. \A id : Telling(id) => Telling(id)'
  BY <1>1, <1>2 DEF Telling, Busy
<1>5. ASSUME NEW id \in Ids \ raced'
      PROVE  /\ Befristet(rollen[id], kontexte[id])
             /\ \A s \in Requests : call'[s] # Idle /\ call'[s].id = id =>
                    Relies(call'[s], rollen[id], kontexte[id])
             /\ id \notin silent /\ LiveRow(rollen[id]) /\ ~Telling(id)' => told[id] = rollen[id].angebote
  BY <1>1, <1>2, <1>3, <1>4 DEF AloneInv, Busy
<1> QED
  BY <1>1, <1>5 DEF AloneInv, Busy

LEMMA AloneInductive == ASSUME Inv, AloneInv, [Next]_vars PROVE AloneInv'
<1>1. CASE UNCHANGED vars
  <2>1. \A id : Telling(id)' <=> Telling(id)
    BY <1>1 DEF vars, Telling, Busy
  <2> QED
    BY <1>1, <2>1 DEF vars, AloneInv, Busy
<1>2. ASSUME NEW r \in Requests, Step(r) PROVE AloneInv'
  <2>1. CASE UpdateFails(r) \/ InsertFails(r) \/ RemoveRefused(r) \/ RemoveFails(r) \/ InsertKontextFails(r)
    <3>1. Busy(r) /\ Go(r, Idle)
      BY <2>1, FailsInv DEF Refuse
    <3>2. call[r].pc # "tell"
      BY <2>1 DEF UpdateFails, InsertFails, RemoveRefused, RemoveFails, InsertKontextFails, At
    <3> QED
      BY <3>1, <3>2, AloneGo
  <2> QED
    BY <1>2, <2>1, AloneLoad, AloneCheck, AloneUpdate, AloneInsert, AloneRemove, AloneTell,
       AloneInsertKontext DEF Step
<1> QED
  BY <1>1, <1>2, AloneBegin, AloneOthers DEF Next

LEMMA AloneInit == ASSUME Init PROVE AloneInv
<1>1. \A r \in Requests : ~Busy(r)
  BY DEF Init, Busy
<1>2. \A id \in Ids : Befristet(rollen[id], kontexte[id])
  BY DEF Init, Befristet, LiveRow, Live
<1>3. \A id \in Ids : LiveRow(rollen[id]) => told[id] = rollen[id].angebote
  BY DEF Init, LiveRow, Live
<1> QED
  BY <1>1, <1>2, <1>3 DEF AloneInv

\* Nobody has a Rolle with BEFRISTUNG_PFLICHT without a Befristung, unless requests
\* for the Rolle overlapped: a PUT that found nobody is still alone when it writes,
\* and one that found somebody writes no Merkmale.
THEOREM BefristungHolds == Spec => []BefristungAlone
<1>1. AloneInv => BefristungAlone
  BY DEF AloneInv, BefristungAlone, Befristet, Live, LiveRow
<1> QED
  BY <1>1, InitInv, InvInductive, AloneInit, AloneInductive, PTL DEF Spec

\* RolleUpdatedEvent tells the service providers of a Rolle, unless requests for it
\* overlapped or an endpoint that publishes nothing changed them.
THEOREM ToldHolds == Spec => []ToldAlone
<1>1. AloneInv => ToldAlone
  BY DEF AloneInv, ToldAlone, Telling, Live, LiveRow
<1> QED
  BY <1>1, InitInv, InvInductive, AloneInit, AloneInductive, PTL DEF Spec

-----------------------------------------------------------------------------
(* Names of the Rollen of one Knoten.                                      *)

TargetOf(c) == IF c.op = "create" THEN c.wish ELSE c.row
Writing(c) == c.op \in Changing \cup {"create"} /\ c.pc = "save"

\* No other Rolle of the Knoten has the name.
Free(id, row) ==
    \A k \in Ids \ {id} :
        LiveRow(rollen[k]) /\ rollen[k].knoten = row.knoten => rollen[k].name # row.name

\* A name that was checked stays free until the row is written.
NamesInv ==
    /\ NamesUniqueAlone
    /\ \A r \in Requests : Busy(r) /\ Writing(call[r]) /\ TargetOf(call[r]).knoten \notin raced =>
           Free(call[r].id, TargetOf(call[r]))

LEMMA WritesAtSite ==
    ASSUME Inv, NEW r \in Requests, Busy(r), Writing(call[r])
    PROVE  TargetOf(call[r]).knoten \in call[r].sites
<1>1. Good(call[r], rollen[call[r].id])
  BY Requested
<1>2. CASE call[r].op = "create"
  BY <1>1, <1>2 DEF Good, TargetOf
<1>3. CASE call[r].op # "create"
  BY <1>1, <1>3 DEF Good, Seen, Loaded, Writing, TargetOf
<1> QED
  BY <1>2, <1>3

\* A row is deleted, or written as it was checked.
LEMMA NamesStep ==
    ASSUME Inv, NamesInv, NEW r \in Requests, Busy(r), NEW d, call' = [call EXCEPT ![r] = d],
           raced' = raced, ~Writing(d),
           \A k \in Ids : k # call[r].id => rollen'[k] = rollen[k],
           \/ ~LiveRow(rollen'[call[r].id])
           \/ /\ Writing(call[r])
              /\ rollen'[call[r].id].name = TargetOf(call[r]).name
              /\ rollen'[call[r].id].knoten = TargetOf(call[r]).knoten
    PROVE  NamesInv'
<1> DEFINE id == call[r].id
           new == rollen'[id]
           kn == TargetOf(call[r]).knoten
<1>1. call'[r] = d /\ \A s \in Requests \ {r} : call'[s] = call[s]
  BY DEF Inv, Typed
<1>2. LiveRow(new) /\ new.knoten \notin raced =>
        /\ Writing(call[r]) /\ new.knoten = kn /\ kn \in call[r].sites
        /\ \A k \in Ids \ {id} : LiveRow(rollen[k]) /\ rollen[k].knoten = new.knoten
                                 => rollen[k].name # new.name
  BY WritesAtSite DEF NamesInv, Free
<1>3. ASSUME NEW a \in Ids, NEW b \in Ids, a # b, LiveRow(rollen'[a]), LiveRow(rollen'[b]),
             rollen'[a].knoten = rollen'[b].knoten, rollen'[a].knoten \notin raced
      PROVE  rollen'[a].name # rollen'[b].name
  <2>1. CASE a = id
    BY <1>2, <1>3, <2>1
  <2>2. CASE b = id
    BY <1>2, <1>3, <2>2
  <2>3. CASE a # id /\ b # id
    BY <1>3, <2>3 DEF NamesInv, NamesUniqueAlone, Live, LiveRow
  <2> QED
    BY <2>1, <2>2, <2>3
<1>4. ASSUME NEW s \in Requests, call'[s] # Idle, Writing(call'[s]),
             TargetOf(call'[s]).knoten \notin raced
      PROVE  \A k \in Ids \ {call'[s].id} :
                 LiveRow(rollen'[k]) /\ rollen'[k].knoten = TargetOf(call'[s]).knoten
                 => rollen'[k].name # TargetOf(call'[s]).name
  <2>1. s # r /\ call'[s] = call[s] /\ Busy(s) /\ Writing(call[s])
    BY <1>1, <1>4 DEF Busy
  <2>2. Free(call[s].id, TargetOf(call[s])) /\ TargetOf(call[s]).knoten \notin raced
    BY <1>4, <2>1 DEF NamesInv
  <2> DEFINE T == TargetOf(call[s])
  <2>3. T.knoten \in call[s].sites
    BY <2>1, WritesAtSite
  <2>4. LiveRow(new) => T.knoten # new.knoten
    BY <1>2, <2>1, <2>2, <2>3 DEF Inv
  <2>5. \A k \in Ids \ {call[s].id} :
          LiveRow(rollen'[k]) /\ rollen'[k].knoten = T.knoten => rollen'[k].name # T.name
    BY <2>2, <2>4 DEF Free
  <2> QED
    BY <2>1, <2>5
<1> QED
  <2>1. NamesUniqueAlone'
    BY <1>3 DEF NamesUniqueAlone, Live, LiveRow
  <2> QED
    BY <1>4, <2>1 DEF NamesInv, Free, Busy

\* A step that writes no row.
LEMMA NamesGo ==
    ASSUME Inv, NamesInv, NEW r \in Requests, NEW d, call' = [call EXCEPT ![r] = d],
           UNCHANGED rollen, raced \subseteq raced',
           \/ ~Writing(d)
           \/ /\ d.id = call[r].id
              /\ Free(call[r].id, TargetOf(d))
    PROVE  NamesInv'
<1>1. call'[r] = d /\ \A s \in Requests \ {r} : call'[s] = call[s]
  BY DEF Inv, Typed
<1>2. NamesUniqueAlone'
  BY DEF NamesInv, NamesUniqueAlone, Live
<1>3. \A id, row : Free(id, row)' <=> Free(id, row)
  BY DEF Free
<1>4. ASSUME NEW s \in Requests, call'[s] # Idle, Writing(call'[s]),
             TargetOf(call'[s]).knoten \notin raced'
      PROVE  Free(call'[s].id, TargetOf(call'[s]))
  BY <1>1, <1>4 DEF NamesInv, Busy
<1>5. \A id, row : (\A k \in Ids \ {id} :
          LiveRow(rollen'[k]) /\ rollen'[k].knoten = row.knoten => rollen'[k].name # row.name)
          <=> Free(id, row)
  BY DEF Free
<1> QED
  BY <1>2, <1>4, <1>5 DEF NamesInv, Free, Busy

LEMMA NamesCheck == ASSUME Inv, NamesInv, NEW r \in Requests, CheckName(r) PROVE NamesInv'
<1>1. Busy(r) /\ call[r].op \in Changing \cup {"create"}
  BY DEF CheckName, At, Busy, Idle
<1>2. IsRequest(call[r])
  BY <1>1, Requested DEF Good
<1>3. CASE Refuse(r)
  BY <1>3, NamesGo DEF Refuse, Go, Set, Writing, Idle
<1>4. CASE ~Refuse(r)
  <2>1. PICK v : /\ NameFree(call[r].id, Target(r))
                 /\ Go(r, [call[r] EXCEPT !.pc = "save", !.entity = v])
    BY <1>4 DEF CheckName
  <2> DEFINE d == [call[r] EXCEPT !.pc = "save", !.entity = v]
  <2>2. d.id = call[r].id /\ TargetOf(d) = Target(r)
    BY <1>2 DEF IsRequest, TargetOf, Target
  <2>3. call' = [call EXCEPT ![r] = d] /\ UNCHANGED <<rollen, raced>>
    BY <2>1 DEF Go, Set
  <2> HIDE DEF d
  <2>4. Free(call[r].id, TargetOf(d))
    BY <2>1, <2>2 DEF Free, NameFree, Live, LiveRow
  <2> QED
    BY <2>2, <2>3, <2>4, NamesGo
<1> QED
  BY <1>3, <1>4

LEMMA NamesInductive == ASSUME Inv, NamesInv, [Next]_vars PROVE NamesInv'
<1>1. ~Writing(Idle)
  BY DEF Writing, Idle
<1>2. CASE UNCHANGED <<rollen, call, raced>>
  BY <1>2 DEF NamesInv, NamesUniqueAlone, Live, Free, Busy
<1>3. ASSUME NEW r \in Requests, Ask(r) PROVE NamesInv'
  <2>1. PICK d : /\ call' = [call EXCEPT ![r] = d] /\ Begun(d.op, d.pc)
                 /\ UNCHANGED rollen /\ raced \subseteq raced'
    BY <1>3, Beginning
  <2> QED
    BY <2>1, NamesGo DEF Begun, Writing
<1>4. ASSUME NEW r \in Requests, CheckAssigned(r) \/ CheckOffers(r) \/ CheckBefristung(r)
      PROVE  NamesInv'
  <2>1. Busy(r) /\ IsRequest(call[r])
    BY <1>4, Requested DEF CheckAssigned, CheckOffers, CheckBefristung, At, Busy, Idle, Good
  <2>2. PICK d : Go(r, d) /\ ~Writing(d)
    <3>1. CASE Refuse(r)
      BY <1>1, <3>1 DEF Refuse
    <3>2. CASE CheckAssigned(r)
      <4> DEFINE d == [call[r] EXCEPT !.pc = "load", !.assigned = (kontexte[call[r].id] # {})]
      <4>1. Go(r, d) /\ d.pc = "load"
        BY <2>1, <3>2 DEF CheckAssigned, IsRequest
      <4> HIDE DEF d
      <4> QED
        BY <4>1 DEF Writing
    <3>3. CASE CheckOffers(r) /\ ~Refuse(r)
      <4> DEFINE d == [call[r] EXCEPT !.pc = "check"]
      <4>1. Go(r, d) /\ d.pc = "check"
        BY <2>1, <3>3 DEF CheckOffers, IsRequest
      <4> HIDE DEF d
      <4> QED
        BY <4>1 DEF Writing
    <3>4. CASE CheckBefristung(r) /\ ~Refuse(r)
      <4> DEFINE d == [call[r] EXCEPT !.pc = "save"]
      <4>1. Go(r, d) /\ d.op = "assign"
        BY <2>1, <3>4 DEF CheckBefristung, IsRequest, At
      <4> HIDE DEF d
      <4> QED
        BY <4>1 DEF Writing, Changing
    <3> QED
      BY <1>4, <3>1, <3>2, <3>3, <3>4
  <2> QED
    BY <2>2, NamesGo DEF Go, Set
<1>5. ASSUME NEW r \in Requests, LoadRow(r) PROVE NamesInv'
  <2>1. CASE Refuse(r)
    BY <1>1, <2>1, NamesGo DEF Refuse, Go, Set
  <2>2. CASE ~Refuse(r)
    <3>1. PICK d : Go(r, d) /\ d.pc = (IF call[r].op = "delete" THEN "save" ELSE "offers")
                   /\ d.op = call[r].op
      BY <1>5, <2>2, LoadedAs
    <3>2. ~Writing(d)
      BY <3>1 DEF Writing, Changing
    <3> QED
      BY <3>1, <3>2, NamesGo DEF Go, Set
  <2> QED
    BY <2>1, <2>2
<1>6. ASSUME NEW r \in Requests,
             UpdateFails(r) \/ InsertFails(r) \/ RemoveRefused(r) \/ RemoveFails(r) \/ InsertKontextFails(r)
      PROVE  NamesInv'
  <2>1. Refuse(r)
    BY <1>6, FailsInv
  <2> QED
    BY <1>1, <2>1, NamesGo DEF Refuse, Go, Set
<1>7. ASSUME NEW r \in Requests, Tell(r) \/ InsertKontext(r) PROVE NamesInv'
  BY <1>1, <1>7, NamesGo DEF Tell, InsertKontext, Set
<1>8. ASSUME NEW r \in Requests, Insert(r) PROVE NamesInv'
  <2>1. /\ Busy(r) /\ Writing(call[r]) /\ TargetOf(call[r]) = call[r].wish
        /\ call' = [call EXCEPT ![r] = Idle] /\ raced' = raced
        /\ rollen' = [rollen EXCEPT ![call[r].id] = call[r].wish]
    BY <1>8 DEF Insert, At, Set, Busy, Idle, Writing, TargetOf
  <2>2. /\ rollen'[call[r].id] = call[r].wish
        /\ \A k \in Ids : k # call[r].id => rollen'[k] = rollen[k]
    BY <2>1, Requested DEF Inv, Typed
  <2> QED
    BY <1>1, <2>1, <2>2, NamesStep
<1>9. ASSUME NEW r \in Requests, Remove(r) PROVE NamesInv'
  <2>1. /\ Busy(r) /\ call' = [call EXCEPT ![r] = Idle] /\ raced' = raced
        /\ rollen' = [rollen EXCEPT ![call[r].id] = Deleted]
    BY <1>9 DEF Remove, At, Set, Busy, Idle
  <2>2. /\ rollen'[call[r].id] = Deleted /\ ~LiveRow(Deleted)
        /\ \A k \in Ids : k # call[r].id => rollen'[k] = rollen[k]
    BY <2>1, Requested DEF Inv, Typed, LiveRow, Deleted
  <2> QED
    BY <1>1, <2>1, <2>2, NamesStep
<1>10. ASSUME NEW r \in Requests, Update(r) PROVE NamesInv'
  <2> DEFINE t == [call[r] EXCEPT !.pc = "tell"]
             d == IF call[r].op = "put" THEN t ELSE Idle
  <2>1. /\ At(r, Changing, "save") /\ UpToDate(r)
        /\ rollen' = [rollen EXCEPT ![call[r].id] = Written(r)]
        /\ call' = [call EXCEPT ![r] = d] /\ raced' = raced
    BY <1>10 DEF Update, Set, Written
  <2>2. Busy(r) /\ call[r].id \in Ids
    BY <2>1, UpdatesSeen
  <2>3. /\ Written(r).name = call[r].row.name /\ Written(r).knoten = call[r].row.knoten
    BY <2>1, WrittenRow
  <2>4. Writing(call[r]) /\ TargetOf(call[r]) = call[r].row
    BY <2>1 DEF At, Writing, TargetOf, Changing
  <2>5. /\ rollen'[call[r].id] = Written(r)
        /\ \A k \in Ids : k # call[r].id => rollen'[k] = rollen[k]
    BY <2>1, <2>2 DEF Inv, Typed
  <2>6. ~Writing(d)
    <3>1. t.pc = "tell"
      BY <2>2, TellingRequest
    <3> HIDE DEF t
    <3> QED
      BY <1>1, <3>1 DEF Writing
  <2> HIDE DEF d
  <2> QED
    BY <2>1, <2>2, <2>3, <2>4, <2>5, <2>6, NamesStep
<1> QED
  BY <1>2, <1>3, <1>4, <1>5, <1>6, <1>7, <1>8, <1>9, <1>10, NamesCheck
  DEF Next, Step, RemoveKontext, DeleteAngebot, vars

\* Two Rollen of one Knoten have different names, unless requests that look at its
\* names overlapped: RolleNameUniqueOnSsk is asked long before the row is written,
\* and nothing but the absence of others keeps the name free.
THEOREM NamesStayUnique == Spec => []NamesUniqueAlone
<1>1. Init => NamesInv
  <2> SUFFICES ASSUME Init PROVE NamesInv
    OBVIOUS
  <2>1. \A r \in Requests : ~Busy(r)
    BY DEF Init, Busy
  <2>2. NamesUniqueAlone
    BY DEF Init, NamesUniqueAlone
  <2> QED
    BY <2>1, <2>2 DEF NamesInv
<1>2. NamesInv => NamesUniqueAlone
  BY DEF NamesInv
<1> QED
  BY <1>1, <1>2, InitInv, InvInductive, NamesInductive, PTL DEF Spec
=============================================================================
