------------------------- MODULE ImportAndKeycloak_proofs -------------------------
(***************************************************************************)
(* Proofs about the import of pupils, for any number of imports, items and *)
(* requests, and about the groups of a person in Keycloak, which have      *)
(* state of their own, for any Rollen, groups and Personenkontexte and any *)
(* number of events and failures.                                          *)
(***************************************************************************)
EXTENDS ImportWorkflow, KeycloakGroups, TLAPS

\* What each step of a request relies on: it knows its import, an item at hand
\* has an outcome, and the handler's fields were set by some event.
StepsSound ==
    \A r \in Requests :
        /\ pc[r] # "idle" => at[r] \in Imports
        /\ pc[r] = "store" => result[r] \in Items \X {"SUCCESS", "FAILED"}
        /\ pc[r] \in {"load", "create", "store", "finish"} => selected \in Schools

LEMMA TypeInductive ==
    TypeOK /\ StepsSound /\ [Next]_vars => TypeOK' /\ StepsSound'
<1> SUFFICES ASSUME TypeOK, StepsSound, [Next]_vars PROVE TypeOK' /\ StepsSound'
  OBVIOUS
<1> USE ImportAssumption
        DEF TypeOK, StepsSound, Person, ItemStatus, Status, Steps, Over, NoItems
<1>1. ASSUME NEW r \in Requests, NEW i \in Imports, Upload(r, i) PROVE TypeOK' /\ StepsSound'
  BY <1>1 DEF Upload, Arrives, Go
<1>2. ASSUME NEW r \in Requests, NEW i \in Imports, Execute(r, i) PROVE TypeOK' /\ StepsSound'
  BY <1>2 DEF Execute, Starts, Arrives, Go, local
<1>3. ASSUME NEW r \in Requests, NEW i \in Imports, Download(r, i) PROVE TypeOK' /\ StepsSound'
  BY <1>3 DEF Download, Starts, Arrives, Go, local
<1>4. ASSUME NEW r \in Requests, NEW i \in Imports, CancelOrComplete(r, i) PROVE TypeOK' /\ StepsSound'
  BY <1>4 DEF CancelOrComplete, Starts, Arrives, Go, local
<1>5. ASSUME NEW r \in Requests, CreateAll(r) PROVE TypeOK' /\ StepsSound'
  BY <1>5 DEF CreateAll, Go
<1>6. ASSUME NEW r \in Requests, Validate(r) PROVE TypeOK' /\ StepsSound'
  BY <1>6 DEF Validate, SaveVorgang, Flush, Go, local
<1>7. ASSUME NEW r \in Requests, MarkInProgress(r) PROVE TypeOK' /\ StepsSound'
  BY <1>7 DEF MarkInProgress, SaveVorgang, Flush, Go, local
<1>8. ASSUME NEW r \in Requests, Publish(r) PROVE TypeOK' /\ StepsSound'
  BY <1>8 DEF Publish, Go, local
<1>9. ASSUME NEW r \in Requests, LoadItems(r) PROVE TypeOK' /\ StepsSound'
  BY <1>9 DEF LoadItems, Rows, Go
<1>10. ASSUME NEW r \in Requests, CreatePerson(r) PROVE TypeOK' /\ StepsSound'
  <2>1. PICK x \in todo[r], made \in SUBSET {selected}, status \in {"SUCCESS", "FAILED"} :
          /\ persons' = persons \cup
                 {[import |-> at[r], item |-> x, school |-> s] : s \in made}
          /\ result' = [result EXCEPT ![r] = <<x, status>>]
    BY <1>10 DEF CreatePerson
  <2>2. x \in Items /\ at[r] \in Imports /\ made \subseteq Schools
    BY <1>10 DEF CreatePerson
  <2>3. persons' \subseteq Person
    BY <2>1, <2>2
  <2>4. \A q \in Requests : q # r => result'[q] = result[q]
    BY <2>1
  <2>5. result'[r] = <<x, status>>
    BY <2>1, <2>2
  <2> QED
    BY <1>10, <2>2, <2>3, <2>4, <2>5 DEF CreatePerson, Go
<1>11. ASSUME NEW r \in Requests, SaveItem(r) PROVE TypeOK' /\ StepsSound'
  BY <1>11 DEF SaveItem, Flush, Go
<1>12. ASSUME NEW r \in Requests, Finalize(r) PROVE TypeOK' /\ StepsSound'
  BY <1>12 DEF Finalize, SaveVorgang, Flush, Forget, Go
<1>13. ASSUME NEW r \in Requests, ReadItems(r) PROVE TypeOK' /\ StepsSound'
  BY <1>13 DEF ReadItems, Go, local
<1>14. ASSUME NEW r \in Requests, CreateTextFile(r) PROVE TypeOK' /\ StepsSound'
  <2>1. CASE Go(r, "drop") /\ UNCHANGED <<vorgang, seen, troubled>>
    BY <1>14, <2>1 DEF CreateTextFile, Go, local
  <2>2. CASE SaveVorgang(r, "FAILED") /\ Go(r, "done") /\ troubled' = troubled \cup {at[r]}
    BY <1>14, <2>2 DEF CreateTextFile, SaveVorgang, Flush, Go, local
  <2> QED
    BY <1>14, <2>1, <2>2 DEF CreateTextFile
<1>15. ASSUME NEW r \in Requests, DeleteItems(r) PROVE TypeOK' /\ StepsSound'
  BY <1>15 DEF DeleteItems, Go, local
<1>16. ASSUME NEW r \in Requests, SaveEnd(r) PROVE TypeOK' /\ StepsSound'
  BY <1>16 DEF SaveEnd, SaveVorgang, Flush, Go, local
<1>17. ASSUME NEW r \in Requests, Break(r) PROVE TypeOK' /\ StepsSound'
  BY <1>17 DEF Break, Forget, Go
<1>18. CASE UNCHANGED vars
  BY <1>18 DEF vars, local
<1> QED
  BY <1>1, <1>2, <1>3, <1>4, <1>5, <1>6, <1>7, <1>8, <1>9, <1>10, <1>11,
     <1>12, <1>13, <1>14, <1>15, <1>16, <1>17, <1>18 DEF Next, Continue

\* Type correctness of every state that requests, the handler and failures reach.
THEOREM TypeCorrect == Spec => []TypeOK
<1>1. Init => TypeOK /\ StepsSound
  BY ImportAssumption
     DEF Init, TypeOK, StepsSound, ItemStatus, Status, Steps, Over, NoItems
<1> QED
  BY <1>1, TypeInductive, PTL DEF Spec

-----------------------------------------------------------------------------
\* While executions do not overlap, the handler's fields are those of the one
\* execution there is, from its event to its end.
OneExecution ==
    /\ \A q, r \in Requests : pc[q] \in Executing /\ pc[r] \in Executing => q = r
    /\ \A r \in Requests :
        pc[r] \in {"load", "create", "store", "finish"} => selected = SchoolOf[at[r]]

LEMMA SchoolInductive ==
    ASSUME ~Overlap
    PROVE  TypeOK /\ StepsSound /\ OneExecution /\ ImportedAtSchool /\ [Next]_vars
               => OneExecution' /\ ImportedAtSchool'
<1> SUFFICES ASSUME TypeOK, StepsSound, OneExecution, ImportedAtSchool, [Next]_vars
             PROVE  OneExecution' /\ ImportedAtSchool'
  OBVIOUS
<1> USE DEF TypeOK, StepsSound, OneExecution, ImportedAtSchool, Executing
<1>1. ASSUME NEW r \in Requests, NEW i \in Imports, Upload(r, i) PROVE OneExecution' /\ ImportedAtSchool'
  BY <1>1 DEF Upload, Arrives, Go
<1>2. ASSUME NEW r \in Requests, NEW i \in Imports, Execute(r, i) PROVE OneExecution' /\ ImportedAtSchool'
  BY <1>2 DEF Execute, Starts, Arrives, Go, local
<1>3. ASSUME NEW r \in Requests, NEW i \in Imports, Download(r, i) PROVE OneExecution' /\ ImportedAtSchool'
  BY <1>3 DEF Download, Starts, Arrives, Go, local
<1>4. ASSUME NEW r \in Requests, NEW i \in Imports, CancelOrComplete(r, i) PROVE OneExecution' /\ ImportedAtSchool'
  BY <1>4 DEF CancelOrComplete, Starts, Arrives, Go, local
<1>5. ASSUME NEW r \in Requests, CreateAll(r) PROVE OneExecution' /\ ImportedAtSchool'
  BY <1>5 DEF CreateAll, Go
<1>6. ASSUME NEW r \in Requests, Validate(r) PROVE OneExecution' /\ ImportedAtSchool'
  BY <1>6 DEF Validate, SaveVorgang, Flush, Go, local
<1>7. ASSUME NEW r \in Requests, MarkInProgress(r) PROVE OneExecution' /\ ImportedAtSchool'
  BY <1>7 DEF MarkInProgress, SaveVorgang, Flush, Go, local
<1>8. ASSUME NEW r \in Requests, Publish(r) PROVE OneExecution' /\ ImportedAtSchool'
  BY <1>8 DEF Publish, Go, local
<1>9. ASSUME NEW r \in Requests, LoadItems(r) PROVE OneExecution' /\ ImportedAtSchool'
  BY <1>9 DEF LoadItems, Rows, Go
<1>10. ASSUME NEW r \in Requests, CreatePerson(r) PROVE OneExecution' /\ ImportedAtSchool'
  BY <1>10 DEF CreatePerson, Go
<1>11. ASSUME NEW r \in Requests, SaveItem(r) PROVE OneExecution' /\ ImportedAtSchool'
  BY <1>11 DEF SaveItem, Flush, Go
<1>12. ASSUME NEW r \in Requests, Finalize(r) PROVE OneExecution' /\ ImportedAtSchool'
  BY <1>12 DEF Finalize, SaveVorgang, Flush, Forget, Go
<1>13. ASSUME NEW r \in Requests, ReadItems(r) PROVE OneExecution' /\ ImportedAtSchool'
  BY <1>13 DEF ReadItems, Go, local
<1>14. ASSUME NEW r \in Requests, CreateTextFile(r) PROVE OneExecution' /\ ImportedAtSchool'
  <2>1. CASE Go(r, "drop") /\ UNCHANGED <<vorgang, seen, troubled>>
    BY <1>14, <2>1 DEF CreateTextFile, Go, local
  <2>2. CASE SaveVorgang(r, "FAILED") /\ Go(r, "done") /\ troubled' = troubled \cup {at[r]}
    BY <1>14, <2>2 DEF CreateTextFile, SaveVorgang, Flush, Go, local
  <2> QED
    BY <1>14, <2>1, <2>2 DEF CreateTextFile
<1>15. ASSUME NEW r \in Requests, DeleteItems(r) PROVE OneExecution' /\ ImportedAtSchool'
  BY <1>15 DEF DeleteItems, Go, local
<1>16. ASSUME NEW r \in Requests, SaveEnd(r) PROVE OneExecution' /\ ImportedAtSchool'
  BY <1>16 DEF SaveEnd, SaveVorgang, Flush, Go, local
<1>17. ASSUME NEW r \in Requests, Break(r) PROVE OneExecution' /\ ImportedAtSchool'
  BY <1>17 DEF Break, Forget, Go
<1>18. CASE UNCHANGED vars
  BY <1>18 DEF vars, local
<1> QED
  BY <1>1, <1>2, <1>3, <1>4, <1>5, <1>6, <1>7, <1>8, <1>9, <1>10, <1>11,
     <1>12, <1>13, <1>14, <1>15, <1>16, <1>17, <1>18 DEF Next, Continue

\* If executions do not overlap, everyone an import creates gets the school of
\* that import, whatever happens to other imports and wherever requests break.
THEOREM ImportsReachTheirSchool ==
    ASSUME ~Overlap
    PROVE  Spec => []ImportedAtSchool
<1>1. Init => TypeOK /\ StepsSound /\ OneExecution /\ ImportedAtSchool
  BY ImportAssumption
     DEF Init, TypeOK, StepsSound, OneExecution, ImportedAtSchool, Executing,
         ItemStatus, Status, Steps, Over, NoItems
<1> QED
  BY <1>1, TypeInductive, SchoolInductive, PTL DEF Spec

-----------------------------------------------------------------------------
\* A success that is about to be written has its person.
SuccessToStore ==
    \A r \in Requests :
        pc[r] = "store" /\ result[r][2] = "SUCCESS" =>
            \E p \in persons : p.import = at[r] /\ p.item = result[r][1]

\* Steps that neither touch items and persons nor bring an item to be stored.
StoresNothing ==
    /\ UNCHANGED <<items, persons>>
    /\ \A r \in Requests : pc'[r] = "store" =>
        pc[r] = "store" /\ result'[r] = result[r] /\ at'[r] = at[r]

LEMMA SuccessKept ==
    SuccessToStore /\ SuccessHasPerson /\ StoresNothing => SuccessToStore' /\ SuccessHasPerson'
<1> SUFFICES ASSUME SuccessToStore, SuccessHasPerson, StoresNothing
             PROVE  SuccessToStore' /\ SuccessHasPerson'
  OBVIOUS
<1>1. SuccessHasPerson'
  BY DEF SuccessHasPerson, StoresNothing
<1>2. SuccessToStore'
  <2> SUFFICES ASSUME NEW r \in Requests, pc'[r] = "store", result'[r][2] = "SUCCESS"
               PROVE  \E p \in persons' : p.import = at'[r] /\ p.item = result'[r][1]
    BY DEF SuccessToStore
  <2>1. pc[r] = "store" /\ result'[r] = result[r] /\ at'[r] = at[r] /\ persons' = persons
    BY DEF StoresNothing
  <2> QED
    BY <2>1 DEF SuccessToStore
<1> QED
  BY <1>1, <1>2

LEMMA SuccessInductive ==
    TypeOK /\ StepsSound /\ SuccessToStore /\ SuccessHasPerson /\ [Next]_vars
        => SuccessToStore' /\ SuccessHasPerson'
<1> SUFFICES ASSUME TypeOK, StepsSound, SuccessToStore, SuccessHasPerson, [Next]_vars
             PROVE  SuccessToStore' /\ SuccessHasPerson'
  OBVIOUS
<1> USE DEF TypeOK, StepsSound, SuccessToStore, SuccessHasPerson
<1>1. ASSUME NEW r \in Requests, NEW i \in Imports, Upload(r, i) PROVE StoresNothing
  BY <1>1 DEF StoresNothing, Upload, Arrives, Go
<1>2. ASSUME NEW r \in Requests, NEW i \in Imports, Execute(r, i) PROVE StoresNothing
  BY <1>2 DEF StoresNothing, Execute, Starts, Arrives, Go, local
<1>3. ASSUME NEW r \in Requests, NEW i \in Imports, Download(r, i) PROVE StoresNothing
  BY <1>3 DEF StoresNothing, Download, Starts, Arrives, Go, local
<1>4. ASSUME NEW r \in Requests, NEW i \in Imports, CancelOrComplete(r, i) PROVE StoresNothing
  BY <1>4 DEF StoresNothing, CancelOrComplete, Starts, Arrives, Go, local
<1>5. ASSUME NEW r \in Requests, CreateAll(r) PROVE SuccessToStore' /\ SuccessHasPerson'
  BY <1>5 DEF CreateAll, Go
<1>6. ASSUME NEW r \in Requests, Validate(r) PROVE StoresNothing
  BY <1>6 DEF StoresNothing, Validate, Go, local
<1>7. ASSUME NEW r \in Requests, MarkInProgress(r) PROVE StoresNothing
  BY <1>7 DEF StoresNothing, MarkInProgress, Go, local
<1>8. ASSUME NEW r \in Requests, Publish(r) PROVE StoresNothing
  BY <1>8 DEF StoresNothing, Publish, Go, local
<1>9. ASSUME NEW r \in Requests, LoadItems(r) PROVE StoresNothing
  BY <1>9 DEF StoresNothing, LoadItems, Go
<1>10. ASSUME NEW r \in Requests, CreatePerson(r) PROVE SuccessToStore' /\ SuccessHasPerson'
  <2>1. PICK x \in todo[r], made \in SUBSET {selected}, status \in {"SUCCESS", "FAILED"} :
          /\ status = "SUCCESS" => made # {}
          /\ persons' = persons \cup
                 {[import |-> at[r], item |-> x, school |-> s] : s \in made}
          /\ result' = [result EXCEPT ![r] = <<x, status>>]
    BY <1>10 DEF CreatePerson
  <2>2. persons \subseteq persons'
    BY <2>1
  <2>3. SuccessHasPerson'
    BY <1>10, <2>2 DEF CreatePerson
  <2>4. ASSUME status = "SUCCESS"
        PROVE  \E p \in persons' : p.import = at[r] /\ p.item = x
    <3>1. PICK s : s \in made
      BY <2>1, <2>4
    <3> DEFINE p == [import |-> at[r], item |-> x, school |-> s]
    <3>2. p \in persons' /\ p.import = at[r] /\ p.item = x
      BY <2>1, <3>1
    <3> QED
      BY <3>2
  <2>5. result'[r][1] = x /\ result'[r][2] = status
    BY <2>1
  <2>6. ASSUME NEW q \in Requests, pc'[q] = "store", result'[q][2] = "SUCCESS"
        PROVE  \E p \in persons' : p.import = at'[q] /\ p.item = result'[q][1]
    <3>1. CASE q = r
      BY <1>10, <2>4, <2>5, <2>6, <3>1 DEF CreatePerson
    <3>2. CASE q # r
      <4>1. pc[q] = "store" /\ result[q] = result'[q] /\ at'[q] = at[q]
        BY <1>10, <2>1, <2>6, <3>2 DEF CreatePerson, Go
      <4> QED
        BY <2>2, <2>6, <4>1
    <3> QED
      BY <3>1, <3>2
  <2> QED
    BY <2>3, <2>6
<1>11. ASSUME NEW r \in Requests, SaveItem(r) PROVE SuccessToStore' /\ SuccessHasPerson'
  <2>1. SuccessToStore'
    BY <1>11 DEF SaveItem, Go
  <2>2. ASSUME NEW i \in Imports, NEW x \in Items, items'[i][x] = "SUCCESS"
        PROVE  \E p \in persons' : p.import = i /\ p.item = x
    <3>1. CASE items[i][x] = "SUCCESS"
      BY <1>11, <3>1 DEF SaveItem
    <3>2. CASE items[i][x] # "SUCCESS"
      <4>1. i = at[r] /\ x = result[r][1] /\ result[r][2] = "SUCCESS"
        BY <1>11, <2>2, <3>2 DEF SaveItem, Flush
      <4> QED
        BY <1>11, <4>1 DEF SaveItem
    <3> QED
      BY <3>1, <3>2
  <2> QED
    BY <2>1, <2>2
<1>12. ASSUME NEW r \in Requests, Finalize(r) PROVE StoresNothing
  BY <1>12 DEF StoresNothing, Finalize, Forget, Go
<1>13. ASSUME NEW r \in Requests, ReadItems(r) PROVE StoresNothing
  BY <1>13 DEF StoresNothing, ReadItems, Go, local
<1>14. ASSUME NEW r \in Requests, CreateTextFile(r) PROVE StoresNothing
  BY <1>14 DEF StoresNothing, CreateTextFile, Go, local
<1>15. ASSUME NEW r \in Requests, DeleteItems(r) PROVE SuccessToStore' /\ SuccessHasPerson'
  BY <1>15 DEF DeleteItems, NoItems, Go, local
<1>16. ASSUME NEW r \in Requests, SaveEnd(r) PROVE StoresNothing
  BY <1>16 DEF StoresNothing, SaveEnd, Go, local
<1>17. ASSUME NEW r \in Requests, Break(r) PROVE StoresNothing
  BY <1>17 DEF StoresNothing, Break, Forget, Go
<1>18. ASSUME UNCHANGED vars PROVE StoresNothing
  BY <1>18 DEF StoresNothing, vars, local
<1> QED
  BY <1>1, <1>2, <1>3, <1>4, <1>5, <1>6, <1>7, <1>8, <1>9, <1>10, <1>11,
     <1>12, <1>13, <1>14, <1>15, <1>16, <1>17, <1>18, SuccessKept DEF Next, Continue

\* No item is ever reported as imported without its person, even if executions
\* overlap, are repeated, cancelled or broken off.
THEOREM SuccessesHavePersons == Spec => []SuccessHasPerson
<1>1. Init => TypeOK /\ StepsSound /\ SuccessToStore /\ SuccessHasPerson
  BY ImportAssumption
     DEF Init, TypeOK, StepsSound, SuccessToStore, SuccessHasPerson,
         ItemStatus, Status, Steps, Over, NoItems
<1> QED
  BY <1>1, TypeInductive, SuccessInductive, PTL DEF Spec

-----------------------------------------------------------------------------
\* What the items of an import are while a request works on it: "v" the status of
\* its row, "rows" those of the items, "left" the items the request has still to
\* reach, "copy" those it loaded, "won" whether one of them succeeded.
AllAre(status) == [x \in Items |-> status]
Whole(rows) == rows = NoItems \/ \A x \in Items : rows[x] # "none"

Kept(v, rows) ==
    \/ v \in {"none", "COMPLETED", "CANCELLED", "INPROGRESS"} /\ rows = NoItems
    \/ v \in {"VALID", "INVALID"} /\ rows = AllAre("PENDING")
    \/ v = "FAILED" /\ rows = AllAre("FAILED")
    \/ /\ v = "FINISHED" /\ \A x \in Items : rows[x] \in {"SUCCESS", "FAILED"}
       /\ \E x \in Items : rows[x] = "SUCCESS"

Carried(v, rows, left, copy, won) ==
    /\ v = "INPROGRESS"
    /\ \A x \in Items : IF x \in left THEN rows[x] = copy[x] /\ rows[x] # "none"
                        ELSE rows[x] \in {"SUCCESS", "FAILED"}
    /\ won <=> \E x \in Items \ left : rows[x] = "SUCCESS"

Underway(step, v, rows, left, copy, res, won) ==
    /\ step = "chunk" =>
         v = "STARTED" /\ rows = [x \in Items |-> IF x \in left THEN "none" ELSE "PENDING"]
    /\ step = "validate" => v = "STARTED" /\ rows = AllAre("PENDING")
    /\ step \in {"execute", "publish", "load"} => Whole(rows)
    /\ step \in {"publish", "load"} => v = "INPROGRESS"
    /\ step \in {"create", "store", "finish"} => Items # {} /\ Carried(v, rows, left, copy, won)
    /\ step = "store" => res[1] \in left
    /\ step = "finish" => left = {}
    /\ step \in {"read", "file"} => v = "FINISHED" /\ Kept(v, rows)
    /\ step = "save" => rows = NoItems

Works(r) == pc[r] \notin Over

\* The inductive invariant: requests on one import do not overlap, the status a
\* request knows is that of the row, and an import that nothing troubled is as
\* the request on it needs it, or as it was left.
ItemsInv ==
    /\ \A q, r \in Requests : Works(q) /\ Works(r) /\ at[q] = at[r] => q = r
    /\ \A r \in Requests : Works(r) => seen[r] = vorgang[at[r]] /\ vorgang[at[r]] # "none"
    /\ \A r \in Requests : pc[r] \notin {"create", "store", "finish"} => ~success[r]
    /\ \A r \in Requests : Works(r) /\ at[r] \notin troubled =>
         Underway(pc[r], vorgang[at[r]], items[at[r]], todo[r], loaded[r], result[r], success[r])
    /\ \A i \in Imports : AtRest(i) => Kept(vorgang[i], items[i])

\* A step of request r for import j: nothing of the other requests and imports
\* changes, and nobody else works on j.
StepFor(r, j) ==
    /\ at' = [at EXCEPT ![r] = j]
    /\ \A q \in Requests : q # r =>
         /\ pc'[q] = pc[q] /\ seen'[q] = seen[q] /\ loaded'[q] = loaded[q]
         /\ todo'[q] = todo[q] /\ result'[q] = result[q] /\ success'[q] = success[q]
         /\ ~(Works(q) /\ at[q] = j)
    /\ Works(r) => at[r] = j
    /\ \A i \in Imports : i # j => vorgang'[i] = vorgang[i] /\ items'[i] = items[i]
    /\ troubled \subseteq troubled' /\ troubled' \subseteq troubled \cup {j}

\* What it owes: the request goes on as the import needs it, or leaves it so.
Owed(r, j) ==
    /\ pc'[r] \notin Over =>
         /\ seen'[r] = vorgang'[j] /\ vorgang'[j] # "none"
         /\ j \notin troubled' =>
              Underway(pc'[r], vorgang'[j], items'[j], todo'[r], loaded'[r], result'[r], success'[r])
    /\ pc'[r] \in Over /\ j \notin troubled' => Kept(vorgang'[j], items'[j])
    /\ pc'[r] \notin {"create", "store", "finish"} => ~success'[r]

LEMMA StepKeepsItems ==
    ASSUME TypeOK, StepsSound, ItemsInv, NEW r \in Requests, NEW j \in Imports, StepFor(r, j), Owed(r, j)
    PROVE  ItemsInv'
<1>1. at'[r] = j /\ \A q \in Requests : q # r => at'[q] = at[q]
  BY DEF StepFor, TypeOK
<1>2. \A q \in Requests : q # r => (Works(q)' <=> Works(q))
  BY DEF StepFor, Works
<1>3. ASSUME NEW p \in Requests, NEW q \in Requests, Works(p)', Works(q)', at'[p] = at'[q] PROVE p = q
  BY <1>1, <1>2, <1>3 DEF StepFor, ItemsInv
<1>4. ASSUME NEW q \in Requests, Works(q)'
      PROVE  /\ seen'[q] = vorgang'[at'[q]] /\ vorgang'[at'[q]] # "none"
             /\ at'[q] \notin troubled' =>
                  Underway(pc'[q], vorgang'[at'[q]], items'[at'[q]], todo'[q], loaded'[q], result'[q], success'[q])
  <2>1. CASE q = r
    BY <1>1, <1>4, <2>1 DEF Owed, Works
  <2>2. CASE q # r
    <3>1. Works(q) /\ at'[q] = at[q] /\ at[q] # j
      BY <1>1, <1>2, <1>4, <2>2 DEF StepFor
    <3>2. seen[q] = vorgang[at[q]] /\ vorgang[at[q]] # "none"
      BY <3>1 DEF ItemsInv
    <3>3. at[q] \in Imports
      BY <3>2, <3>1 DEF TypeOK, StepsSound, Works, Over
    <3>4. vorgang'[at[q]] = vorgang[at[q]] /\ items'[at[q]] = items[at[q]]
      BY <3>1, <3>3 DEF StepFor
    <3>5. /\ pc'[q] = pc[q] /\ seen'[q] = seen[q] /\ loaded'[q] = loaded[q]
          /\ todo'[q] = todo[q] /\ result'[q] = result[q] /\ success'[q] = success[q]
      BY <2>2 DEF StepFor
    <3>6. at[q] \notin troubled' => at[q] \notin troubled
      BY DEF StepFor
    <3>7. at[q] \notin troubled =>
            Underway(pc[q], vorgang[at[q]], items[at[q]], todo[q], loaded[q], result[q], success[q])
      BY <3>1 DEF ItemsInv
    <3> QED
      BY <3>1, <3>2, <3>4, <3>5, <3>6, <3>7
  <2> QED
    BY <2>1, <2>2
<1>5. ASSUME NEW q \in Requests, pc'[q] \notin {"create", "store", "finish"} PROVE ~success'[q]
  <2>1. CASE q = r
    BY <1>5, <2>1 DEF Owed
  <2>2. CASE q # r
    BY <1>2, <1>5, <2>2 DEF StepFor, ItemsInv
  <2> QED
    BY <2>1, <2>2
<1>6. ASSUME NEW i \in Imports, AtRest(i)' PROVE Kept(vorgang'[i], items'[i])
  <2>1. i \notin troubled' /\ \A q \in Requests : ~(at'[q] = i /\ Works(q)')
    BY <1>6 DEF AtRest, Busy, Works
  <2>2. CASE i = j
    BY <1>1, <2>1, <2>2 DEF Owed, Works
  <2>3. CASE i # j
    <3>1. \A q \in Requests : ~(at[q] = i /\ Works(q))
      <4> SUFFICES ASSUME NEW q \in Requests, at[q] = i, Works(q) PROVE FALSE
        OBVIOUS
      <4>1. q # r
        BY <2>3 DEF StepFor
      <4> QED
        BY <1>1, <1>2, <2>1, <4>1
    <3>2. AtRest(i)
      BY <2>1, <3>1 DEF AtRest, Busy, Works, StepFor
    <3> QED
      BY <2>3, <3>2 DEF ItemsInv, StepFor
  <2> QED
    BY <2>2, <2>3
<1> QED
  BY <1>3, <1>4, <1>5, <1>6 DEF ItemsInv

\* A request under way: its import, what it knows of it, and what a copy that it
\* flushes leaves in the row.
LEMMA GoesOn ==
    ASSUME TypeOK, StepsSound, ItemsInv, NEW r \in Requests, Works(r)
    PROVE  /\ at[r] \in Imports /\ at = [at EXCEPT ![r] = at[r]]
           /\ \A q \in Requests : q # r => ~(Works(q) /\ at[q] = at[r])
           /\ vorgang[at[r]] # "none"
           /\ \A status : Flush(vorgang[at[r]], seen[r], status) = status
           /\ at[r] \notin troubled =>
                Underway(pc[r], vorgang[at[r]], items[at[r]], todo[r], loaded[r], result[r], success[r])
<1>1. at[r] \in Imports
  BY DEF TypeOK, StepsSound, Works, Over
<1>2. at = [at EXCEPT ![r] = at[r]]
  BY DEF TypeOK
<1>3. \A q \in Requests : q # r => ~(Works(q) /\ at[q] = at[r])
  BY DEF ItemsInv
<1>4. vorgang[at[r]] # "none" /\ seen[r] = vorgang[at[r]]
  BY DEF ItemsInv
<1>5. \A status : Flush(vorgang[at[r]], seen[r], status) = status
  BY <1>4 DEF Flush
<1>6. at[r] \notin troubled =>
        Underway(pc[r], vorgang[at[r]], items[at[r]], todo[r], loaded[r], result[r], success[r])
  BY DEF ItemsInv
<1> QED
  BY <1>1, <1>2, <1>3, <1>4, <1>5, <1>6

\* A request that saves the import leaves the status it saves.
LEMMA SavesStatus ==
    ASSUME TypeOK, StepsSound, ItemsInv, NEW r \in Requests, Works(r), NEW status, SaveVorgang(r, status)
    PROVE  /\ vorgang'[at[r]] = status /\ seen'[r] = status
           /\ \A i \in Imports : i # at[r] => vorgang'[i] = vorgang[i]
           /\ \A q \in Requests : q # r => seen'[q] = seen[q]
<1>1. at[r] \in Imports /\ Flush(vorgang[at[r]], seen[r], status) = status
  BY GoesOn
<1>2. vorgang' = [vorgang EXCEPT ![at[r]] = Flush(vorgang[at[r]], seen[r], status)]
  BY DEF SaveVorgang
<1>3. vorgang' = [vorgang EXCEPT ![at[r]] = status]
  BY <1>1, <1>2
<1> QED
  BY <1>1, <1>3 DEF SaveVorgang, TypeOK

\* An import that a request is let onto: nobody works on it.
LEMMA FoundAtRest ==
    ASSUME TypeOK, ItemsInv, NEW i \in Imports, vorgang[i] = "none" \/ ~Busy(i)
    PROVE  /\ \A q \in Requests : ~(Works(q) /\ at[q] = i)
           /\ i \notin troubled => Kept(vorgang[i], items[i])
<1>1. \A q \in Requests : ~(Works(q) /\ at[q] = i)
  BY DEF ItemsInv, Busy, Works
<1>2. i \notin troubled => AtRest(i)
  BY <1>1 DEF AtRest, Busy, Works
<1> QED
  BY <1>1, <1>2 DEF ItemsInv

LEMMA KeptIsWhole == ASSUME NEW v, NEW rows, Kept(v, rows) PROVE Whole(rows)
BY DEF Kept, Whole, AllAre, NoItems

LEMMA StepUpload ==
    ASSUME TypeOK, StepsSound, ItemsInv, NEW r \in Requests, NEW i \in Imports, Upload(r, i)
    PROVE  StepFor(r, i) /\ Owed(r, i)
<1>1. /\ \A q \in Requests : ~(Works(q) /\ at[q] = i)
      /\ i \notin troubled => Kept(vorgang[i], items[i])
  BY FoundAtRest DEF Upload
<1>2. /\ vorgang'[i] = "STARTED" /\ seen'[r] = "STARTED" /\ todo'[r] = Items /\ pc'[r] = "chunk"
      /\ ~success'[r]
  BY DEF Upload, Arrives, Go, TypeOK, ItemsInv
<1>3. ~Works(r)
  BY DEF Upload, Arrives, Works, Over
<1>4. StepFor(r, i)
  BY <1>1, <1>3 DEF StepFor, Upload, Arrives, Go, TypeOK
<1>5. ASSUME i \notin troubled' PROVE items'[i] = [x \in Items |-> IF x \in Items THEN "none" ELSE "PENDING"]
  <2>1. items'[i] = items[i] /\ i \notin troubled
    BY <1>5 DEF Upload
  <2>2. items[i] = NoItems
    BY <1>1, <2>1 DEF Upload, Kept
  <2> QED
    BY <2>1, <2>2 DEF NoItems
<1> QED
  BY <1>2, <1>4, <1>5 DEF Owed, Over, Underway

\* The request that executes, downloads or deletes.
LEMMA StepStarts ==
    ASSUME ~Overlap, TypeOK, StepsSound, ItemsInv, NEW r \in Requests, NEW i \in Imports,
           NEW step \in {"execute", "read", "drop"}, Starts(r, i, step),
           step = "read" => vorgang[i] = "FINISHED"
    PROVE  StepFor(r, i) /\ Owed(r, i)
<1>1. /\ \A q \in Requests : ~(Works(q) /\ at[q] = i)
      /\ i \notin troubled => Kept(vorgang[i], items[i])
  BY FoundAtRest DEF Starts
<1>2. /\ vorgang'[i] = vorgang[i] /\ seen'[r] = vorgang[i] /\ vorgang[i] # "none" /\ pc'[r] = step
      /\ items'[i] = items[i] /\ troubled' = troubled /\ success'[r] = success[r]
  BY DEF Starts, Go, TypeOK, local
<1>3. ~Works(r)
  BY DEF Starts, Arrives, Works, Over
<1>4. StepFor(r, i)
  BY <1>1, <1>3 DEF StepFor, Starts, Arrives, Go, TypeOK, local
<1>5. ~success[r]
  BY DEF Starts, Arrives, ItemsInv
<1>6. ASSUME i \notin troubled
      PROVE  Underway(step, vorgang[i], items[i], todo'[r], loaded'[r], result'[r], success[r])
  <2>1. Kept(vorgang[i], items[i]) /\ Whole(items[i])
    BY <1>1, <1>6, KeptIsWhole
  <2> QED
    BY <1>5, <2>1 DEF Underway
<1>7. step \notin Over
  BY DEF Over
<1> QED
  BY <1>2, <1>4, <1>5, <1>6, <1>7 DEF Owed

LEMMA StepCreateAll ==
    ASSUME TypeOK, StepsSound, ItemsInv, NEW r \in Requests, CreateAll(r)
    PROVE  StepFor(r, at[r]) /\ Owed(r, at[r])
<1>1. Works(r) /\ pc[r] = "chunk"
  BY DEF CreateAll, Works, Over
<1> DEFINE j == at[r]
<1>2. PICK x \in todo[r] :
        /\ items' = [items EXCEPT ![j][x] = "PENDING"]
        /\ todo' = [todo EXCEPT ![r] = @ \ {x}]
        /\ Go(r, IF todo[r] = {x} THEN "validate" ELSE "chunk")
  BY DEF CreateAll
<1>3. /\ j \in Imports /\ at = [at EXCEPT ![r] = j]
      /\ \A q \in Requests : q # r => ~(Works(q) /\ at[q] = j)
      /\ vorgang[j] # "none" /\ seen[r] = vorgang[j] /\ ~success[r]
      /\ j \notin troubled => Underway(pc[r], vorgang[j], items[j], todo[r], loaded[r], result[r], success[r])
  BY <1>1, GoesOn DEF ItemsInv
<1>4. x \in Items
  BY DEF TypeOK
<1>5. StepFor(r, j)
  BY <1>2, <1>3, <1>4 DEF StepFor, CreateAll, Go, TypeOK
<1>6. /\ vorgang' = vorgang /\ seen' = seen /\ troubled' = troubled /\ success' = success
      /\ todo'[r] = todo[r] \ {x} /\ items'[j] = [items[j] EXCEPT ![x] = "PENDING"]
      /\ pc'[r] = IF todo[r] = {x} THEN "validate" ELSE "chunk"
  BY <1>2, <1>3, <1>4 DEF CreateAll, Go, TypeOK
<1>7. ASSUME j \notin troubled
      PROVE  /\ vorgang[j] = "STARTED"
             /\ items'[j] = [y \in Items |-> IF y \in todo[r] \ {x} THEN "none" ELSE "PENDING"]
  <2>1. vorgang[j] = "STARTED" /\ items[j] = [y \in Items |-> IF y \in todo[r] THEN "none" ELSE "PENDING"]
    BY <1>1, <1>3, <1>7 DEF Underway
  <2> QED
    BY <1>4, <1>6, <2>1
<1>8. CASE todo[r] = {x}
  <2>1. pc'[r] = "validate" /\ todo[r] \ {x} = {}
    BY <1>6, <1>8
  <2>2. ASSUME j \notin troubled PROVE items'[j] = AllAre("PENDING")
    BY <1>7, <2>1, <2>2 DEF AllAre
  <2> QED
    BY <1>3, <1>5, <1>6, <1>7, <2>1, <2>2 DEF Owed, Over, Underway
<1>9. CASE todo[r] # {x}
  <2>1. pc'[r] = "chunk"
    BY <1>6, <1>9
  <2> QED
    BY <1>3, <1>5, <1>6, <1>7, <2>1 DEF Owed, Over, Underway
<1> QED
  BY <1>8, <1>9

LEMMA StepValidate ==
    ASSUME TypeOK, StepsSound, ItemsInv, NEW r \in Requests, Validate(r)
    PROVE  StepFor(r, at[r]) /\ Owed(r, at[r])
<1>1. Works(r) /\ pc[r] = "validate"
  BY DEF Validate, Works, Over
<1>2. PICK verdict \in {"VALID", "INVALID"} : SaveVorgang(r, verdict)
  BY DEF Validate
<1>3. /\ vorgang'[at[r]] = verdict /\ seen'[r] = verdict
      /\ \A i \in Imports : i # at[r] => vorgang'[i] = vorgang[i]
      /\ \A q \in Requests : q # r => seen'[q] = seen[q]
  BY <1>1, <1>2, SavesStatus
<1>4. StepFor(r, at[r])
  BY <1>1, <1>3, GoesOn DEF StepFor, Validate, Go, TypeOK, local
<1>5. pc'[r] = "done" /\ items' = items /\ troubled' = troubled /\ success' = success
  BY DEF Validate, Go, TypeOK, local
<1> QED
  <2>1. at[r] \notin troubled => items[at[r]] = AllAre("PENDING")
    BY <1>1, GoesOn DEF Underway
  <2>2. at[r] \notin troubled => Kept(verdict, items[at[r]])
    BY <2>1 DEF Kept
  <2>3. ~success[r]
    BY <1>1 DEF ItemsInv
  <2> QED
    BY <1>3, <1>4, <1>5, <2>2, <2>3 DEF Owed, Over

LEMMA StepMarkInProgress ==
    ASSUME TypeOK, StepsSound, ItemsInv, NEW r \in Requests, MarkInProgress(r)
    PROVE  StepFor(r, at[r]) /\ Owed(r, at[r])
<1>1. Works(r) /\ pc[r] = "execute" /\ SaveVorgang(r, "INPROGRESS")
  BY DEF MarkInProgress, Works, Over
<1>2. /\ vorgang'[at[r]] = "INPROGRESS" /\ seen'[r] = "INPROGRESS"
      /\ \A i \in Imports : i # at[r] => vorgang'[i] = vorgang[i]
      /\ \A q \in Requests : q # r => seen'[q] = seen[q]
  BY <1>1, SavesStatus
<1>3. StepFor(r, at[r])
  BY <1>1, <1>2, GoesOn DEF StepFor, MarkInProgress, Go, TypeOK, local
<1>4. /\ pc'[r] = "publish" /\ items' = items /\ troubled' = troubled /\ ~success'[r]
  BY <1>1 DEF MarkInProgress, Go, TypeOK, ItemsInv, local
<1>5. at[r] \notin troubled => Whole(items[at[r]])
  BY <1>1, GoesOn DEF Underway
<1> QED
  BY <1>2, <1>3, <1>4, <1>5 DEF Owed, Over, Underway

LEMMA StepPublish ==
    ASSUME TypeOK, StepsSound, ItemsInv, NEW r \in Requests, Publish(r)
    PROVE  StepFor(r, at[r]) /\ Owed(r, at[r])
<1>1. Works(r) /\ pc[r] = "publish"
  BY DEF Publish, Works, Over
<1>2. StepFor(r, at[r])
  BY <1>1, GoesOn DEF StepFor, Publish, Go, TypeOK, local
<1>3. /\ pc'[r] = "load" /\ items' = items /\ troubled' = troubled /\ ~success'[r]
      /\ vorgang' = vorgang /\ seen' = seen
  BY <1>1 DEF Publish, Go, TypeOK, ItemsInv, local
<1>4. at[r] \notin troubled => Whole(items[at[r]]) /\ vorgang[at[r]] = "INPROGRESS"
  BY <1>1, GoesOn DEF Underway
<1>5. vorgang[at[r]] # "none" /\ seen[r] = vorgang[at[r]]
  BY <1>1 DEF ItemsInv
<1> QED
  BY <1>2, <1>3, <1>4, <1>5 DEF Owed, Over, Underway

LEMMA StepLoadItems ==
    ASSUME TypeOK, StepsSound, ItemsInv, NEW r \in Requests, LoadItems(r)
    PROVE  StepFor(r, at[r]) /\ Owed(r, at[r])
<1> DEFINE j == at[r]
<1>1. Works(r) /\ pc[r] = "load"
  BY DEF LoadItems, Works, Over
<1>2. StepFor(r, j)
  BY <1>1, GoesOn DEF StepFor, LoadItems, Go, TypeOK
<1>3. /\ pc'[r] = IF Rows(j) = {} THEN "done" ELSE "create"
      /\ items' = items /\ troubled' = troubled /\ success' = success /\ ~success[r]
      /\ vorgang' = vorgang /\ seen' = seen /\ todo'[r] = Rows(j) /\ loaded'[r] = items[j]
  BY <1>1 DEF LoadItems, Go, TypeOK, ItemsInv
<1>4. j \notin troubled => Whole(items[j]) /\ vorgang[j] = "INPROGRESS"
  BY <1>1, GoesOn DEF Underway
<1>5. vorgang[j] # "none" /\ seen[r] = vorgang[j] /\ j \in Imports
  BY <1>1, GoesOn DEF ItemsInv
<1>6. CASE Rows(j) = {}
  <2>1. items[j] = [x \in Items |-> items[j][x]] /\ \A x \in Items : items[j][x] = "none"
    BY <1>5, <1>6 DEF Rows, TypeOK
  <2>2. items[j] = NoItems
    BY <2>1 DEF NoItems
  <2> QED
    BY <1>2, <1>3, <1>4, <1>6, <2>2 DEF Owed, Over, Kept
<1>7. CASE Rows(j) # {}
  <2>1. pc'[r] = "create"
    BY <1>3, <1>7
  <2>2. PICK y \in Items : items[j][y] # "none"
    BY <1>7 DEF Rows
  <2>3. ASSUME j \notin troubled PROVE Rows(j) = Items
    <3>1. \A x \in Items : items[j][x] # "none"
      BY <1>4, <2>2, <2>3 DEF Whole, NoItems
    <3> QED
      BY <3>1 DEF Rows
  <2>4. ASSUME j \notin troubled PROVE Carried(vorgang[j], items[j], Rows(j), items[j], success[r])
    BY <1>3, <1>4, <2>3, <2>4 DEF Carried, Rows
  <2>5. Items # {}
    BY <2>2
  <2> QED
    BY <1>2, <1>3, <1>5, <2>1, <2>4, <2>5 DEF Owed, Over, Underway
<1> QED
  BY <1>6, <1>7

LEMMA StepCreatePerson ==
    ASSUME TypeOK, StepsSound, ItemsInv, NEW r \in Requests, CreatePerson(r)
    PROVE  StepFor(r, at[r]) /\ Owed(r, at[r])
<1> DEFINE j == at[r]
<1>1. Works(r) /\ pc[r] = "create"
  BY DEF CreatePerson, Works, Over
<1>2. PICK x \in todo[r], status \in {"SUCCESS", "FAILED"} : result' = [result EXCEPT ![r] = <<x, status>>]
  BY DEF CreatePerson
<1>3. result'[r] = <<x, status>> /\ \A q \in Requests : q # r => result'[q] = result[q]
  BY <1>2 DEF TypeOK
<1>4. StepFor(r, j)
  BY <1>1, <1>3, GoesOn DEF StepFor, CreatePerson, Go, TypeOK
<1>5. /\ pc'[r] = "store" /\ items' = items /\ troubled' = troubled /\ success' = success
      /\ vorgang' = vorgang /\ seen' = seen /\ todo' = todo /\ loaded' = loaded
  BY DEF CreatePerson, Go, TypeOK
<1>6. vorgang[j] # "none" /\ seen[r] = vorgang[j]
  BY <1>1 DEF ItemsInv
<1>7. j \notin troubled =>
        Items # {} /\ Carried(vorgang[j], items[j], todo[r], loaded[r], success[r])
  BY <1>1, GoesOn DEF Underway
<1>8. result'[r][1] \in todo[r]
  BY <1>3
<1> QED
  BY <1>4, <1>5, <1>6, <1>7, <1>8 DEF Owed, Over, Underway

LEMMA StepSaveItem ==
    ASSUME TypeOK, StepsSound, ItemsInv, NEW r \in Requests, SaveItem(r)
    PROVE  StepFor(r, at[r]) /\ Owed(r, at[r])
<1> DEFINE j == at[r]
           x == result[r][1]
           status == result[r][2]
           new == Flush(items[j][x], loaded[r][x], status)
<1>1. Works(r) /\ pc[r] = "store"
  BY DEF SaveItem, Works, Over
<1>2. j \in Imports /\ x \in Items /\ status \in {"SUCCESS", "FAILED"}
  BY <1>1, GoesOn DEF StepsSound
<1>3. /\ items' = [items EXCEPT ![j][x] = new]
      /\ success' = [success EXCEPT ![r] = @ \/ status = "SUCCESS"]
      /\ todo' = [todo EXCEPT ![r] = @ \ {x}]
      /\ Go(r, IF todo[r] = {x} THEN "finish" ELSE "create")
      /\ result' = [result EXCEPT ![r] = <<>>]
      /\ UNCHANGED <<vorgang, persons, selected, at, seen, loaded, troubled>>
  BY DEF SaveItem
<1> HIDE DEF x, status, new
<1>4. StepFor(r, j)
  BY <1>1, <1>2, <1>3, GoesOn DEF StepFor, Go, TypeOK
<1>5. /\ pc'[r] = IF todo[r] = {x} THEN "finish" ELSE "create"
      /\ items'[j] = [items[j] EXCEPT ![x] = new]
      /\ success'[r] = (success[r] \/ status = "SUCCESS")
      /\ todo'[r] = todo[r] \ {x}
      /\ vorgang' = vorgang /\ seen' = seen /\ loaded' = loaded /\ troubled' = troubled
  BY <1>2, <1>3 DEF Go, TypeOK
<1>6. vorgang[j] # "none" /\ seen[r] = vorgang[j]
  BY <1>1 DEF ItemsInv
<1>7. ASSUME j \notin troubled
      PROVE  /\ Items # {} /\ x \in todo[r]
             /\ Carried(vorgang[j], items'[j], todo[r] \ {x}, loaded[r], success'[r])
  <2>1. Items # {} /\ x \in todo[r] /\ Carried(vorgang[j], items[j], todo[r], loaded[r], success[r])
    BY <1>1, <1>7, GoesOn DEF Underway, x
  <2>2. items[j][x] = loaded[r][x] /\ items[j][x] # "none"
    BY <1>2, <2>1 DEF Carried
  <2>3. new = status
    BY <2>2 DEF Flush, new
  <2>4. items'[j][x] = status /\ \A y \in Items : y # x => items'[j][y] = items[j][y]
    BY <1>2, <1>5, <2>3 DEF TypeOK
  <2>5. ASSUME NEW y \in Items
        PROVE  IF y \in todo[r] \ {x} THEN items'[j][y] = loaded[r][y] /\ items'[j][y] # "none"
               ELSE items'[j][y] \in {"SUCCESS", "FAILED"}
    BY <1>2, <2>1, <2>4 DEF Carried
  <2>6. success'[r] <=> \E y \in Items \ (todo[r] \ {x}) : items'[j][y] = "SUCCESS"
    <3>1. success[r] <=> \E y \in Items \ todo[r] : items[j][y] = "SUCCESS"
      BY <2>1 DEF Carried
    <3>2. success'[r] <=> success[r] \/ status = "SUCCESS"
      BY <1>5
    <3>3. Items \ (todo[r] \ {x}) = (Items \ todo[r]) \cup {x}
      BY <1>2, <2>1
    <3> QED
      BY <2>1, <2>4, <3>1, <3>2, <3>3
  <2>7. vorgang[j] = "INPROGRESS"
    BY <2>1 DEF Carried
  <2> QED
    BY <2>1, <2>5, <2>6, <2>7 DEF Carried
<1>8. CASE todo[r] = {x}
  <2>1. pc'[r] = "finish" /\ todo'[r] = {}
    BY <1>5, <1>8
  <2> QED
    BY <1>4, <1>5, <1>6, <1>7, <2>1 DEF Owed, Over, Underway
<1>9. CASE todo[r] # {x}
  <2>1. pc'[r] = "create"
    BY <1>5, <1>9
  <2> QED
    BY <1>4, <1>5, <1>6, <1>7, <2>1 DEF Owed, Over, Underway
<1> QED
  BY <1>8, <1>9

LEMMA StepFinalize ==
    ASSUME TypeOK, StepsSound, ItemsInv, NEW r \in Requests, Finalize(r)
    PROVE  StepFor(r, at[r]) /\ Owed(r, at[r])
<1> DEFINE j == at[r]
           status == IF success[r] THEN "FINISHED" ELSE "FAILED"
<1>1. Works(r) /\ pc[r] = "finish" /\ SaveVorgang(r, status)
  BY DEF Finalize, Works, Over
<1>2. /\ vorgang'[j] = status /\ seen'[r] = status
      /\ \A i \in Imports : i # j => vorgang'[i] = vorgang[i]
      /\ \A q \in Requests : q # r => seen'[q] = seen[q]
  BY <1>1, SavesStatus
<1>3. StepFor(r, j)
  BY <1>1, <1>2, GoesOn DEF StepFor, Finalize, Forget, Go, TypeOK
<1>4. /\ pc'[r] = "done" /\ items' = items /\ troubled' = troubled /\ ~success'[r]
  BY DEF Finalize, Forget, Go, TypeOK
<1>5. ASSUME j \notin troubled PROVE Kept(status, items[j])
  <2>1. /\ Items # {} /\ todo[r] = {}
        /\ Carried(vorgang[j], items[j], todo[r], loaded[r], success[r])
    BY <1>1, <1>5, GoesOn DEF Underway
  <2>2. \A x \in Items : items[j][x] \in {"SUCCESS", "FAILED"}
    BY <2>1 DEF Carried
  <2>3. success[r] <=> \E x \in Items : items[j][x] = "SUCCESS"
    BY <2>1 DEF Carried
  <2>4. CASE success[r]
    BY <2>2, <2>3, <2>4 DEF Kept
  <2>5. CASE ~success[r]
    <3>1. items[j] = [x \in Items |-> items[j][x]]
      BY <1>1, GoesOn DEF TypeOK
    <3>2. \A x \in Items : items[j][x] = "FAILED"
      BY <2>2, <2>3, <2>5
    <3>3. items[j] = AllAre("FAILED")
      BY <3>1, <3>2 DEF AllAre
    <3> QED
      BY <2>5, <3>3 DEF Kept
  <2> QED
    BY <2>4, <2>5
<1> QED
  BY <1>2, <1>3, <1>4, <1>5 DEF Owed, Over

LEMMA StepReadItems ==
    ASSUME TypeOK, StepsSound, ItemsInv, NEW r \in Requests, ReadItems(r)
    PROVE  StepFor(r, at[r]) /\ Owed(r, at[r])
<1>1. Works(r) /\ pc[r] = "read"
  BY DEF ReadItems, Works, Over
<1>2. StepFor(r, at[r])
  BY <1>1, GoesOn DEF StepFor, ReadItems, Go, TypeOK, local
<1>3. /\ pc'[r] \in {"done", "file"} /\ items' = items /\ troubled' = troubled /\ ~success'[r]
      /\ vorgang' = vorgang /\ seen' = seen
  BY <1>1 DEF ReadItems, Go, TypeOK, ItemsInv, local
<1>4. at[r] \notin troubled => vorgang[at[r]] = "FINISHED" /\ Kept(vorgang[at[r]], items[at[r]])
  BY <1>1, GoesOn DEF Underway
<1>5. vorgang[at[r]] # "none" /\ seen[r] = vorgang[at[r]]
  BY <1>1 DEF ItemsInv
<1> QED
  BY <1>2, <1>3, <1>4, <1>5 DEF Owed, Over, Underway

LEMMA StepCreateTextFile ==
    ASSUME TypeOK, StepsSound, ItemsInv, NEW r \in Requests, CreateTextFile(r)
    PROVE  StepFor(r, at[r]) /\ Owed(r, at[r])
<1>1. Works(r) /\ pc[r] = "file"
  BY DEF CreateTextFile, Works, Over
<1>2. /\ at' = at /\ items' = items /\ success' = success /\ loaded' = loaded
      /\ todo' = todo /\ result' = result /\ ~success[r]
  BY <1>1 DEF CreateTextFile, ItemsInv, local
<1>3. CASE Go(r, "drop") /\ UNCHANGED <<vorgang, seen, troubled>>
  <2>1. StepFor(r, at[r])
    BY <1>1, <1>2, <1>3, GoesOn DEF StepFor, Go, TypeOK
  <2>2. pc'[r] = "drop" /\ vorgang' = vorgang /\ seen' = seen
    BY <1>3 DEF Go, TypeOK
  <2>3. vorgang[at[r]] # "none" /\ seen[r] = vorgang[at[r]]
    BY <1>1 DEF ItemsInv
  <2> QED
    BY <1>2, <2>1, <2>2, <2>3 DEF Owed, Over, Underway
<1>4. CASE SaveVorgang(r, "FAILED") /\ Go(r, "done") /\ troubled' = troubled \cup {at[r]}
  <2>1. /\ \A i \in Imports : i # at[r] => vorgang'[i] = vorgang[i]
        /\ \A q \in Requests : q # r => seen'[q] = seen[q]
    BY <1>1, <1>4, SavesStatus
  <2>2. StepFor(r, at[r])
    BY <1>1, <1>2, <1>4, <2>1, GoesOn DEF StepFor, Go, TypeOK
  <2>3. pc'[r] = "done" /\ at[r] \in troubled'
    BY <1>4 DEF Go, TypeOK
  <2> QED
    BY <1>2, <2>2, <2>3 DEF Owed, Over
<1> QED
  BY <1>3, <1>4 DEF CreateTextFile

LEMMA StepDeleteItems ==
    ASSUME TypeOK, StepsSound, ItemsInv, NEW r \in Requests, DeleteItems(r)
    PROVE  StepFor(r, at[r]) /\ Owed(r, at[r])
<1>1. Works(r) /\ pc[r] = "drop"
  BY DEF DeleteItems, Works, Over
<1>2. StepFor(r, at[r])
  BY <1>1, GoesOn DEF StepFor, DeleteItems, Go, TypeOK, local
<1>3. /\ pc'[r] = "save" /\ items'[at[r]] = NoItems /\ troubled' = troubled /\ ~success'[r]
      /\ vorgang' = vorgang /\ seen' = seen
  BY <1>1, GoesOn DEF DeleteItems, Go, TypeOK, ItemsInv, local
<1>4. vorgang[at[r]] # "none" /\ seen[r] = vorgang[at[r]]
  BY <1>1 DEF ItemsInv
<1> QED
  BY <1>2, <1>3, <1>4 DEF Owed, Over, Underway

LEMMA StepSaveEnd ==
    ASSUME TypeOK, StepsSound, ItemsInv, NEW r \in Requests, SaveEnd(r)
    PROVE  StepFor(r, at[r]) /\ Owed(r, at[r])
<1> DEFINE status == IF seen[r] = "FINISHED" THEN "COMPLETED" ELSE "CANCELLED"
<1>1. Works(r) /\ pc[r] = "save" /\ SaveVorgang(r, status)
  BY DEF SaveEnd, Works, Over
<1>2. /\ vorgang'[at[r]] = status /\ seen'[r] = status
      /\ \A i \in Imports : i # at[r] => vorgang'[i] = vorgang[i]
      /\ \A q \in Requests : q # r => seen'[q] = seen[q]
  BY <1>1, SavesStatus
<1>3. StepFor(r, at[r])
  BY <1>1, <1>2, GoesOn DEF StepFor, SaveEnd, Go, TypeOK, local
<1>4. /\ pc'[r] = "done" /\ items' = items /\ troubled' = troubled /\ ~success'[r]
  BY <1>1 DEF SaveEnd, Go, TypeOK, ItemsInv, local
<1>5. at[r] \notin troubled => items[at[r]] = NoItems
  BY <1>1, GoesOn DEF Underway
<1> QED
  BY <1>2, <1>3, <1>4, <1>5 DEF Owed, Over, Kept

LEMMA StepBreak ==
    ASSUME TypeOK, StepsSound, ItemsInv, NEW r \in Requests, Break(r)
    PROVE  StepFor(r, at[r]) /\ Owed(r, at[r])
<1>1. Works(r)
  BY DEF Break, Works
<1>2. StepFor(r, at[r])
  BY <1>1, GoesOn DEF StepFor, Break, Forget, Go, TypeOK
<1>3. pc'[r] = "broken" /\ at[r] \in troubled' /\ ~success'[r]
  BY DEF Break, Forget, Go, TypeOK
<1> QED
  BY <1>2, <1>3 DEF Owed, Over

LEMMA ItemsInductive ==
    ASSUME ~Overlap
    PROVE  TypeOK /\ StepsSound /\ ItemsInv /\ [Next]_vars => ItemsInv'
<1> SUFFICES ASSUME TypeOK, StepsSound, ItemsInv, [Next]_vars PROVE ItemsInv'
  OBVIOUS
<1>1. ASSUME NEW r \in Requests, NEW i \in Imports,
             Upload(r, i) \/ Execute(r, i) \/ Download(r, i) \/ CancelOrComplete(r, i)
      PROVE  ItemsInv'
  <2>1. StepFor(r, i) /\ Owed(r, i)
    BY <1>1, StepUpload, StepStarts DEF Execute, Download, CancelOrComplete
  <2> QED
    BY <2>1, StepKeepsItems
<1>2. ASSUME NEW r \in Requests, Continue(r) \/ Break(r) PROVE ItemsInv'
  <2>1. StepFor(r, at[r]) /\ Owed(r, at[r])
    BY <1>2, StepCreateAll, StepValidate, StepMarkInProgress, StepPublish, StepLoadItems,
       StepCreatePerson, StepSaveItem, StepFinalize, StepReadItems, StepCreateTextFile,
       StepDeleteItems, StepSaveEnd, StepBreak
       DEF Continue
  <2>2. pc[r] \notin Over
    BY <1>2 DEF Continue, CreateAll, Validate, MarkInProgress, Publish, LoadItems, CreatePerson,
                SaveItem, Finalize, ReadItems, CreateTextFile, DeleteItems, SaveEnd, Break, Over
  <2>3. at[r] \in Imports
    BY <2>2 DEF StepsSound, Over
  <2> QED
    BY <2>1, <2>3, StepKeepsItems
<1>3. CASE UNCHANGED vars
  BY <1>3 DEF vars, local, ItemsInv, Works, AtRest, Busy
<1> QED
  BY <1>1, <1>2, <1>3 DEF Next

LEMMA ItemsTell == ItemsInv => StatusTellsItems
<1> SUFFICES ASSUME ItemsInv, NEW i \in Imports, AtRest(i)
             PROVE  /\ vorgang[i] = "FAILED" => \A x \in Rows(i) : items[i][x] # "SUCCESS"
                    /\ vorgang[i] = "FINISHED" /\ Rows(i) # {} =>
                           \E x \in Rows(i) : items[i][x] # "FAILED"
                    /\ vorgang[i] \in {"VALID", "INVALID"} => items[i] = [x \in Items |-> "PENDING"]
                    /\ vorgang[i] \in {"COMPLETED", "CANCELLED", "INPROGRESS"} => Rows(i) = {}
                    /\ vorgang[i] = "FAILED" => items[i] = [x \in Items |-> "FAILED"]
                    /\ vorgang[i] = "FINISHED" => \E x \in Items : items[i][x] = "SUCCESS"
                    /\ vorgang[i] # "STARTED"
  BY DEF StatusTellsItems, OutcomeTold
<1>1. Kept(vorgang[i], items[i])
  BY DEF ItemsInv
<1>2. vorgang[i] \in {"COMPLETED", "CANCELLED", "INPROGRESS"} => Rows(i) = {}
  BY <1>1 DEF Kept, NoItems, Rows
<1>3. vorgang[i] = "FAILED" => items[i] = [x \in Items |-> "FAILED"]
  BY <1>1 DEF Kept, AllAre
<1>4. vorgang[i] = "FAILED" => \A x \in Rows(i) : items[i][x] # "SUCCESS"
  BY <1>3 DEF Rows
<1>5. vorgang[i] = "FINISHED" => \E x \in Items : items[i][x] = "SUCCESS"
  BY <1>1 DEF Kept
<1>6. vorgang[i] = "FINISHED" => \E x \in Rows(i) : items[i][x] # "FAILED"
  BY <1>5 DEF Rows
<1>7. vorgang[i] \in {"VALID", "INVALID"} => items[i] = [x \in Items |-> "PENDING"]
  BY <1>1 DEF Kept, AllAre
<1>8. vorgang[i] # "STARTED"
  BY <1>1 DEF Kept
<1> QED
  BY <1>2, <1>3, <1>4, <1>5, <1>6, <1>7, <1>8

\* If requests on one import do not overlap, what an administrator reads off the
\* status of an import at rest is true of its items, whatever was executed again,
\* deleted or downloaded before, and wherever requests on other imports broke off.
THEOREM StatusIsTold ==
    ASSUME ~Overlap
    PROVE  Spec => []StatusTellsItems
<1>1. Init => TypeOK /\ StepsSound /\ ItemsInv
  <2>1. Init => TypeOK /\ StepsSound
    BY ImportAssumption
       DEF Init, TypeOK, StepsSound, ItemStatus, Status, Steps, Over, NoItems
  <2>2. Init => ItemsInv
    BY DEF Init, ItemsInv, Works, Over, Kept
  <2> QED
    BY <2>1, <2>2
<1>2. TypeOK /\ StepsSound /\ ItemsInv /\ [Next]_vars => TypeOK' /\ StepsSound' /\ ItemsInv'
  BY TypeInductive, ItemsInductive
<1> QED
  BY <1>1, <1>2, ItemsTell, PTL DEF Spec

-----------------------------------------------------------------------------
(* The groups of a person in Keycloak.                                     *)

RolleTask ==
    [pc : {"rolle", "others", "groups", "list", "write"}, op : {"assign", "remove"},
     rolle : Rollen, others : SUBSET Rollen, names : SUBSET Groups]
ProviderTask ==
    [pc : {"find", "create", "role", "map"}, op : {"create"}, name : Groups, role : Roles]

\* A task is of the kind its place says; what it is about to write exists, where
\* w, g and r are what was asked for, the groups and the roles.
Fits(t, task, w, g, r) ==
    IF t[2] = "provider"
    THEN /\ task \in ProviderTask
         /\ <<task.name, task.role>> \in w
         /\ task.pc \in {"role", "map"} => task.name \in g
         /\ task.pc = "map" => task.role \in r
    ELSE /\ task \in RolleTask
         /\ task.rolle = t[2]
         /\ task.pc \in {"list", "write"} => task.names \subseteq g

WorkOK ==
    /\ work \in [Tasks -> {Idle} \cup RolleTask \cup ProviderTask]
    /\ \A t \in Tasks : work[t] # Idle => Fits(t, work[t], asked, groups, roles)

TypeInv == KeycloakTypeOK /\ WorkOK

LEMMA TypeInit == KeycloakInit => TypeInv
<1> SUFFICES ASSUME KeycloakInit PROVE TypeInv
  OBVIOUS
<1>1. member \subseteq groups
  BY DEF KeycloakInit, Due
<1>4. mapped \subseteq asked \cap (groups \X roles) /\ roles \subseteq Roles
  <2>1. \A a \in asked : a[1] \in Groups /\ a[2] \in Roles /\ a = <<a[1], a[2]>>
    BY DEF KeycloakInit
  <2> QED
    BY <2>1, GroupsAssumption DEF KeycloakInit
<1>2. WorkOK
  BY DEF KeycloakInit, WorkOK
<1>3. \A t \in Tasks : ~UnderWay(t)
  BY DEF KeycloakInit, UnderWay
<1> QED
  BY <1>1, <1>2, <1>3, <1>4, GroupsAssumption DEF KeycloakInit, TypeInv, KeycloakTypeOK

\* How far a task is tells of which kind it is.
Kind(t, task) ==
    \/ task = Idle /\ task.pc = "idle"
    \/ t[2] = "provider" /\ task.pc \in {"find", "create", "role", "map"}
    \/ t[2] \in Rollen /\ task.pc \in {"rolle", "others", "groups", "list", "write"}

LEMMA Kinds ==
    ASSUME NEW t \in Tasks, NEW task, NEW w, NEW g, NEW r, task = Idle \/ Fits(t, task, w, g, r)
    PROVE  Kind(t, task)
<1>1. CASE task = Idle
  BY <1>1 DEF Kind, Idle
<1>2. CASE t[2] = "provider" /\ task \in ProviderTask
  BY <1>2 DEF Kind, ProviderTask
<1>3. CASE t[2] # "provider" /\ task \in RolleTask
  <2>1. t[2] \in Rollen
    BY <1>3 DEF Tasks
  <2> QED
    BY <1>3, <2>1 DEF Kind, RolleTask
<1> QED
  BY <1>1, <1>2, <1>3 DEF Fits

LEMMA AllKinds == WorkOK => \A t \in Tasks : Kind(t, work[t])
BY Kinds DEF WorkOK

LEMMA AllKindsNext == WorkOK' => \A t \in Tasks : Kind(t, work'[t])
BY Kinds DEF WorkOK

\* A step of one task that leaves a task of its kind.
LEMMA TaskStep ==
    ASSUME WorkOK, NEW t \in Tasks, NEW task,
           task = Idle \/ Fits(t, task, asked', groups', roles'),
           work' = [work EXCEPT ![t] = task],
           asked \subseteq asked', groups \subseteq groups', roles \subseteq roles'
    PROVE  WorkOK'
<1>1. task \in {Idle} \cup RolleTask \cup ProviderTask
  BY DEF Fits
<1>2. work' \in [Tasks -> {Idle} \cup RolleTask \cup ProviderTask]
  BY <1>1 DEF WorkOK
<1>3. ASSUME NEW u \in Tasks, work'[u] # Idle
      PROVE  Fits(u, work'[u], asked', groups', roles')
  <2>1. CASE u = t
    BY <1>3, <2>1 DEF WorkOK
  <2>2. CASE u # t
    BY <1>3, <2>2 DEF WorkOK, Fits
  <2> QED
    BY <2>1, <2>2
<1> QED
  BY <1>2, <1>3 DEF WorkOK

\* KeycloakTypeOK's conjunct about the tasks follows from WorkOK.
LEMMA TasksTyped ==
    WorkOK => \A t \in Tasks : UnderWay(t) =>
        IF t[2] = "provider" THEN <<work[t].name, work[t].role>> \in asked
        ELSE work[t].rolle = t[2] /\ work[t].others \subseteq Rollen
BY DEF WorkOK, UnderWay, Fits, RolleTask

LEMMA UpdateTyped == TypeInv /\ Update => WorkOK'
<1> SUFFICES ASSUME TypeInv, Update PROVE WorkOK'
  OBVIOUS
<1>1. PICK after \in SUBSET Kontexte :
        work' = [t \in Tasks |->
                   IF t[1] = events + 1 /\ t[2] \in Rollen
                   THEN TasksOf(kontexte, after)[t[2]] ELSE work[t]]
  BY DEF Update
<1>2. UNCHANGED <<serves, asked, groups, roles>>
  BY DEF Update, realm
<1>3. RollenOf(after) \subseteq Rollen
  BY GroupsAssumption DEF RollenOf
<1>4. ASSUME NEW r \in Rollen
      PROVE  \/ TasksOf(kontexte, after)[r] = Idle
             \/ /\ TasksOf(kontexte, after)[r] \in RolleTask
                /\ TasksOf(kontexte, after)[r].rolle = r
                /\ TasksOf(kontexte, after)[r].pc = "rolle"
  BY <1>3 DEF TasksOf, Task, RolleTask
<1>5. ASSUME NEW t \in Tasks PROVE work'[t] = Idle \/ Fits(t, work'[t], asked', groups', roles')
  <2>1. CASE t[1] = events + 1 /\ t[2] \in Rollen
    BY <1>1, <1>4, <2>1, GroupsAssumption DEF Fits
  <2>2. CASE ~(t[1] = events + 1 /\ t[2] \in Rollen)
    BY <1>1, <1>2, <2>2 DEF Fits, WorkOK, TypeInv
  <2> QED
    BY <2>1, <2>2
<1> QED
  BY <1>1, <1>5 DEF WorkOK, Fits

\* A task of a Rolle and what becomes of it.
LEMMA RolleTaskAt ==
    ASSUME WorkOK, NEW t \in Tasks, UnderWay(t),
           work[t].pc \in {"rolle", "others", "groups", "list", "write"}
    PROVE  /\ t[2] # "provider" /\ t[2] \in Rollen
           /\ work[t] \in RolleTask /\ work[t].rolle = t[2]
           /\ work[t].pc \in {"list", "write"} => work[t].names \subseteq groups
BY DEF WorkOK, UnderWay, Fits, ProviderTask, RolleTask

LEMMA RolleTaskNext ==
    ASSUME WorkOK, NEW t \in Tasks, UnderWay(t),
           work[t].pc \in {"rolle", "others", "groups", "list", "write"},
           NEW step \in {"others", "groups", "list", "write"}, NEW names \in SUBSET Groups,
           step \in {"list", "write"} => names \subseteq groups
    PROVE  Fits(t, [work[t] EXCEPT !.pc = step, !.names = names], asked, groups, roles)
<1>1. t[2] # "provider" /\ work[t] \in RolleTask /\ work[t].rolle = t[2]
  BY RolleTaskAt
<1> QED
  BY <1>1 DEF Fits, RolleTask

\* Both ways of changing what Rollen give.
LEMMA Serving ==
    ASSUME TypeInv, ChangeRolle \/ ChangeProvider
    PROVE  \E given \in [Rollen -> SUBSET Groups] : Serve(given)
<1>1. serves \in [Rollen -> SUBSET Groups]
  BY DEF TypeInv, KeycloakTypeOK
<1>2. CASE ChangeRolle
  <2>1. PICK rolle \in Rollen, given \in SUBSET Groups : Serve([serves EXCEPT ![rolle] = given])
    BY <1>2 DEF ChangeRolle
  <2>2. [serves EXCEPT ![rolle] = given] \in [Rollen -> SUBSET Groups]
    BY <1>1
  <2> QED
    BY <2>1, <2>2
<1>3. CASE ChangeProvider
  <2>1. PICK served \in SUBSET Rollen, former \in {{}} \cup {{h} : h \in Groups}, g \in Groups :
             \E kept \in SUBSET served :
               Serve([r \in Rollen |->
                   IF r \notin served THEN serves[r]
                   ELSE {g} \cup IF r \in kept THEN serves[r] ELSE serves[r] \ former])
    BY <1>3 DEF ChangeProvider
  <2>2. ASSUME NEW kept
        PROVE  [r \in Rollen |->
            IF r \notin served THEN serves[r]
            ELSE {g} \cup IF r \in kept THEN serves[r] ELSE serves[r] \ former]
            \in [Rollen -> SUBSET Groups]
    BY <1>1
  <2> QED
    BY <2>1, <2>2
<1> QED
  BY <1>2, <1>3

LEMMA KeycloakTypeInductive == TypeInv /\ [KeycloakNext]_keycloakVars => TypeInv'
<1> SUFFICES ASSUME TypeInv, [KeycloakNext]_keycloakVars PROVE TypeInv'
  OBVIOUS
<1>1. WorkOK' => \A t \in Tasks : UnderWay(t)' =>
          IF t[2] = "provider" THEN <<work'[t].name, work'[t].role>> \in asked'
          ELSE work'[t].rolle = t[2] /\ work'[t].others \subseteq Rollen
  BY DEF WorkOK, UnderWay, Fits, RolleTask
<1> USE GroupsAssumption DEF TypeInv, KeycloakTypeOK, Asked, db, realm
<1>2. CASE Update
  <2>1. /\ UNCHANGED <<serves, asked, groups, roles, mapped, member, failures>>
        /\ kontexte' \subseteq Kontexte
        /\ events < MaxEvents /\ events' = events + 1
    BY <1>2 DEF Update, Happen
  <2>2. sound' \in BOOLEAN
    BY <1>2 DEF Update
  <2>3. WorkOK'
    BY <1>2, UpdateTyped
  <2> QED
    BY <2>1, <2>2, <2>3, <1>1
<1>3. CASE CreateProvider
  <2>1. PICK g \in Groups, role \in Roles :
          /\ asked' = asked \cup {<<g, role>>}
          /\ work' = [work EXCEPT ![<<events + 1, "provider">>] =
                         [pc |-> "find", op |-> "create", name |-> g, role |-> role]]
          /\ events < MaxEvents /\ events' = events + 1
    BY <1>3 DEF CreateProvider, Happen
  <2>2. UNCHANGED <<kontexte, serves, groups, roles, mapped, member, sound, failures>>
    BY <1>3 DEF CreateProvider, Happen
  <2> DEFINE t == <<events + 1, "provider">>
             task == [pc |-> "find", op |-> "create", name |-> g, role |-> role]
  <2>3. t \in Tasks /\ task \in ProviderTask
    BY <2>1 DEF Tasks, ProviderTask
  <2>4. work' \in [Tasks -> {Idle} \cup RolleTask \cup ProviderTask]
    BY <2>1, <2>3 DEF WorkOK
  <2>5. \A u \in Tasks : work'[u] # Idle => Fits(u, work'[u], asked', groups', roles')
    <3> SUFFICES ASSUME NEW u \in Tasks, work'[u] # Idle 
                 PROVE  Fits(u, work'[u], asked', groups', roles')
      OBVIOUS
    <3>1. CASE u = t
      BY <2>1, <2>3, <3>1 DEF Fits, WorkOK
    <3>2. CASE u # t
      BY <2>1, <2>2, <3>2 DEF Fits, WorkOK
    <3> QED
      BY <3>1, <3>2
  <2>6. WorkOK'
    BY <2>4, <2>5 DEF WorkOK
  <2>7. /\ asked' \subseteq Groups \X Roles
        /\ groups' \subseteq {h \in Groups : Asked(h)'}
        /\ mapped' \subseteq asked' \cap (groups' \X roles')
    <3>1. asked \subseteq asked' /\ asked' \subseteq Groups \X Roles
      BY <2>1
    <3>2. \A h \in Groups : Asked(h) => Asked(h)'
      BY <3>1
    <3> QED
      BY <3>1, <3>2, <2>2
  <2>8. events' \in 0 .. MaxEvents
    BY <2>1
  <2>9. \A u \in Tasks : UnderWay(u)' =>
            IF u[2] = "provider" THEN <<work'[u].name, work'[u].role>> \in asked'
            ELSE work'[u].rolle = u[2] /\ work'[u].others \subseteq Rollen
    BY <2>6, <1>1
  <2> QED
    BY <2>2, <2>6, <2>7, <2>8, <2>9
<1>4. CASE ChangeRolle \/ ChangeProvider
  <2>1. PICK given \in [Rollen -> SUBSET Groups] : Serve(given)
    BY <1>4, Serving
  <2>2. /\ UNCHANGED <<kontexte, asked, groups, roles, mapped, member, work, failures>>
        /\ serves' = given /\ sound' \in BOOLEAN
        /\ events < MaxEvents /\ events' = events + 1
    BY <2>1 DEF Serve, Happen, Calm
  <2>3. WorkOK'
    BY <2>2 DEF WorkOK, Fits
  <2> QED
    BY <2>2, <2>3, <1>1 DEF Asked
<1>5. ASSUME NEW t \in Tasks, FindGroup(t) PROVE TypeInv'
  <2>1. PICK task : /\ task = Idle \/ Fits(t, task, asked', groups', roles')
                    /\ work' = [work EXCEPT ![t] = task]
    BY <1>5 DEF FindGroup, At, UnderWay, Goto, End, WorkOK, Fits, RolleTask, ProviderTask, Idle, Same
  <2>2. asked \subseteq asked' /\ groups \subseteq groups' /\ roles \subseteq roles'
    BY <1>5 DEF FindGroup, Same
  <2>3. WorkOK'
    BY <2>1, <2>2, TaskStep
  <2> QED
    BY <1>5, <2>3, <1>1 DEF FindGroup, Same
<1>6. ASSUME NEW t \in Tasks, CreateGroup(t) PROVE TypeInv'
  <2>1. PICK task : /\ task = Idle \/ Fits(t, task, asked', groups', roles')
                    /\ work' = [work EXCEPT ![t] = task]
    BY <1>6 DEF CreateGroup, At, UnderWay, Goto, End, WorkOK, Fits, RolleTask, ProviderTask, Idle, Same
  <2>2. asked \subseteq asked' /\ groups \subseteq groups' /\ roles \subseteq roles'
    BY <1>6 DEF CreateGroup, Same
  <2>3. WorkOK'
    BY <2>1, <2>2, TaskStep
  <2>4. /\ <<work[t].name, work[t].role>> \in asked
        /\ work[t].name \in Groups /\ work[t].role \in Roles
    BY <1>6 DEF CreateGroup, At, UnderWay, WorkOK, Fits, RolleTask, ProviderTask
  <2>5. /\ UNCHANGED <<kontexte, serves, asked, roles, mapped, member, events, failures>>
        /\ groups' = groups \/ groups' = groups \cup {work[t].name}
        /\ sound' \in BOOLEAN
    BY <1>6 DEF CreateGroup, Same
  <2>6. groups' \subseteq {g \in Groups : Asked(g)'}
    BY <2>4, <2>5 DEF Asked
  <2> QED
    BY <2>3, <2>5, <2>6, <1>1
<1>7. ASSUME NEW t \in Tasks, CreateRole(t) PROVE TypeInv'
  <2>1. PICK task : /\ task = Idle \/ Fits(t, task, asked', groups', roles')
                    /\ work' = [work EXCEPT ![t] = task]
    BY <1>7 DEF CreateRole, At, UnderWay, Goto, End, WorkOK, Fits, RolleTask, ProviderTask, Idle, Same
  <2>2. asked \subseteq asked' /\ groups \subseteq groups' /\ roles \subseteq roles'
    BY <1>7 DEF CreateRole, Same
  <2>3. WorkOK'
    BY <2>1, <2>2, TaskStep
  <2>4. work[t].role \in Roles
    BY <1>7 DEF CreateRole, At, UnderWay, WorkOK, Fits, RolleTask, ProviderTask
  <2>5. /\ UNCHANGED <<kontexte, serves, asked, groups, mapped, member, events, failures, sound>>
        /\ roles' = roles \cup {work[t].role}
    BY <1>7 DEF CreateRole, Same
  <2> QED
    BY <2>3, <2>4, <2>5, <1>1 DEF Asked
<1>8. ASSUME NEW t \in Tasks, AddRoleToGroup(t) PROVE TypeInv'
  <2>1. PICK task : /\ task = Idle \/ Fits(t, task, asked', groups', roles')
                    /\ work' = [work EXCEPT ![t] = task]
    BY <1>8 DEF AddRoleToGroup, At, UnderWay, Goto, End, WorkOK, Fits, RolleTask, ProviderTask, Idle, Same
  <2>2. asked \subseteq asked' /\ groups \subseteq groups' /\ roles \subseteq roles'
    BY <1>8 DEF AddRoleToGroup, Same
  <2>3. WorkOK'
    BY <2>1, <2>2, TaskStep
  <2>4. /\ <<work[t].name, work[t].role>> \in asked
        /\ work[t].name \in groups /\ work[t].role \in roles
    BY <1>8 DEF AddRoleToGroup, At, UnderWay, WorkOK, Fits, RolleTask
  <2>5. /\ UNCHANGED <<kontexte, serves, asked, groups, roles, member, events, failures, sound>>
        /\ mapped' = mapped \cup {<<work[t].name, work[t].role>>}
    BY <1>8 DEF AddRoleToGroup, Same
  <2> QED
    BY <2>3, <2>4, <2>5, <1>1 DEF Asked
<1>9. ASSUME NEW t \in Tasks, ReadRolle(t) PROVE TypeInv'
  <2>1. /\ UnderWay(t) /\ work[t].pc = "rolle"
        /\ work[t] \in RolleTask /\ work[t].rolle \in Rollen
        /\ work[t].names \subseteq Groups
        /\ work[t].pc \in {"list", "write"} => work[t].names \subseteq groups
    BY <1>9, RolleTaskAt DEF ReadRolle, At, RolleTask
  <2> DEFINE names == serves[work[t].rolle]
  <2>2. /\ names \in SUBSET Groups
        /\ work' = [work EXCEPT ![t] = [work[t] EXCEPT !.pc = "others", !.names = names]]
    BY <1>9, <2>1 DEF ReadRolle, RolleTask
  <2>3. Fits(t, [work[t] EXCEPT !.pc = "others", !.names = names], asked, groups, roles)
    BY <2>1, <2>2, RolleTaskNext
  <2>4. UNCHANGED <<asked, groups, roles>>
    BY <1>9 DEF ReadRolle, Same
  <2>5. WorkOK'
    BY <2>2, <2>3, <2>4, TaskStep
  <2> QED
    BY <1>9, <2>5, <1>1 DEF ReadRolle, Same
<1>10. ASSUME NEW t \in Tasks, ReadOthers(t) PROVE TypeInv'
  <2>1. /\ UnderWay(t) /\ work[t].pc = "others"
        /\ work[t] \in RolleTask /\ work[t].rolle \in Rollen
        /\ work[t].names \subseteq Groups
        /\ work[t].pc \in {"list", "write"} => work[t].names \subseteq groups
    BY <1>10, RolleTaskAt DEF ReadOthers, At, RolleTask
  <2>2. PICK names \in SUBSET Groups :
          /\ names = work[t].names \ Gives(work[t].others)
          /\ work' = [work EXCEPT ![t] =
                 IF names = {} THEN Idle
                 ELSE [work[t] EXCEPT !.pc = "groups", !.names = names]]
    BY <1>10, <2>1 DEF ReadOthers, RolleTask
  <2>3. Fits(t, [work[t] EXCEPT !.pc = "groups", !.names = names], asked, groups, roles)
    BY <2>1, <2>2, RolleTaskNext
  <2>4. UNCHANGED <<asked, groups, roles>>
    BY <1>10 DEF ReadOthers, Same
  <2>5. WorkOK'
    BY <2>2, <2>3, <2>4, TaskStep
  <2> QED
    BY <1>10, <2>5, <1>1 DEF ReadOthers, Same
<1>11. ASSUME NEW t \in Tasks, FindGroups(t) PROVE TypeInv'
  <2>1. /\ UnderWay(t) /\ work[t].pc = "groups"
        /\ work[t] \in RolleTask /\ work[t].rolle \in Rollen
        /\ work[t].names \subseteq Groups
        /\ work[t].pc \in {"list", "write"} => work[t].names \subseteq groups
    BY <1>11, RolleTaskAt DEF FindGroups, At, RolleTask
  <2>2. PICK names \in SUBSET Groups :
          /\ names = work[t].names \cap groups
          /\ work' = [work EXCEPT ![t] =
                 IF names = {} THEN Idle
                 ELSE [work[t] EXCEPT !.pc = "list", !.names = names]]
    BY <1>11, <2>1 DEF FindGroups, RolleTask
  <2>3. Fits(t, [work[t] EXCEPT !.pc = "list", !.names = names], asked, groups, roles)
    BY <2>1, <2>2, RolleTaskNext
  <2>4. UNCHANGED <<asked, groups, roles>>
    BY <1>11 DEF FindGroups, Same
  <2>5. WorkOK'
    BY <2>2, <2>3, <2>4, TaskStep
  <2> QED
    BY <1>11, <2>5, <1>1 DEF FindGroups, Same
<1>12. ASSUME NEW t \in Tasks, ListGroups(t) PROVE TypeInv'
  <2>1. /\ UnderWay(t) /\ work[t].pc = "list"
        /\ work[t] \in RolleTask /\ work[t].rolle \in Rollen
        /\ work[t].names \subseteq Groups
        /\ work[t].pc \in {"list", "write"} => work[t].names \subseteq groups
    BY <1>12, RolleTaskAt DEF ListGroups, At, RolleTask
  <2>2. PICK names \in SUBSET Groups :
          /\ names \subseteq work[t].names
          /\ work' = [work EXCEPT ![t] =
                 IF names = {} THEN Idle
                 ELSE [work[t] EXCEPT !.pc = "write", !.names = names]]
    BY <1>12, <2>1 DEF ListGroups, RolleTask
  <2>3. Fits(t, [work[t] EXCEPT !.pc = "write", !.names = names], asked, groups, roles)
    BY <2>1, <2>2, RolleTaskNext
  <2>4. UNCHANGED <<asked, groups, roles>>
    BY <1>12 DEF ListGroups, Same
  <2>5. WorkOK'
    BY <2>2, <2>3, <2>4, TaskStep
  <2> QED
    BY <1>12, <2>5, <1>1 DEF ListGroups, Same
<1>13. ASSUME NEW t \in Tasks, Write(t) PROVE TypeInv'
  <2>1. /\ UnderWay(t) /\ work[t].pc = "write"
        /\ work[t] \in RolleTask /\ work[t].rolle \in Rollen
        /\ work[t].names \subseteq Groups
        /\ work[t].pc \in {"list", "write"} => work[t].names \subseteq groups
    BY <1>13, RolleTaskAt DEF Write, At, RolleTask
  <2>2. PICK g \in work[t].names :
          /\ member' = IF work[t].op = "assign" THEN member \cup {g} ELSE member \ {g}
          /\ work' = [work EXCEPT ![t] =
                 IF work[t].names = {g} THEN Idle
                 ELSE [work[t] EXCEPT !.names = work[t].names \ {g}]]
    BY <1>13 DEF Write
  <2> DEFINE names == work[t].names \ {g}
  <2>3. [work[t] EXCEPT !.names = names] = [work[t] EXCEPT !.pc = "write", !.names = names]
    BY <2>1 DEF RolleTask
  <2>4. /\ names \in SUBSET Groups
        /\ work' = [work EXCEPT ![t] = IF names = {} THEN Idle
                       ELSE [work[t] EXCEPT !.pc = "write", !.names = names]]
    <3>1. names \in SUBSET Groups
      BY <2>1
    <3>2. (names = {}) <=> (work[t].names = {g})
      BY <2>2
    <3>3. CASE names = {}
      BY <2>2, <3>1, <3>2, <3>3
    <3>4. CASE names # {}
      <4>1. work' = [work EXCEPT ![t] = [work[t] EXCEPT !.names = names]]
        BY <2>2, <3>2, <3>4, Zenon
      <4> QED
        BY <4>1, <2>3, <3>1, <3>4
    <3> QED
      BY <3>3, <3>4
  <2>5. Fits(t, [work[t] EXCEPT !.pc = "write", !.names = names], asked, groups, roles)
    BY <2>1, <2>4, RolleTaskNext
  <2>6. UNCHANGED <<asked, groups, roles>>
    BY <1>13 DEF Write, Same
  <2>7. WorkOK'
    BY <2>4, <2>5, <2>6, TaskStep
  <2>8. member' \subseteq groups
    BY <2>1, <2>2
  <2> QED
    BY <1>13, <2>7, <2>8, <1>1 DEF Write, Same
<1>14. ASSUME NEW t \in Tasks, Fail(t) PROVE TypeInv'
  <2>1. PICK task : /\ task = Idle \/ Fits(t, task, asked', groups', roles')
                    /\ work' = [work EXCEPT ![t] = task]
    BY <1>14 DEF Fail, At, UnderWay, Goto, End, WorkOK, Fits, RolleTask, ProviderTask, Idle, Same
  <2>2. asked \subseteq asked' /\ groups \subseteq groups' /\ roles \subseteq roles'
    BY <1>14 DEF Fail, Same
  <2>3. WorkOK'
    BY <2>1, <2>2, TaskStep
  <2>4. failures' \in 0 .. MaxFailures
    BY <1>14, SMT DEF Fail
  <2>5. UNCHANGED <<kontexte, serves, asked, groups, roles, mapped, member, events>>
    BY <1>14 DEF Fail
  <2>6. sound' = FALSE
    BY <1>14 DEF Fail
  <2> QED
    BY <2>3, <2>4, <2>5, <2>6, <1>1
<1>15. CASE UNCHANGED keycloakVars
  <2>1. WorkOK'
    BY <1>15 DEF keycloakVars, WorkOK, Fits
  <2> QED
    BY <1>15, <2>1, <1>1 DEF keycloakVars
<1> QED
  BY <1>2, <1>3, <1>4, <1>5, <1>6, <1>7, <1>8, <1>9, <1>10, <1>11, <1>12, <1>13,
     <1>14, <1>15 DEF KeycloakNext, Proceed

\* Type correctness; the person is only ever in groups that Keycloak has.
THEOREM KeycloakTyped == KeycloakSpec => []KeycloakTypeOK
<1>1. TypeInv => KeycloakTypeOK
  BY DEF TypeInv
<1> QED
  BY <1>1, TypeInit, KeycloakTypeInductive, PTL DEF KeycloakSpec

-----------------------------------------------------------------------------
(* ProviderServed.  Of the handlers that see a group missing one creates   *)
(* it, and that one goes on to its role; the others end.  A role that this *)
(* one finds there is the realm's, or some handler has given it to another *)
(* group or is about to, unless a call failed.                             *)

Seeking(t, g) == work[t].pc \in {"find", "create"} /\ work[t].name = g
Making(t, g)  == work[t].pc \in {"role", "map"} /\ work[t].name = g

LaterIdle == \A t \in Tasks : t[1] > events => work[t] = Idle

OneMakes ==
    /\ \A t, u \in Tasks, g \in Groups : Making(t, g) /\ Making(u, g) => t = u
    /\ \A t \in Tasks, g \in Groups : Making(t, g) => ~HasRole(g)

\* The group has the role, or a handler is about to give it.
AboutToGive(t, g, r) == work[t].pc = "map" /\ work[t].name = g /\ work[t].role = r
Given(g, r) == <<g, r>> \in mapped \/ \E t \in Tasks : AboutToGive(t, g, r)

WillBeElsewhere(g) ==
    \E r \in Roles :
        /\ <<g, r>> \in asked
        /\ r \in RealmRoles \/ \E h \in Groups \ {g} : Given(h, r)

RolesGiven == \A r \in roles : r \in RealmRoles \/ \E g \in Groups : Given(g, r)

Found(g) ==
    \/ g \in groups
    \/ \E h \in groups : <<h, g>> \in Contains
    \/ \E t \in Tasks : Seeking(t, g)

Made(g) == HasRole(g) \/ WillBeElsewhere(g) \/ \E t \in Tasks : Making(t, g)

AllServed ==
    failures = 0 =>
        /\ RolesGiven
        /\ \A g \in Groups : Asked(g) => Found(g)
        /\ \A g \in groups : Made(g)

ServedInv == LaterIdle /\ OneMakes /\ AllServed

\* Only providers' tasks seek or make.
LEMMA ProvidersSeek ==
    WorkOK => \A t \in Tasks, g \in Groups :
        Seeking(t, g) \/ Making(t, g) => t[2] = "provider"
BY AllKinds DEF Kind, Seeking, Making

LEMMA ProviderGoes ==
    ASSUME WorkOK, NEW t \in Tasks, NEW step, Goto(t, step),
           work[t].pc \in {"find", "create", "role", "map"}
    PROVE  /\ work'[t].pc = step
           /\ work'[t].name = work[t].name /\ work'[t].role = work[t].role
<1>1. work[t] \in ProviderTask
  BY DEF WorkOK, Fits, RolleTask, Idle
<1>2. work'[t] = [work[t] EXCEPT !.pc = step]
  BY DEF Goto, WorkOK
<1> QED
  BY <1>1, <1>2 DEF ProviderTask

\* The other steps leave providers' tasks, groups and roles as they are.
LEMMA RolleSteps ==
    ASSUME TypeInv,
           \/ Update \/ ChangeRolle \/ ChangeProvider
           \/ \E t \in Tasks : ReadRolle(t) \/ ReadOthers(t) \/ FindGroups(t)
                               \/ ListGroups(t) \/ Write(t)
    PROVE  /\ \A u \in Tasks : u[2] = "provider" => work'[u] = work[u]
           /\ \A u \in Tasks : u[1] > events /\ u[1] > events' /\ work[u] = Idle => work'[u] = Idle
           /\ events <= events'
           /\ UNCHANGED <<asked, groups, roles, mapped, failures>>
<1> USE DEF TypeInv, KeycloakTypeOK, db, realm
<1>1. CASE Update
  BY <1>1, GroupsAssumption DEF Update, Happen, WorkOK
<1>2. CASE ChangeRolle \/ ChangeProvider
  <2>1. PICK given \in [Rollen -> SUBSET Groups] : Serve(given)
    BY <1>2, Serving
  <2> QED
    BY <2>1, GroupsAssumption DEF Serve, Happen
<1>3. ASSUME NEW t \in Tasks,
             ReadRolle(t) \/ ReadOthers(t) \/ FindGroups(t) \/ ListGroups(t) \/ Write(t)
      PROVE  /\ t[2] # "provider" /\ work[t] # Idle
             /\ \A u \in Tasks \ {t} : work'[u] = work[u]
             /\ UNCHANGED <<events, asked, groups, roles, mapped, failures>>
  <2>1. UnderWay(t) /\ work[t].pc \in {"rolle", "others", "groups", "list", "write"}
    BY <1>3 DEF ReadRolle, ReadOthers, FindGroups, ListGroups, Write, At
  <2>2. t[2] # "provider" /\ work[t] # Idle
    BY <2>1, RolleTaskAt DEF UnderWay
  <2>3. \A u \in Tasks \ {t} : work'[u] = work[u]
    BY <1>3 DEF ReadRolle, ReadOthers, FindGroups, ListGroups, Write, WorkOK
  <2> QED
    BY <1>3, <2>2, <2>3 DEF ReadRolle, ReadOthers, FindGroups, ListGroups, Write, Same
<1> QED
  BY <1>1, <1>2, <1>3

\* Where no provider's task moves and no role is given, nothing is lost; a group
\* may be asked for if a task seeks it.
LEMMA ServedStays ==
    ASSUME TypeInv, ServedInv, LaterIdle',
           UNCHANGED <<groups, roles, mapped, failures>>, asked \subseteq asked',
           \A u \in Tasks, g \in Groups : /\ Seeking(u, g) => Seeking(u, g)'
                                          /\ Making(u, g)' <=> Making(u, g),
           \A u \in Tasks, g \in Groups, r \in Roles :
               AboutToGive(u, g, r)' <=> AboutToGive(u, g, r),
           \A g \in Groups : Asked(g)' => Asked(g) \/ \E u \in Tasks : Seeking(u, g)'
    PROVE  ServedInv'
<1>1. groups \subseteq Groups /\ roles \subseteq Roles
  BY DEF TypeInv, KeycloakTypeOK
<1>2. \A g \in Groups : HasRole(g)' <=> HasRole(g)
  BY DEF HasRole
<1>3. OneMakes'
  <2>1. OneMakes
    BY DEF ServedInv
  <2> QED
    BY <1>2, <2>1 DEF OneMakes, Making
<1>4. \A g \in Groups, r \in Roles : Given(g, r) => Given(g, r)'
  BY DEF Given
<1>5. ASSUME failures' = 0 PROVE RolesGiven' /\ \A g \in groups' : Made(g)'
  <2>1. RolesGiven /\ \A g \in groups : Made(g)
    BY <1>5 DEF ServedInv, AllServed
  <2>2. RolesGiven'
    BY <1>1, <1>4, <2>1 DEF RolesGiven
  <2>3. \A g \in Groups : WillBeElsewhere(g) => WillBeElsewhere(g)'
    BY <1>4 DEF WillBeElsewhere
  <2>4. \A g \in groups' : Made(g)'
    BY <1>1, <1>2, <2>1, <2>3 DEF Made
  <2> QED
    BY <2>2, <2>4
<1>6. ASSUME failures' = 0, NEW g \in Groups, Asked(g)' PROVE Found(g)'
  <2>1. CASE Asked(g)
    <3>1. Found(g)
      BY <1>6, <2>1 DEF ServedInv, AllServed
    <3>2. groups' = groups /\ \A u \in Tasks : Seeking(u, g) => Seeking(u, g)'
      BY DEF Seeking
    <3> QED
      BY <3>1, <3>2 DEF Found, Seeking
  <2>2. CASE \E u \in Tasks : Seeking(u, g)'
    BY <2>2 DEF Found
  <2> QED
    BY <1>6, <2>1, <2>2
<1> QED
  BY <1>3, <1>5, <1>6 DEF ServedInv, AllServed

LEMMA ServedInductive == TypeInv /\ ServedInv /\ [KeycloakNext]_keycloakVars => ServedInv'
<1> SUFFICES ASSUME TypeInv, ServedInv, [KeycloakNext]_keycloakVars PROVE ServedInv'
  OBVIOUS
<1>1. WorkOK'
  BY KeycloakTypeInductive DEF TypeInv
<1>2. CASE \/ Update \/ ChangeRolle \/ ChangeProvider
           \/ \E t \in Tasks : ReadRolle(t) \/ ReadOthers(t) \/ FindGroups(t)
                               \/ ListGroups(t) \/ Write(t)
  <2>1. /\ \A u \in Tasks : u[2] = "provider" => work'[u] = work[u]
        /\ UNCHANGED <<asked, groups, roles, mapped, failures>>
    BY <1>2, RolleSteps
  <2>2. LaterIdle'
    <3>1. events <= events' /\ events \in Nat /\ events' \in Nat
      BY <1>2, RolleSteps, KeycloakTypeInductive, GroupsAssumption DEF TypeInv, KeycloakTypeOK
    <3>2. \A u \in Tasks : u[1] \in Nat
      BY DEF Tasks
    <3> QED
      BY <1>2, <3>1, <3>2, RolleSteps DEF LaterIdle, ServedInv
  <2>3. \A u \in Tasks, g \in Groups : /\ Seeking(u, g)' <=> Seeking(u, g)
                                       /\ Making(u, g)' <=> Making(u, g)
    <3>1. WorkOK' => \A u \in Tasks, g \in Groups :
              Seeking(u, g)' \/ Making(u, g)' => u[2] = "provider"
      BY AllKindsNext DEF Kind, Seeking, Making
    <3> QED
      BY <2>1, <3>1, <1>1, ProvidersSeek DEF TypeInv, Seeking, Making
  <2>4. \A u \in Tasks, g \in Groups, r \in Roles : AboutToGive(u, g, r)' <=> AboutToGive(u, g, r)
    <3>1. \A u \in Tasks : work[u].pc = "map" \/ work'[u].pc = "map" => u[2] = "provider"
      BY <1>1, AllKinds, AllKindsNext DEF TypeInv, Kind
    <3> QED
      BY <2>1, <3>1 DEF AboutToGive
  <2>5. \A g \in Groups : Asked(g)' <=> Asked(g)
    BY <2>1 DEF Asked
  <2> QED
    BY <2>1, <2>2, <2>3, <2>4, <2>5, ServedStays
<1>3. CASE CreateProvider
  <2>1. PICK g \in Groups, role \in Roles :
          /\ asked' = asked \cup {<<g, role>>}
          /\ work' = [work EXCEPT ![<<events + 1, "provider">>] =
                         [pc |-> "find", op |-> "create", name |-> g, role |-> role]]
          /\ events < MaxEvents /\ events' = events + 1
    BY <1>3 DEF CreateProvider, Happen
  <2>2. UNCHANGED <<groups, roles, mapped, failures>>
    BY <1>3 DEF CreateProvider, Happen, realm
  <2>3. events \in Nat
    BY <2>1, GroupsAssumption DEF TypeInv, KeycloakTypeOK
  <2>4. PICK t \in Tasks : t = <<events + 1, "provider">>
    <3>1. events + 1 \in 1 .. MaxEvents
      BY <2>1, <2>3, GroupsAssumption
    <3> QED
      BY <3>1 DEF Tasks
  <2>5. work[t] = Idle
    BY <2>4, <2>3 DEF ServedInv, LaterIdle
  <2>6. /\ work'[t] = [pc |-> "find", op |-> "create", name |-> g, role |-> role]
        /\ \A u \in Tasks \ {t} : work'[u] = work[u]
    BY <2>4, <2>1 DEF TypeInv, WorkOK
  <2>7. LaterIdle'
    <3>1. \A u \in Tasks : u[1] \in Nat
      BY DEF Tasks
    <3> QED
      BY <2>4, <2>1, <2>3, <2>6, <3>1 DEF ServedInv, LaterIdle
  <2>8. /\ \A u \in Tasks, h \in Groups : Making(u, h)' <=> Making(u, h)
        /\ \A u \in Tasks, h \in Groups : Seeking(u, h) => Seeking(u, h)'
        /\ Seeking(t, g)'
    <3>1. \A h \in Groups : ~Making(t, h) /\ ~Seeking(t, h) /\ ~Making(t, h)'
      BY <2>5, <2>6 DEF Making, Seeking, Idle
    <3>2. Seeking(t, g)'
      BY <2>6 DEF Seeking
    <3> SUFFICES ASSUME NEW u \in Tasks, NEW h \in Groups
                 PROVE  /\ Making(u, h)' <=> Making(u, h)
                        /\ Seeking(u, h) => Seeking(u, h)'
      BY <3>2
    <3>3. CASE u = t
      BY <3>1, <3>3 DEF Making, Seeking
    <3>4. CASE u # t
      BY <2>6, <3>4 DEF Making, Seeking
    <3> QED
      BY <3>3, <3>4
  <2>9. \A u \in Tasks, h \in Groups, r \in Roles : AboutToGive(u, h, r)' <=> AboutToGive(u, h, r)
    <3>1. \A h \in Groups, r \in Roles : ~AboutToGive(t, h, r) /\ ~AboutToGive(t, h, r)'
      BY <2>5, <2>6 DEF AboutToGive, Idle
    <3> QED
      BY <2>6, <3>1 DEF AboutToGive
  <2>10. \A h \in Groups : Asked(h)' => Asked(h) \/ \E u \in Tasks : Seeking(u, h)'
    BY <2>1, <2>8 DEF Asked
  <2> QED
    BY <2>1, <2>2, <2>7, <2>8, <2>9, <2>10, ServedStays
<1>4. ASSUME NEW t \in Tasks,
             FindGroup(t) \/ CreateGroup(t) \/ CreateRole(t) \/ AddRoleToGroup(t) \/ Fail(t)
      PROVE  ServedInv'
  <2>1. /\ UnderWay(t) /\ work[t] # Idle
        /\ UNCHANGED <<events, asked>>
        /\ \A u \in Tasks \ {t} : work'[u] = work[u]
    BY <1>4 DEF FindGroup, CreateGroup, CreateRole, AddRoleToGroup, Fail, At, UnderWay, Goto, End,
                Same, db, TypeInv, WorkOK
  <2>2. LaterIdle'
    BY <2>1 DEF ServedInv, LaterIdle
  <2>3. groups \subseteq Groups /\ roles \subseteq Roles /\ failures \in Nat
    BY GroupsAssumption DEF TypeInv, KeycloakTypeOK
  <2>4. \A u \in Tasks \ {t}, g \in Groups :
            /\ Seeking(u, g)' <=> Seeking(u, g)
            /\ Making(u, g)' <=> Making(u, g)
            /\ \A r \in Roles : AboutToGive(u, g, r)' <=> AboutToGive(u, g, r)
    BY <2>1 DEF Seeking, Making, AboutToGive
  <2>5. \A g \in Groups : Asked(g)' <=> Asked(g)
    BY <2>1 DEF Asked
  <2>6. work[t].pc \in {"find", "create", "role", "map"} =>
            /\ work[t].name \in Groups /\ work[t].role \in Roles
            /\ <<work[t].name, work[t].role>> \in asked
            /\ work[t].pc \in {"role", "map"} => work[t].name \in groups
    BY <2>1 DEF TypeInv, WorkOK, Fits, RolleTask, ProviderTask
  <2>7. PICK g : g = work[t].name
    OBVIOUS
  <2>8. PICK r : r = work[t].role
    OBVIOUS
  <2>9. CASE FindGroup(t)
    <3>1. UNCHANGED <<groups, roles, mapped, failures>> /\ work[t].pc = "find"
      BY <2>9 DEF FindGroup, Same, realm, At
    <3>2. \/ /\ work'[t] = Idle
             /\ \E h \in groups : <<h, g>> \in Contains
          \/ work'[t].pc = "create" /\ work'[t].name = g
      BY <2>7, <2>9, <3>1, ProviderGoes DEF FindGroup, End, TypeInv, WorkOK
    <3>3. \A x \in Groups : /\ ~Making(t, x) /\ ~Making(t, x)'
                            /\ HasRole(x)' <=> HasRole(x)
                            /\ \A y \in Roles : Given(x, y) => Given(x, y)'
      <4>1. \A x \in Groups : ~Making(t, x) /\ ~Making(t, x)' /\ \A y \in Roles : ~AboutToGive(t, x, y)
        BY <3>1, <3>2 DEF Making, AboutToGive, Idle
      <4> QED
        BY <2>4, <3>1, <4>1 DEF HasRole, Given
    <3>4. OneMakes'
      BY <2>4, <3>3 DEF ServedInv, OneMakes
    <3>5. ASSUME failures' = 0, NEW x \in Groups, Asked(x)' PROVE Found(x)'
      <4>1. Found(x)
        BY <2>5, <3>1, <3>5 DEF ServedInv, AllServed
      <4>2. CASE Seeking(t, x)
        <5>1. x = g
          BY <2>7, <4>2 DEF Seeking
        <5> QED
          BY <3>1, <3>2, <5>1 DEF Found, Seeking
      <4>3. CASE ~Seeking(t, x)
        BY <2>4, <3>1, <4>1, <4>3 DEF Found
      <4> QED
        BY <4>2, <4>3
    <3>6. ASSUME failures' = 0 PROVE RolesGiven' /\ \A x \in groups' : Made(x)'
      BY <2>1, <2>3, <2>4, <3>1, <3>3, <3>6
         DEF ServedInv, AllServed, RolesGiven, Made, WillBeElsewhere
    <3> QED
      BY <2>2, <3>4, <3>5, <3>6 DEF ServedInv, AllServed
  <2>10. CASE CreateGroup(t)
    <3>1. UNCHANGED <<roles, mapped, failures>> /\ work[t].pc = "create"
      BY <2>10 DEF CreateGroup, Same, At
    <3>2. \/ g \in groups /\ groups' = groups /\ work'[t] = Idle
          \/ /\ g \notin groups /\ groups' = groups \cup {g}
             /\ work'[t].pc = "role" /\ work'[t].name = g
      BY <2>7, <2>10, <3>1, ProviderGoes DEF CreateGroup, End, TypeInv, WorkOK
    <3>3. \A u \in Tasks : Making(u, g) => g \in groups
      <4> SUFFICES ASSUME NEW u \in Tasks, Making(u, g) PROVE g \in groups
        OBVIOUS
      <4>1. u[2] = "provider" /\ work[u] # Idle
        BY AllKinds DEF TypeInv, Kind, Making, Idle
      <4> QED
        BY <4>1 DEF TypeInv, WorkOK, Fits, Making
    <3>4. HasRole(g) => g \in groups
      BY DEF HasRole, TypeInv, KeycloakTypeOK
    <3>5. \A x \in Groups : /\ ~Making(t, x)
                            /\ Making(t, x)' => x = g /\ g \notin groups
                            /\ HasRole(x)' <=> HasRole(x)
                            /\ \A y \in Roles : Given(x, y) => Given(x, y)'
      <4>1. \A x \in Groups : /\ ~Making(t, x)
                              /\ Making(t, x)' => x = g /\ g \notin groups
                              /\ \A y \in Roles : ~AboutToGive(t, x, y)
        BY <3>1, <3>2 DEF Making, AboutToGive, Idle
      <4> QED
        BY <2>4, <3>1, <4>1 DEF HasRole, Given
    <3>6. OneMakes'
      BY <2>4, <3>3, <3>4, <3>5 DEF ServedInv, OneMakes
    <3>7. ASSUME failures' = 0, NEW x \in Groups, Asked(x)' PROVE Found(x)'
      <4>1. Found(x)
        BY <2>5, <3>1, <3>7 DEF ServedInv, AllServed
      <4>2. groups \subseteq groups' /\ g \in groups'
        BY <3>2
      <4>3. CASE Seeking(t, x)
        BY <2>7, <4>2, <4>3 DEF Found, Seeking
      <4>4. CASE ~Seeking(t, x)
        BY <2>4, <4>1, <4>2, <4>4 DEF Found
      <4> QED
        BY <4>3, <4>4
    <3>8. ASSUME failures' = 0 PROVE RolesGiven' /\ \A x \in groups' : Made(x)'
      <4>1. RolesGiven /\ \A x \in groups : Made(x)
        BY <3>1, <3>8 DEF ServedInv, AllServed
      <4>2. RolesGiven'
        BY <2>3, <3>1, <3>5, <4>1 DEF RolesGiven
      <4>3. ASSUME NEW x \in groups PROVE Made(x)'
        BY <2>1, <2>3, <2>4, <3>5, <4>1, <4>3 DEF Made, WillBeElsewhere
      <4>4. g \notin groups => Made(g)'
        BY <3>2 DEF Made, Making
      <4> QED
        BY <3>2, <4>2, <4>3, <4>4
    <3> QED
      BY <2>2, <3>6, <3>7, <3>8 DEF ServedInv, AllServed
  <2>11. CASE CreateRole(t)
    <3>1. UNCHANGED <<groups, mapped, failures>> /\ work[t].pc = "role"
      BY <2>11 DEF CreateRole, Same, At
    <3>2. /\ g \in groups /\ g \in Groups /\ r \in Roles /\ <<g, r>> \in asked
          /\ Making(t, g)
      BY <2>3, <2>6, <2>7, <2>8, <3>1 DEF Making
    <3>3. \/ r \in roles /\ roles' = roles /\ work'[t] = Idle
          \/ /\ r \notin roles /\ roles' = roles \cup {r}
             /\ work'[t].pc = "map" /\ work'[t].name = g /\ work'[t].role = r
      BY <2>7, <2>8, <2>11, <3>1, ProviderGoes DEF CreateRole, End, TypeInv, WorkOK
    <3>4. \A x \in Groups : /\ ~Seeking(t, x)
                            /\ Making(t, x)' => x = g
                            /\ HasRole(x)' <=> HasRole(x)
                            /\ \A y \in Roles : Given(x, y) => Given(x, y)'
      <4>1. \A x \in Groups : /\ ~Seeking(t, x)
                              /\ Making(t, x)' => x = g
                              /\ \A y \in Roles : ~AboutToGive(t, x, y)
        BY <3>1, <3>3 DEF Seeking, Making, AboutToGive, Idle
      <4> QED
        BY <2>4, <3>1, <4>1 DEF HasRole, Given
    <3>5. OneMakes'
      BY <2>4, <3>2, <3>4 DEF ServedInv, OneMakes
    <3>6. ASSUME failures' = 0, NEW x \in Groups, Asked(x)' PROVE Found(x)'
      <4>1. Found(x)
        BY <2>5, <3>1, <3>6 DEF ServedInv, AllServed
      <4> QED
        BY <2>4, <3>1, <3>4, <4>1 DEF Found
    <3>7. ASSUME failures' = 0 PROVE RolesGiven' /\ \A x \in groups' : Made(x)'
      <4>1. RolesGiven /\ \A x \in groups : Made(x)
        BY <3>1, <3>7 DEF ServedInv, AllServed
      <4>2. r \notin roles => Making(t, g)' /\ Given(g, r)'
        BY <3>3 DEF Making, Given, AboutToGive
      <4>3. RolesGiven'
        BY <2>3, <3>2, <3>3, <3>4, <4>1, <4>2 DEF RolesGiven
      <4>4. ASSUME NEW x \in groups, x # g PROVE Made(x)'
        <5>1. ~Making(t, x)
          BY <2>7, <4>4 DEF Making
        <5> QED
          BY <2>1, <2>3, <2>4, <3>4, <4>1, <4>4, <5>1 DEF Made, WillBeElsewhere
      <4>5. Made(g)'
        <5>1. CASE r \notin roles
          BY <4>2, <5>1 DEF Made
        <5>2. CASE r \in RealmRoles
          BY <2>1, <3>2, <5>2 DEF Made, WillBeElsewhere
        <5>3. ASSUME NEW h \in Groups, Given(h, r) PROVE Made(g)'
          <6>1. h # g
            <7>1. <<g, r>> \notin mapped
              BY <3>2 DEF ServedInv, OneMakes, HasRole
            <7>2. \A u \in Tasks : ~AboutToGive(u, g, r)
              BY <3>1, <3>2 DEF ServedInv, OneMakes, AboutToGive, Making
            <7> QED
              BY <5>3, <7>1, <7>2 DEF Given
          <6> QED
            BY <2>1, <3>2, <3>4, <5>3, <6>1 DEF Made, WillBeElsewhere
        <5> QED
          BY <4>1, <5>1, <5>2, <5>3 DEF RolesGiven
      <4> QED
        BY <3>1, <4>3, <4>4, <4>5
    <3> QED
      BY <2>2, <3>5, <3>6, <3>7 DEF ServedInv, AllServed
  <2>12. CASE AddRoleToGroup(t)
    <3>1. /\ UNCHANGED <<groups, roles, failures>> /\ work[t].pc = "map"
          /\ mapped' = mapped \cup {<<g, r>>} /\ work'[t] = Idle
      BY <2>7, <2>8, <2>12 DEF AddRoleToGroup, Same, At, End, TypeInv, WorkOK
    <3>2. /\ g \in groups /\ g \in Groups /\ r \in Roles
          /\ Making(t, g)
      BY <2>3, <2>6, <2>7, <2>8, <3>1 DEF Making
    <3>3. HasRole(g)' /\ \A x \in Groups : /\ HasRole(x) => HasRole(x)'
                                           /\ x # g => (HasRole(x)' <=> HasRole(x))
      BY <3>1, <3>2 DEF HasRole
    <3>4. \A x \in Groups : /\ ~Seeking(t, x) /\ ~Making(t, x)'
                            /\ \A y \in Roles : Given(x, y) => Given(x, y)'
      <4>1. \A x \in Groups : /\ ~Seeking(t, x) /\ ~Making(t, x)'
                              /\ \A y \in Roles : AboutToGive(t, x, y) => x = g /\ y = r
        BY <2>7, <2>8, <3>1 DEF Seeking, Making, AboutToGive, Idle
      <4> QED
        BY <2>4, <3>1, <4>1 DEF Given
    <3>5. OneMakes'
      BY <2>4, <3>2, <3>3, <3>4 DEF ServedInv, OneMakes
    <3>6. ASSUME failures' = 0, NEW x \in Groups, Asked(x)' PROVE Found(x)'
      <4>1. Found(x)
        BY <2>5, <3>1, <3>6 DEF ServedInv, AllServed
      <4> QED
        BY <2>4, <3>1, <3>4, <4>1 DEF Found
    <3>7. ASSUME failures' = 0 PROVE RolesGiven' /\ \A x \in groups' : Made(x)'
      <4>1. RolesGiven /\ \A x \in groups : Made(x)
        BY <3>1, <3>7 DEF ServedInv, AllServed
      <4>2. RolesGiven'
        BY <2>3, <3>1, <3>4, <4>1 DEF RolesGiven
      <4>3. ASSUME NEW x \in groups, x # g PROVE Made(x)'
        <5>1. ~Making(t, x)
          BY <2>7, <4>3 DEF Making
        <5> QED
          BY <2>1, <2>3, <2>4, <3>3, <3>4, <4>1, <4>3, <5>1 DEF Made, WillBeElsewhere
      <4>4. Made(g)'
        BY <3>3 DEF Made
      <4> QED
        BY <3>1, <4>2, <4>3, <4>4
    <3> QED
      BY <2>2, <3>5, <3>6, <3>7 DEF ServedInv, AllServed
  <2>13. CASE Fail(t)
    <3>1. /\ UNCHANGED <<groups, roles, mapped>> /\ work'[t] = Idle
          /\ failures' = failures + 1
      BY <2>13 DEF Fail, realm, End, TypeInv, WorkOK
    <3>2. \A x \in Groups : ~Making(t, x)' /\ (HasRole(x)' <=> HasRole(x))
      BY <3>1 DEF Making, Idle, HasRole
    <3>3. OneMakes'
      BY <2>4, <3>2 DEF ServedInv, OneMakes
    <3>4. AllServed'
      BY <2>3, <3>1 DEF AllServed
    <3> QED
      BY <2>2, <3>3, <3>4 DEF ServedInv
  <2> QED
    BY <1>4, <2>9, <2>10, <2>11, <2>12, <2>13
<1>5. CASE UNCHANGED keycloakVars
  <2>1. LaterIdle' /\ UNCHANGED <<work, asked, groups, roles, mapped, failures>>
    BY <1>5 DEF keycloakVars, ServedInv, LaterIdle
  <2> QED
    BY <2>1, ServedStays DEF Seeking, Making, AboutToGive, Asked
<1> QED
  BY <1>2, <1>3, <1>4, <1>5 DEF KeycloakNext, Proceed

LEMMA ServedInit == KeycloakInit => ServedInv
<1> SUFFICES ASSUME KeycloakInit PROVE ServedInv
  OBVIOUS
<1>1. \A t \in Tasks : work[t] = Idle
  BY DEF KeycloakInit
<1>2. \A t \in Tasks, g \in Groups : ~Making(t, g) /\ ~Seeking(t, g)
  BY <1>1 DEF Making, Seeking, Idle
<1>3. OneMakes /\ LaterIdle
  BY <1>1, <1>2 DEF OneMakes, LaterIdle
<1>4. RolesGiven
  <2>1. mapped \subseteq Groups \X Roles
    BY TypeInit DEF TypeInv, KeycloakTypeOK
  <2> QED
    BY <2>1 DEF KeycloakInit, RolesGiven, Given
<1>5. ASSUME NEW g \in Groups, Asked(g) PROVE Found(g) /\ (g \in groups => Made(g))
  <2>1. Served(g)
    BY <1>5 DEF KeycloakInit
  <2> QED
    BY <2>1 DEF Served, Found, Made, RoleElsewhere, WillBeElsewhere, Given
<1>6. groups \subseteq {g \in Groups : Asked(g)}
  BY DEF KeycloakInit
<1> QED
  BY <1>3, <1>4, <1>5, <1>6 DEF ServedInv, AllServed

\* However many service providers are created at once, whatever their names contain
\* of each other and whichever roles they share: when the handlers have ended
\* without a failure, every group is there and has a role, unless a group of a
\* longer name was taken for it or the role existed.
THEOREM ProvidersAreServed == KeycloakSpec => []ProviderServed
<1>1. TypeInv /\ ServedInv => ProviderServed
  <2> SUFFICES ASSUME TypeInv, ServedInv, \A t \in Tasks : ~UnderWay(t), failures = 0,
                      NEW g \in Groups, Asked(g)
               PROVE  Served(g)
    BY DEF ProviderServed
  <2>1. \A t \in Tasks, h \in Groups :
            ~Seeking(t, h) /\ ~Making(t, h) /\ \A r \in Roles : ~AboutToGive(t, h, r)
    BY DEF UnderWay, Seeking, Making, AboutToGive, Idle
  <2>2. Found(g) /\ (g \in groups => Made(g))
    BY DEF ServedInv, AllServed
  <2>3. WillBeElsewhere(g) => RoleElsewhere(g)
    BY <2>1 DEF WillBeElsewhere, RoleElsewhere, Given
  <2> QED
    BY <2>1, <2>2, <2>3 DEF Served, Found, Made
<1> QED
  BY <1>1, ServedInit, TypeInit, KeycloakTypeInductive, ServedInductive, PTL DEF KeycloakSpec

-----------------------------------------------------------------------------
(* GroupsFollow and DueStays.  While the history is sound, the groups that *)
(* the person lacks are on their way by some task that assigns, those that *)
(* they have too many by some task that removes, and no task is about to   *)
(* do the contrary.                                                        *)

Current == Gives(RollenOf(kontexte))

\* The task t still has to see to the group g.
Handles(t, g) ==
    \/ /\ work[t].pc = "rolle" /\ g \in serves[work[t].rolle]
       /\ \A r \in work[t].others : g \notin serves[r]
    \/ /\ work[t].pc = "others" /\ g \in work[t].names
       /\ \A r \in work[t].others : g \notin serves[r]
    \/ work[t].pc \in {"groups", "list", "write"} /\ g \in work[t].names
Assigns(t, g) == Handles(t, g) /\ work[t].op = "assign"
Removes(t, g) == Handles(t, g) /\ work[t].op = "remove"

OnTheWay ==
    \A g \in Groups :
        /\ \A t \in Tasks : Assigns(t, g) => g \in Current
        /\ \A t \in Tasks : Removes(t, g) => g \notin Current
        /\ g \in Due \ member => \E t \in Tasks : Assigns(t, g)
        /\ g \in member \ Due => \E t \in Tasks : Removes(t, g)

FollowInv == sound => OnTheWay

\* Only tasks of a Rolle handle groups of the person.
LEMMA RollenHandle ==
    WorkOK => \A t \in Tasks, g \in Groups :
        Handles(t, g) => work[t] # Idle /\ t[2] \in Rollen
BY AllKinds DEF Kind, Handles, Idle

\* What a step of a task of a Rolle does to what is on the way.
RolleStep(t) ==
    \A g \in Groups :
        /\ \A u \in Tasks \ {t} : /\ Assigns(u, g)' <=> Assigns(u, g)
                                  /\ Removes(u, g)' <=> Removes(u, g)
        /\ Assigns(t, g)' => Assigns(t, g)
        /\ Removes(t, g)' => Removes(t, g)
        /\ Assigns(t, g) => Assigns(t, g)' \/ g \notin groups \/ g \in member'
        /\ Removes(t, g) => Removes(t, g)' \/ g \notin groups \/ g \notin member'
        /\ g \in member' \ member => g \in groups /\ Assigns(t, g)
        /\ g \in member \ member' => Removes(t, g)

LEMMA RolleStepHolds ==
    ASSUME TypeInv, NEW t \in Tasks,
           ReadRolle(t) \/ ReadOthers(t) \/ FindGroups(t) \/ ListGroups(t) \/ Write(t)
    PROVE  RolleStep(t)
<1>1. /\ work[t] \in RolleTask
      /\ work[t].pc \in {"list", "write"} => work[t].names \subseteq groups
  BY RolleTaskAt DEF TypeInv, ReadRolle, ReadOthers, FindGroups, ListGroups, Write, At
<1>2. /\ \A u \in Tasks \ {t} : work'[u] = work[u]
      /\ UNCHANGED serves
  BY DEF ReadRolle, ReadOthers, FindGroups, ListGroups, Write, Same, db, TypeInv, WorkOK
<1>3. UNCHANGED <<kontexte, groups, asked, sound, events>> /\ serves' = serves
  BY DEF ReadRolle, ReadOthers, FindGroups, ListGroups, Write, Same, db, realm
<1>4. ASSUME NEW u \in Tasks \ {t}, NEW g \in Groups
      PROVE  (Assigns(u, g)' <=> Assigns(u, g)) /\ (Removes(u, g)' <=> Removes(u, g))
  BY <1>2 DEF Assigns, Removes, Handles
<1>5. ASSUME NEW g \in Groups
      PROVE  /\ Assigns(t, g)' => Assigns(t, g)
             /\ Removes(t, g)' => Removes(t, g)
             /\ Assigns(t, g) => Assigns(t, g)' \/ g \notin groups \/ g \in member'
             /\ Removes(t, g) => Removes(t, g)' \/ g \notin groups \/ g \notin member'
             /\ g \in member' \ member => g \in groups /\ Assigns(t, g)
             /\ g \in member \ member' => Removes(t, g)
  <2>1. Idle.pc = "idle"
    BY DEF Idle
  <2>2. CASE ReadRolle(t)
    <3>1. /\ work[t].pc = "rolle" /\ member' = member
          /\ work'[t] = [work[t] EXCEPT !.pc = "others", !.names = serves[work[t].rolle]]
      BY <2>2 DEF ReadRolle, At, TypeInv, WorkOK
    <3>2. /\ work'[t].pc = "others" /\ work'[t].names = serves[work[t].rolle]
          /\ work'[t].op = work[t].op /\ work'[t].others = work[t].others
      BY <1>1, <3>1 DEF RolleTask
    <3> QED
      BY <1>2, <3>1, <3>2 DEF Assigns, Removes, Handles
  <2>3. CASE ReadOthers(t)
    <3>1. /\ work[t].pc = "others" /\ member' = member
          /\ work'[t] = IF work[t].names \ Gives(work[t].others) = {} THEN Idle
                        ELSE [work[t] EXCEPT !.pc = "groups",
                                             !.names = work[t].names \ Gives(work[t].others)]
      BY <2>3 DEF ReadOthers, At, TypeInv, WorkOK
    <3>2. \/ work'[t] = Idle /\ work[t].names \ Gives(work[t].others) = {}
          \/ /\ work'[t].pc = "groups" /\ work'[t].op = work[t].op
             /\ work'[t].names = work[t].names \ Gives(work[t].others)
      BY <1>1, <3>1 DEF RolleTask
    <3>3. g \in Gives(work[t].others) <=> \E r \in work[t].others : g \in serves[r]
      BY DEF Gives
    <3> QED
      BY <2>1, <3>1, <3>2, <3>3 DEF Assigns, Removes, Handles
  <2>4. CASE FindGroups(t)
    <3>1. /\ work[t].pc = "groups" /\ member' = member
          /\ work'[t] = IF work[t].names \cap groups = {} THEN Idle
                        ELSE [work[t] EXCEPT !.pc = "list", !.names = work[t].names \cap groups]
      BY <2>4 DEF FindGroups, At, TypeInv, WorkOK
    <3>2. \/ work'[t] = Idle /\ work[t].names \cap groups = {}
          \/ /\ work'[t].pc = "list" /\ work'[t].op = work[t].op
             /\ work'[t].names = work[t].names \cap groups
      BY <1>1, <3>1 DEF RolleTask
    <3> QED
      BY <2>1, <3>1, <3>2 DEF Assigns, Removes, Handles
  <2>5. CASE ListGroups(t)
    <3> DEFINE names == IF work[t].op = "assign" THEN work[t].names \ member
                                                 ELSE work[t].names \cap member
    <3>1. /\ work[t].pc = "list" /\ member' = member
          /\ work'[t] = IF names = {} THEN Idle
                        ELSE [work[t] EXCEPT !.pc = "write", !.names = names]
      BY <2>5 DEF ListGroups, At, TypeInv, WorkOK
    <3>2. \/ work'[t] = Idle /\ names = {}
          \/ work'[t].pc = "write" /\ work'[t].op = work[t].op /\ work'[t].names = names
      BY <1>1, <3>1 DEF RolleTask
    <3> QED
      BY <2>1, <3>1, <3>2 DEF Assigns, Removes, Handles
  <2>6. CASE Write(t)
    <3>1. PICK h \in work[t].names :
            /\ member' = IF work[t].op = "assign" THEN member \cup {h} ELSE member \ {h}
            /\ work' = [work EXCEPT ![t] =
                   IF work[t].names = {h} THEN Idle
                   ELSE [work[t] EXCEPT !.names = work[t].names \ {h}]]
      BY <2>6 DEF Write
    <3>2. work[t].pc = "write" /\ work[t].op \in {"assign", "remove"} /\ h \in groups
      BY <1>1, <2>6 DEF Write, At, RolleTask
    <3>3. \/ work'[t] = Idle /\ work[t].names = {h}
          \/ /\ work'[t].pc = "write" /\ work'[t].op = work[t].op
             /\ work'[t].names = work[t].names \ {h}
      <4>1. work'[t] = IF work[t].names = {h} THEN Idle
                       ELSE [work[t] EXCEPT !.names = work[t].names \ {h}]
        BY <3>1 DEF TypeInv, WorkOK
      <4> QED
        BY <1>1, <3>2, <4>1 DEF RolleTask
    <3>4. CASE work[t].op = "assign"
      BY <2>1, <3>1, <3>2, <3>3, <3>4 DEF Assigns, Removes, Handles
    <3>5. CASE work[t].op = "remove"
      BY <2>1, <3>1, <3>2, <3>3, <3>5 DEF Assigns, Removes, Handles
    <3> QED
      BY <3>2, <3>4, <3>5
  <2> QED
    BY <2>2, <2>3, <2>4, <2>5, <2>6
<1> QED
  BY <1>4, <1>5 DEF RolleStep

LEMMA RolleStepFollows ==
    ASSUME TypeInv, FollowInv, NEW t \in Tasks, RolleStep(t),
           UNCHANGED <<kontexte, serves, groups, sound>>
    PROVE  FollowInv'
<1> SUFFICES ASSUME sound PROVE OnTheWay'
  BY DEF FollowInv
<1>1. Current' = Current /\ Due' = Due
  BY DEF Current, Due, Gives, RollenOf
<1>2. OnTheWay /\ Due = Current \cap groups /\ member \subseteq groups
  BY DEF FollowInv, Due, Current, TypeInv, KeycloakTypeOK
<1> SUFFICES ASSUME NEW g \in Groups
             PROVE  /\ \A u \in Tasks : Assigns(u, g)' => g \in Current
                    /\ \A u \in Tasks : Removes(u, g)' => g \notin Current
                    /\ g \in Due \ member' => \E u \in Tasks : Assigns(u, g)'
                    /\ g \in member' \ Due => \E u \in Tasks : Removes(u, g)'
  BY <1>1 DEF OnTheWay
<1>3. /\ \A u \in Tasks \ {t} : /\ Assigns(u, g)' <=> Assigns(u, g)
                                /\ Removes(u, g)' <=> Removes(u, g)
      /\ Assigns(t, g)' => Assigns(t, g)
      /\ Removes(t, g)' => Removes(t, g)
      /\ Assigns(t, g) => Assigns(t, g)' \/ g \notin groups \/ g \in member'
      /\ Removes(t, g) => Removes(t, g)' \/ g \notin groups \/ g \notin member'
      /\ g \in member' \ member => g \in groups /\ Assigns(t, g)
      /\ g \in member \ member' => Removes(t, g)
  BY DEF RolleStep
<1>4. /\ \A u \in Tasks : Assigns(u, g) => g \in Current
      /\ \A u \in Tasks : Removes(u, g) => g \notin Current
      /\ g \in Due \ member => \E u \in Tasks : Assigns(u, g)
      /\ g \in member \ Due => \E u \in Tasks : Removes(u, g)
  BY <1>2 DEF OnTheWay
<1>5. ASSUME NEW u \in Tasks
      PROVE  (Assigns(u, g)' => g \in Current) /\ (Removes(u, g)' => g \notin Current)
  <2>1. CASE u = t
    BY <1>3, <1>4, <2>1 DEF Assigns, Removes, Handles
  <2>2. CASE u # t
    BY <1>3, <1>4, <2>2
  <2> QED
    BY <2>1, <2>2
<1>6. ASSUME g \in Due \ member' PROVE \E u \in Tasks : Assigns(u, g)'
  <2>1. g \in groups /\ g \notin member
    BY <1>2, <1>3, <1>4, <1>6
  <2>2. PICK u \in Tasks : Assigns(u, g)
    BY <1>4, <1>6, <2>1
  <2>3. CASE u = t
    BY <1>3, <1>6, <2>1, <2>2, <2>3
  <2>4. CASE u # t
    BY <1>3, <2>2, <2>4
  <2> QED
    BY <2>3, <2>4
<1>7. ASSUME g \in member' \ Due PROVE \E u \in Tasks : Removes(u, g)'
  <2>1. g \in member
    BY <1>2, <1>3, <1>4, <1>7
  <2>2. PICK u \in Tasks : Removes(u, g)
    BY <1>4, <1>7, <2>1
  <2>3. CASE u = t
    BY <1>2, <1>3, <1>7, <2>1, <2>2, <2>3
  <2>4. CASE u # t
    BY <1>3, <2>2, <2>4
  <2> QED
    BY <2>3, <2>4
<1> QED
  BY <1>5, <1>6, <1>7

\* A step that moves no task of a Rolle and nothing that is due.
LEMMA OtherStepFollows ==
    ASSUME TypeInv, FollowInv, sound,
           WorkOK', UNCHANGED <<serves, member>>, Current' = Current, Due' = Due,
           \A u \in Tasks : u[2] \in Rollen => work'[u] = work[u]
    PROVE  OnTheWay'
<1>1. OnTheWay
  BY DEF FollowInv
<1>2. ASSUME NEW u \in Tasks, NEW g \in Groups
      PROVE  (Assigns(u, g)' <=> Assigns(u, g)) /\ (Removes(u, g)' <=> Removes(u, g))
  <2>1. CASE u[2] \in Rollen
    BY <2>1 DEF Assigns, Removes, Handles
  <2>2. CASE u[2] \notin Rollen
    <3>1. ~Handles(u, g)
      BY <2>2, RollenHandle DEF TypeInv
    <3>2. ~Handles(u, g)'
      BY <2>2, AllKindsNext DEF Kind, Handles
    <3> QED
      BY <3>1, <3>2 DEF Assigns, Removes
  <2> QED
    BY <2>1, <2>2
<1> QED
  BY <1>1, <1>2 DEF OnTheWay

\* Rollen that are not the person's change nothing.
LEMMA ServeFollows ==
    TypeInv /\ FollowInv /\ (ChangeRolle \/ ChangeProvider) => FollowInv'
<1> SUFFICES ASSUME TypeInv, FollowInv, ChangeRolle \/ ChangeProvider, sound' PROVE OnTheWay'
  BY DEF FollowInv
<1>1. PICK given \in [Rollen -> SUBSET Groups] : Serve(given)
  BY Serving
<1>2. sound /\ Calm /\ \A r \in RollenOf(kontexte) : given[r] = serves[r]
  BY <1>1 DEF Serve
<1>3. serves' = given /\ UNCHANGED <<kontexte, groups, member, work>>
  BY <1>1 DEF Serve, realm
<1>4. \A r \in RollenOf(kontexte) : r \in Rollen /\ serves'[r] = serves[r]
  BY <1>2, <1>3, GroupsAssumption DEF RollenOf, TypeInv, KeycloakTypeOK
<1>5. Current' = Current
  BY <1>3, <1>4 DEF Current, Gives, RollenOf
<1>6. Due' = Due
  BY <1>3, <1>5 DEF Due, Current
<1>7. \A u \in Tasks, g \in Groups : ~Handles(u, g) /\ ~Handles(u, g)'
  <2>1. \A u \in Tasks, g \in Groups : ~Handles(u, g)
    BY <1>2, RollenHandle DEF Calm, UnderWay, TypeInv
  <2>2. WorkOK'
    BY KeycloakTypeInductive DEF KeycloakNext, TypeInv
  <2> QED
    BY <1>2, <1>3, <2>1, <2>2, AllKinds, AllKindsNext DEF TypeInv, Calm, UnderWay, Kind, Handles, Idle
<1> QED
  BY <1>2, <1>3, <1>5, <1>6, <1>7 DEF FollowInv, OnTheWay, Assigns, Removes

\* An update starts a task for every group that is then missing or too much.
LEMMA UpdateFollows == TypeInv /\ ServedInv /\ FollowInv /\ Update => FollowInv'
<1> SUFFICES ASSUME TypeInv, ServedInv, FollowInv, Update, sound' PROVE OnTheWay'
  BY DEF FollowInv
<1>1. PICK after \in SUBSET Kontexte :
        /\ kontexte' = after
        /\ work' = [t \in Tasks |->
               IF t[1] = events + 1 /\ t[2] \in Rollen
               THEN TasksOf(kontexte, after)[t[2]] ELSE work[t]]
        /\ sound' = (sound /\ Calm /\ ~Exchanged(kontexte, after))
        /\ events < MaxEvents
        /\ UNCHANGED <<serves, groups, member>>
  BY DEF Update, Happen, realm
<1>2. sound /\ Calm /\ ~Exchanged(kontexte, after)
  BY <1>1
<1> DEFINE new == RollenOf(after \ kontexte)
           gone == RollenOf(kontexte \ after)
           others == RollenOf(after) \ new
<1>3. /\ RollenOf(after) \subseteq Rollen /\ RollenOf(kontexte) \subseteq Rollen
      /\ new \subseteq RollenOf(after) /\ gone \subseteq RollenOf(kontexte)
      /\ others \subseteq RollenOf(kontexte)
      /\ RollenOf(after) \ RollenOf(kontexte) \subseteq new \ gone
      /\ RollenOf(kontexte) \ RollenOf(after) \subseteq gone \ new
  BY GroupsAssumption DEF RollenOf, TypeInv, KeycloakTypeOK
<1> HIDE DEF new, gone, others
<1>4. ASSUME NEW g \in Groups
      PROVE  /\ g \in Current <=> \E r \in RollenOf(kontexte) : g \in serves[r]
             /\ g \in Current' <=> \E r \in RollenOf(after) : g \in serves[r]
  BY <1>1 DEF Current, Gives, RollenOf
<1>5. ASSUME NEW r \in gone \ new, NEW g \in serves[r] PROVE \A s \in new : g \notin serves[s]
  BY <1>2 DEF Exchanged, Gives, new, gone
<1>6. ASSUME NEW r \in Rollen
      PROVE  TasksOf(kontexte, after)[r] =
                 CASE r \in new \ gone -> Task("assign", r, others)
                   [] r \in gone \ new -> Task("remove", r, others)
                   [] OTHER -> Idle
  BY DEF TasksOf, new, gone, others
<1>7. ASSUME NEW r \in Rollen, TasksOf(kontexte, after)[r].pc # "idle"
      PROVE  \/ /\ r \in new \ gone /\ TasksOf(kontexte, after)[r].op = "assign"
                /\ TasksOf(kontexte, after)[r] = Task("assign", r, others)
             \/ /\ r \in gone \ new /\ TasksOf(kontexte, after)[r].op = "remove"
                /\ TasksOf(kontexte, after)[r] = Task("remove", r, others)
  <2>1. Task("assign", r, others).op = "assign" /\ Task("remove", r, others).op = "remove"
    BY DEF Task
  <2>2. CASE r \in new \ gone
    BY <1>6, <2>1, <2>2
  <2>3. CASE r \in gone \ new
    BY <1>6, <2>1, <2>3
  <2>4. CASE r \notin new \ gone /\ r \notin gone \ new
    BY <1>6, <1>7, <2>4 DEF Idle
  <2> QED
    BY <2>2, <2>3, <2>4
<1>8. ASSUME NEW u \in Tasks, NEW g \in Groups, Handles(u, g)'
      PROVE  /\ u[2] \in Rollen
             /\ work'[u] = TasksOf(kontexte, after)[u[2]]
  <2>1. u[2] \in Rollen
    <3>1. WorkOK'
      BY UpdateTyped
    <3> QED
      BY <1>8, <3>1, AllKindsNext DEF Kind, Handles
  <2>2. ~UnderWay(u)
    BY <1>2, <2>1 DEF Calm
  <2>3. u[1] = events + 1
    BY <1>1, <1>8, <2>2 DEF UnderWay, Handles, Idle
  <2> QED
    BY <1>1, <2>1, <2>3
<1>9. ASSUME NEW r \in Rollen
      PROVE  \E u \in Tasks : u[2] = r /\ work'[u] = TasksOf(kontexte, after)[r]
  <2>1. events + 1 \in 1 .. MaxEvents
    BY <1>1, GroupsAssumption DEF TypeInv, KeycloakTypeOK
  <2>2. <<events + 1, r>> \in Tasks
    BY <2>1 DEF Tasks
  <2> QED
    BY <1>1, <2>2
<1>10. member = Current \cap groups
  <2>1. \A u \in Tasks, g \in Groups : ~Handles(u, g)
    BY <1>2, RollenHandle DEF Calm, UnderWay, TypeInv
  <2>2. Due \subseteq Groups /\ member \subseteq Groups /\ Due = Current \cap groups
    BY DEF Due, Current, TypeInv, KeycloakTypeOK
  <2> QED
    BY <1>2, <2>1, <2>2 DEF FollowInv, OnTheWay, Assigns, Removes
<1>11. Due' = Current' \cap groups
  BY <1>1 DEF Due, Current
<1>12. ASSUME NEW u \in Tasks, NEW g \in Groups, Assigns(u, g)' PROVE g \in Current'
  <2>1. u[2] \in new \ gone /\ work'[u] = Task("assign", u[2], others)
    <3>1. work'[u].pc # "idle" /\ work'[u].op = "assign"
      BY <1>12 DEF Assigns, Handles
    <3>2. u[2] \in Rollen /\ work'[u] = TasksOf(kontexte, after)[u[2]]
      BY <1>8, <1>12 DEF Assigns
    <3> QED
      BY <1>7, <3>1, <3>2
  <2>2. g \in serves[u[2]]
    BY <1>1, <1>12, <2>1 DEF Assigns, Handles, Task
  <2> QED
    BY <1>3, <1>4, <2>1, <2>2
<1>13. ASSUME NEW u \in Tasks, NEW g \in Groups, Removes(u, g)' PROVE g \notin Current'
  <2>1. u[2] \in gone \ new /\ work'[u] = Task("remove", u[2], others)
    <3>1. work'[u].pc # "idle" /\ work'[u].op = "remove"
      BY <1>13 DEF Removes, Handles
    <3>2. u[2] \in Rollen /\ work'[u] = TasksOf(kontexte, after)[u[2]]
      BY <1>8, <1>13 DEF Removes
    <3> QED
      BY <1>7, <3>1, <3>2
  <2>2. g \in serves[u[2]] /\ \A r \in others : g \notin serves[r]
    BY <1>1, <1>13, <2>1 DEF Removes, Handles, Task
  <2>3. \A r \in new : g \notin serves[r]
    BY <1>5, <2>1, <2>2
  <2> QED
    BY <1>4, <2>2, <2>3 DEF others
<1>14. ASSUME NEW g \in Groups, g \in Due' \ member PROVE \E u \in Tasks : Assigns(u, g)'
  <2>1. g \in Current' /\ g \notin Current
    BY <1>10, <1>11, <1>14
  <2>2. PICK r \in RollenOf(after) : g \in serves[r]
    BY <1>4, <2>1
  <2>3. \A s \in RollenOf(kontexte) : g \notin serves[s]
    BY <1>4, <2>1
  <2>4. r \in new \ gone /\ r \in Rollen
    BY <1>3, <2>2, <2>3
  <2>5. PICK u \in Tasks : work'[u] = Task("assign", r, others)
    BY <1>6, <1>9, <2>4
  <2>6. \A s \in others : g \notin serves[s]
    BY <1>3, <2>3
  <2> QED
    BY <1>1, <2>2, <2>5, <2>6 DEF Assigns, Handles, Task
<1>15. ASSUME NEW g \in Groups, g \in member \ Due' PROVE \E u \in Tasks : Removes(u, g)'
  <2>1. g \in Current /\ g \notin Current'
    BY <1>10, <1>11, <1>15
  <2>2. PICK r \in RollenOf(kontexte) : g \in serves[r]
    BY <1>4, <2>1
  <2>3. \A s \in RollenOf(after) : g \notin serves[s]
    BY <1>4, <2>1
  <2>4. r \in gone \ new /\ r \in Rollen
    BY <1>3, <2>2, <2>3
  <2>5. PICK u \in Tasks : work'[u] = Task("remove", r, others)
    BY <1>6, <1>9, <2>4
  <2>6. \A s \in others : g \notin serves[s]
    BY <2>3 DEF others
  <2> QED
    BY <1>1, <2>2, <2>5, <2>6 DEF Removes, Handles, Task
<1> QED
  BY <1>1, <1>12, <1>13, <1>14, <1>15 DEF OnTheWay

LEMMA FollowInductive == TypeInv /\ ServedInv /\ FollowInv /\ [KeycloakNext]_keycloakVars => FollowInv'
<1> SUFFICES ASSUME TypeInv, ServedInv, FollowInv, [KeycloakNext]_keycloakVars PROVE FollowInv'
  OBVIOUS
<1>1. WorkOK'
  BY KeycloakTypeInductive DEF TypeInv
<1>2. CASE Update
  BY <1>2, UpdateFollows
<1>3. CASE ChangeRolle \/ ChangeProvider
  BY <1>3, ServeFollows
<1>4. ASSUME NEW t \in Tasks,
             ReadRolle(t) \/ ReadOthers(t) \/ FindGroups(t) \/ ListGroups(t) \/ Write(t)
      PROVE  FollowInv'
  <2>1. UNCHANGED <<kontexte, serves, groups, sound>>
    BY <1>4 DEF ReadRolle, ReadOthers, FindGroups, ListGroups, Write, Same, db, realm
  <2> QED
    BY <1>4, <2>1, RolleStepHolds, RolleStepFollows
<1>5. CASE CreateProvider
  <2>1. UNCHANGED <<kontexte, serves, groups, member, sound>>
    BY <1>5 DEF CreateProvider, realm
  <2>2. Current' = Current /\ Due' = Due
    BY <2>1 DEF Current, Due, Gives, RollenOf
  <2>3. \A u \in Tasks : u[2] \in Rollen => work'[u] = work[u]
    BY <1>5, GroupsAssumption DEF CreateProvider, TypeInv, WorkOK
  <2> QED
    BY <1>1, <2>1, <2>2, <2>3, OtherStepFollows DEF FollowInv
<1>6. ASSUME NEW t \in Tasks,
             FindGroup(t) \/ CreateGroup(t) \/ CreateRole(t) \/ AddRoleToGroup(t)
      PROVE  FollowInv'
  <2>1. UNCHANGED <<kontexte, serves, member>> /\ groups \subseteq groups'
    BY <1>6 DEF FindGroup, CreateGroup, CreateRole, AddRoleToGroup, Same, db, realm
  <2>2. t[2] \notin Rollen
    <3>1. work[t].pc \in {"find", "create", "role", "map"} /\ work[t] # Idle
      BY <1>6 DEF FindGroup, CreateGroup, CreateRole, AddRoleToGroup, At, UnderWay
    <3> QED
      BY <3>1, GroupsAssumption DEF TypeInv, WorkOK, Fits, RolleTask
  <2>3. \A u \in Tasks : u[2] \in Rollen => work'[u] = work[u]
    BY <1>6, <2>2 DEF FindGroup, CreateGroup, CreateRole, AddRoleToGroup, Goto, End, TypeInv, WorkOK
  <2>4. Current' = Current
    BY <2>1 DEF Current, Gives, RollenOf
  <2>5. sound' => sound /\ \A g \in groups' \ groups : g \notin Current
    <3>1. CASE CreateGroup(t)
      BY <3>1 DEF CreateGroup, Current, End
    <3>2. CASE FindGroup(t) \/ CreateRole(t) \/ AddRoleToGroup(t)
      BY <3>2 DEF FindGroup, CreateRole, AddRoleToGroup, realm
    <3> QED
      BY <1>6, <3>1, <3>2
  <2>6. sound' => Due' = Due
    <3>1. Due = Current \cap groups /\ Due' = Current' \cap groups'
      BY DEF Due, Current
    <3> QED
      BY <2>1, <2>4, <2>5, <3>1
  <2> QED
    BY <1>1, <2>1, <2>3, <2>4, <2>5, <2>6, OtherStepFollows DEF FollowInv
<1>7. ASSUME NEW t \in Tasks, Fail(t) PROVE FollowInv'
  BY <1>7 DEF Fail, FollowInv
<1>8. CASE UNCHANGED keycloakVars
  <2>1. UNCHANGED <<kontexte, serves, groups, member, sound, work>>
    BY <1>8 DEF keycloakVars
  <2>2. Current' = Current /\ Due' = Due
    BY <2>1 DEF Current, Due, Gives, RollenOf
  <2> QED
    BY <1>1, <2>1, <2>2, OtherStepFollows DEF FollowInv
<1> QED
  BY <1>2, <1>3, <1>4, <1>5, <1>6, <1>7, <1>8 DEF KeycloakNext, Proceed

LEMMA FollowInit == KeycloakInit => ServedInv /\ FollowInv
<1> SUFFICES ASSUME KeycloakInit PROVE ServedInv /\ FollowInv
  OBVIOUS
<1>1. ServedInv
  BY ServedInit
<1>2. \A t \in Tasks, g \in Groups : ~Handles(t, g)
  BY DEF KeycloakInit, Handles, Idle
<1> QED
  BY <1>1, <1>2 DEF KeycloakInit, FollowInv, OnTheWay, Assigns, Removes

\* However the tasks of an update interleave with each other and with the
\* creation of providers: when they have ended, the person is in exactly the
\* groups of their Rollen, under the conditions that sound records.
THEOREM GroupsWillFollow == KeycloakSpec => []GroupsFollow
<1>1. TypeInv /\ FollowInv => GroupsFollow
  <2> SUFFICES ASSUME TypeInv, FollowInv, Calm, sound PROVE member = Due
    BY DEF GroupsFollow
  <2>1. \A t \in Tasks, g \in Groups : ~Handles(t, g)
    BY RollenHandle DEF Calm, UnderWay, TypeInv
  <2>2. Due \subseteq Groups /\ member \subseteq Groups
    BY DEF Due, TypeInv, KeycloakTypeOK
  <2> QED
    BY <2>1, <2>2 DEF FollowInv, OnTheWay, Assigns, Removes
<1> QED
  BY <1>1, FollowInit, TypeInit, KeycloakTypeInductive, ServedInductive, FollowInductive, PTL DEF KeycloakSpec

\* And meanwhile the person is never out of a group that they are due.
THEOREM DueGroupsStay == KeycloakSpec => DueStays
<1> DEFINE A == \A g \in member \ member' : sound' => g \notin Due
<1>1. TypeInv /\ ServedInv /\ FollowInv /\ [KeycloakNext]_keycloakVars => [A]_keycloakVars
  <2> SUFFICES ASSUME TypeInv, FollowInv, KeycloakNext, NEW g \in member \ member', sound'
               PROVE  g \notin Due
    BY DEF keycloakVars
  <2>1. PICK t \in Tasks : Write(t)
    BY DEF KeycloakNext, Update, CreateProvider, ChangeRolle, ChangeProvider, Serve, Proceed, FindGroup, CreateGroup,
           CreateRole, AddRoleToGroup, ReadRolle, ReadOthers, FindGroups, ListGroups, Fail
  <2>2. g \in Groups /\ sound
    BY <2>1 DEF TypeInv, KeycloakTypeOK, Write
  <2>3. Removes(t, g)
    BY <2>1, <2>2, RolleStepHolds DEF RolleStep
  <2> QED
    BY <2>2, <2>3 DEF FollowInv, OnTheWay, Due, Current
<1> QED
  BY <1>1, FollowInit, TypeInit, KeycloakTypeInductive, ServedInductive, FollowInductive, PTL
     DEF KeycloakSpec, DueStays
=============================================================================
