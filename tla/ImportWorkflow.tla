--------------------------- MODULE ImportWorkflow ---------------------------
(***************************************************************************)
(* The import of pupils from a CSV file: requests upload it, execute it,   *)
(* download its result and delete it; ImportEventHandler, one object for   *)
(* all imports, carries out what a request to execute has published.  The  *)
(* import and its items are rows; a request works on the copies it loaded, *)
(* which its EntityManager flushes only where they differ from what it     *)
(* last knew of the row.                                                   *)
(***************************************************************************)
EXTENDS Naturals, FiniteSets

CONSTANTS
    Imports,    \* imports
    Items,      \* the lines of an import's file
    MaxRequests,\* how many requests are made; they are numbered as they come
    Schools,    \* organisations imported into, with the Rolle given there
    SchoolOf,   \* the organisation of an import
    MaxBreaks,  \* bound on the requests that break off
    Overlap     \* whether executions overlap, and requests on one import

ASSUME ImportAssumption ==
    /\ SchoolOf \in [Imports -> Schools]
    /\ MaxRequests \in Nat /\ MaxBreaks \in Nat
    /\ Overlap \in BOOLEAN
    /\ "none" \notin Schools
    /\ "none" \notin Imports

VARIABLES
    vorgang,    \* the status of each import's row, "none" before the upload
    items,      \* the status of each item's row, "none" if there is no row
    persons,    \* the persons created from items
    selected,   \* the handler's fields selectedOrganisationId, selectedRolleId
    pc, at,     \* where each request is, and the import it is about
    seen,       \* the status of the import as the request last knew it
    loaded,     \* the items as the request's handler loaded them
    todo,       \* the items it has not yet reached
    result,     \* the item at hand and what became of it
    success,    \* whether some item succeeded
    troubled    \* imports that a failing database or a missing school hit

vars == <<vorgang, items, persons, selected, pc, at, seen, loaded, todo, result,
          success, troubled>>
local == <<loaded, todo, result, success>>

Requests == 1 .. MaxRequests
ItemStatus == {"none", "PENDING", "SUCCESS", "FAILED"}
Status == {"none", "STARTED", "VALID", "INVALID", "INPROGRESS", "FINISHED",
           "FAILED", "COMPLETED", "CANCELLED"}
Over  == {"idle", "done", "broken"}
Steps == Over \cup {"chunk", "validate", "execute", "publish", "load", "create",
                    "store", "finish", "read", "file", "drop", "save"}
Person == [import : Imports, item : Items, school : Schools]
NoItems == [x \in Items |-> "none"]
Rows(i) == {x \in Items : items[i][x] # "none"}

Init ==
    /\ vorgang = [i \in Imports |-> "none"]
    /\ items = [i \in Imports |-> NoItems]
    /\ persons = {}
    /\ selected = "none"
    /\ pc = [r \in Requests |-> "idle"]
    /\ at = [r \in Requests |-> "none"]
    /\ seen = [r \in Requests |-> "none"]
    /\ loaded = [r \in Requests |-> NoItems]
    /\ todo = [r \in Requests |-> {}]
    /\ result = [r \in Requests |-> <<>>]
    /\ success = [r \in Requests |-> FALSE]
    /\ troubled = {}

Go(r, step) == pc' = [pc EXCEPT ![r] = step]
\* The request is over and what it kept is forgotten.
Forget(r) ==
    /\ loaded' = [loaded EXCEPT ![r] = NoItems]
    /\ todo' = [todo EXCEPT ![r] = {}]
    /\ result' = [result EXCEPT ![r] = <<>>]
    /\ success' = [success EXCEPT ![r] = FALSE]
Busy(i) == \E r \in Requests : at[r] = i /\ pc[r] \notin Over

\* Flushing a copy: what the request believes to be there is not written again.
Flush(row, known, new) == IF row = "none" \/ known = new THEN row ELSE new

SaveVorgang(r, status) ==
    /\ vorgang' = [vorgang EXCEPT ![at[r]] = Flush(@, seen[r], status)]
    /\ seen' = [seen EXCEPT ![r] = status]

\* The next request.
Arrives(r, i) ==
    /\ pc[r] = "idle"
    /\ \A q \in 1 .. r - 1 : pc[q] # "idle"
    /\ at' = [at EXCEPT ![r] = i]

\* A request about an import that exists.
Starts(r, i, step) ==
    /\ Arrives(r, i)
    /\ vorgang[i] # "none"
    /\ Overlap \/ ~Busy(i)
    /\ seen' = [seen EXCEPT ![r] = vorgang[i]]
    /\ Go(r, step)
    /\ UNCHANGED <<vorgang, items, persons, selected, troubled, local>>

-----------------------------------------------------------------------------
(* validateImport(): the row, the items in chunks, the verdict.            *)

Upload(r, i) ==
    /\ Arrives(r, i)
    /\ vorgang[i] = "none"
    /\ vorgang' = [vorgang EXCEPT ![i] = "STARTED"]
    /\ seen' = [seen EXCEPT ![r] = "STARTED"]
    /\ todo' = [todo EXCEPT ![r] = Items]
    /\ Go(r, "chunk")
    /\ UNCHANGED <<items, persons, selected, loaded, result, success, troubled>>

CreateAll(r) ==
    /\ pc[r] = "chunk"
    /\ \E x \in todo[r] :
        /\ items' = [items EXCEPT ![at[r]][x] = "PENDING"]
        /\ todo' = [todo EXCEPT ![r] = @ \ {x}]
        /\ Go(r, IF todo[r] = {x} THEN "validate" ELSE "chunk")
    /\ UNCHANGED <<vorgang, persons, selected, at, seen, loaded, result, success,
                   troubled>>

Validate(r) ==
    /\ pc[r] = "validate"
    /\ \E verdict \in {"VALID", "INVALID"} : SaveVorgang(r, verdict)
    /\ Go(r, "done")
    /\ UNCHANGED <<items, persons, selected, at, troubled, local>>

-----------------------------------------------------------------------------
(* executeImport() and ImportEventHandler.  No status forbids to execute.  *)

Executing == {"execute", "publish", "load", "create", "store", "finish"}

Execute(r, i) ==
    /\ Overlap \/ \A q \in Requests : pc[q] \notin Executing
    /\ Starts(r, i, "execute")

MarkInProgress(r) ==
    /\ pc[r] = "execute"
    /\ SaveVorgang(r, "INPROGRESS")
    /\ Go(r, "publish")
    /\ UNCHANGED <<items, persons, selected, at, troubled, local>>

\* Mutant: the fields of the handler are set by the first event only.
MutantPublishOnce(r) ==
    /\ pc[r] = "publish"
    /\ selected' = IF selected = "none" THEN SchoolOf[at[r]] ELSE selected
    /\ Go(r, "load")
    /\ UNCHANGED <<vorgang, items, persons, at, seen, troubled, local>>

\* The event reaches the handler, which keeps its content in its own fields.
Publish(r) ==
    /\ pc[r] = "publish"
    /\ selected' = SchoolOf[at[r]]
    /\ Go(r, "load")
    /\ UNCHANGED <<vorgang, items, persons, at, seen, troubled, local>>

\* Without items the handler returns and the import stays INPROGRESS.
LoadItems(r) ==
    /\ pc[r] = "load"
    /\ loaded' = [loaded EXCEPT ![r] = items[at[r]]]
    /\ todo' = [todo EXCEPT ![r] = Rows(at[r])]
    /\ Go(r, IF Rows(at[r]) = {} THEN "done" ELSE "create")
    /\ UNCHANGED <<vorgang, items, persons, selected, at, seen, result, success,
                   troubled>>

\* Mutant: the error of createPersonWithPersonenkontexte() is not looked at.
MutantCreatePerson(r) ==
    /\ pc[r] = "create"
    /\ \E x \in todo[r], made \in SUBSET {selected} :
        /\ persons' = persons \cup
               {[import |-> at[r], item |-> x, school |-> s] : s \in made}
        /\ result' = [result EXCEPT ![r] = <<x, "SUCCESS">>]
    /\ Go(r, "store")
    /\ UNCHANGED <<vorgang, items, at, selected, seen, loaded, todo, success, troubled>>

\* One item, whatever its row says: without its Klasse nothing is created; a
\* person may be created and the item still fail, after an error that follows.
CreatePerson(r) ==
    /\ pc[r] = "create"
    /\ \E x \in todo[r], made \in SUBSET {selected}, status \in {"SUCCESS", "FAILED"} :
        /\ status = "SUCCESS" => made # {}
        /\ persons' = persons \cup
               {[import |-> at[r], item |-> x, school |-> s] : s \in made}
        /\ result' = [result EXCEPT ![r] = <<x, status>>]
    /\ Go(r, "store")
    /\ UNCHANGED <<vorgang, items, at, selected, seen, loaded, todo, success, troubled>>

\* Mutant: only the last item decides.
MutantSaveItem(r) ==
    /\ pc[r] = "store"
    /\ LET x == result[r][1]
           status == result[r][2]
       IN /\ items' = [items EXCEPT ![at[r]][x] = Flush(@, loaded[r][x], status)]
          /\ success' = [success EXCEPT ![r] = status = "SUCCESS"]
          /\ todo' = [todo EXCEPT ![r] = @ \ {x}]
          /\ Go(r, IF todo[r] = {x} THEN "finish" ELSE "create")
    /\ result' = [result EXCEPT ![r] = <<>>]
    /\ UNCHANGED <<vorgang, persons, selected, at, seen, loaded, troubled>>

\* Mutant: the loop does not advance.
MutantSaveItemStays(r) ==
    /\ pc[r] = "store"
    /\ LET x == result[r][1]
           status == result[r][2]
       IN /\ items' = [items EXCEPT ![at[r]][x] = Flush(@, loaded[r][x], status)]
          /\ success' = [success EXCEPT ![r] = @ \/ status = "SUCCESS"]
    /\ Go(r, "create")
    /\ result' = [result EXCEPT ![r] = <<>>]
    /\ UNCHANGED <<vorgang, persons, selected, at, seen, loaded, todo, troubled>>

SaveItem(r) ==
    /\ pc[r] = "store"
    /\ LET x == result[r][1]
           status == result[r][2]
       IN /\ items' = [items EXCEPT ![at[r]][x] = Flush(@, loaded[r][x], status)]
          /\ success' = [success EXCEPT ![r] = @ \/ status = "SUCCESS"]
          /\ todo' = [todo EXCEPT ![r] = @ \ {x}]
          /\ Go(r, IF todo[r] = {x} THEN "finish" ELSE "create")
    /\ result' = [result EXCEPT ![r] = <<>>]
    /\ UNCHANGED <<vorgang, persons, selected, at, seen, loaded, troubled>>

Finalize(r) ==
    /\ pc[r] = "finish"
    /\ SaveVorgang(r, IF success[r] THEN "FINISHED" ELSE "FAILED")
    /\ Go(r, "done") /\ Forget(r)
    /\ UNCHANGED <<items, persons, selected, at, troubled>>

-----------------------------------------------------------------------------
(* downloadFile() and cancelOrCompleteImport()                             *)

Download(r, i) == vorgang[i] = "FINISHED" /\ Starts(r, i, "read")

ReadItems(r) ==
    /\ pc[r] = "read"
    /\ Go(r, IF Rows(at[r]) = {} THEN "done" ELSE "file")
    /\ UNCHANGED <<vorgang, items, persons, selected, at, seen, troubled, local>>

\* createTextFile() needs the organisation and the Rolle.
CreateTextFile(r) ==
    /\ pc[r] = "file"
    /\ \/ Go(r, "drop") /\ UNCHANGED <<vorgang, seen, troubled>>
       \/ /\ SaveVorgang(r, "FAILED")
          /\ Go(r, "done")
          /\ troubled' = troubled \cup {at[r]}
    /\ UNCHANGED <<items, persons, selected, at, local>>

CancelOrComplete(r, i) == Starts(r, i, "drop")

DeleteItems(r) ==
    /\ pc[r] = "drop"
    /\ items' = [items EXCEPT ![at[r]] = NoItems]
    /\ Go(r, "save")
    /\ UNCHANGED <<vorgang, persons, selected, at, seen, troubled, local>>

SaveEnd(r) ==
    /\ pc[r] = "save"
    /\ SaveVorgang(r, IF seen[r] = "FINISHED" THEN "COMPLETED" ELSE "CANCELLED")
    /\ Go(r, "done")
    /\ UNCHANGED <<items, persons, selected, at, troubled, local>>

\* The database fails, or the server goes down, at any point of a request.
Break(r) ==
    /\ pc[r] \notin Over
    /\ Cardinality({q \in Requests : pc[q] = "broken"}) < MaxBreaks
    /\ Go(r, "broken") /\ Forget(r)
    /\ troubled' = troubled \cup {at[r]}
    /\ seen' = [seen EXCEPT ![r] = "none"]
    /\ UNCHANGED <<vorgang, items, persons, selected, at>>

Continue(r) ==
    \/ CreateAll(r) \/ Validate(r)
    \/ MarkInProgress(r) \/ Publish(r) \/ LoadItems(r) \/ CreatePerson(r)
    \/ SaveItem(r) \/ Finalize(r)
    \/ ReadItems(r) \/ CreateTextFile(r) \/ DeleteItems(r) \/ SaveEnd(r)

Next ==
    \E r \in Requests :
        \/ \E i \in Imports :
            Upload(r, i) \/ Execute(r, i) \/ Download(r, i) \/ CancelOrComplete(r, i)
        \/ Continue(r) \/ Break(r)

Spec == Init /\ [][Next]_vars

\* A request that runs goes on; nobody has to make one.
Fairness == \A r \in Requests : WF_vars(Continue(r))
FairSpec == Spec /\ Fairness

-----------------------------------------------------------------------------
TypeOK ==
    /\ vorgang \in [Imports -> Status]
    /\ items \in [Imports -> [Items -> ItemStatus]]
    /\ persons \subseteq Person
    /\ selected \in Schools \cup {"none"}
    /\ pc \in [Requests -> Steps]
    /\ at \in [Requests -> Imports \cup {"none"}]
    /\ seen \in [Requests -> Status]
    /\ loaded \in [Requests -> [Items -> ItemStatus]]
    /\ todo \in [Requests -> SUBSET Items]
    /\ result \in [Requests -> (Items \X {"SUCCESS", "FAILED"}) \cup {<<>>}]
    /\ success \in [Requests -> BOOLEAN]
    /\ troubled \subseteq Imports

AtRest(i) == ~Busy(i) /\ i \notin troubled

\* "If all items failed to be imported then we mark the whole import as failed.
\* Otherwise it's finished": the status that handleExecuteImport() leaves agrees
\* with the rows of the items, once nothing is under way.
OutcomeTold ==
    \A i \in Imports : AtRest(i) =>
        /\ vorgang[i] = "FAILED" => \A x \in Rows(i) : items[i][x] # "SUCCESS"
        /\ vorgang[i] = "FINISHED" /\ Rows(i) # {} =>
               \E x \in Rows(i) : items[i][x] # "FAILED"

\* What an administrator reads off the status of an import at rest is true of
\* its items: nothing imported yet, something to fetch, or nothing kept.  Only an
\* import without items is left INPROGRESS; executing again, deleting and
\* downloading in any order do not break it.
StatusTellsItems ==
    /\ OutcomeTold
    /\ \A i \in Imports : AtRest(i) =>
        /\ vorgang[i] \in {"VALID", "INVALID"} => items[i] = [x \in Items |-> "PENDING"]
        /\ vorgang[i] \in {"COMPLETED", "CANCELLED", "INPROGRESS"} => Rows(i) = {}
        /\ vorgang[i] = "FAILED" => items[i] = [x \in Items |-> "FAILED"]
        /\ vorgang[i] = "FINISHED" => \E x \in Items : items[i][x] = "SUCCESS"
        /\ vorgang[i] # "STARTED"

\* Whoever is imported gets a Personenkontext at the school of the import, though
\* the handler keeps the school of the last event in a field of its own.
ImportedAtSchool == \A p \in persons : p.school = SchoolOf[p.import]

\* An item is reported as imported only if its person was created.
SuccessHasPerson ==
    \A i \in Imports, x \in Items : items[i][x] = "SUCCESS" =>
        \E p \in persons : p.import = i /\ p.item = x

\* An execution comes to an end: an import that has items does not stay
\* INPROGRESS, unless the database failed it.
ExecutionEnds ==
    \A i \in Imports :
        vorgang[i] = "INPROGRESS" /\ Rows(i) # {}
            ~> vorgang[i] # "INPROGRESS" \/ Rows(i) = {} \/ i \in troubled
=============================================================================
