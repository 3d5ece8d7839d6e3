----------------------- MODULE Personenkontexte_proofs -----------------------
(***************************************************************************)
(* Proofs about the update of a person's Personenkontexte: first for any   *)
(* number of concurrent calls, any kontexte and any failures; then for     *)
(* updates and deletions that run one at a time, from pages of any age and *)
(* with deletes and inserts that fail: rows, events and date move together *)
(* and the detailed workflow implements the register of KontextRegister.   *)
(***************************************************************************)
EXTENDS PersonenkontexteSerial, FiniteSetTheorems, TLAPS

\* Type correctness of every state update(), the cron job and deletePerson()
\* can reach together.
THEOREM TypeCorrect == Spec => []TypeOK
<1>1. Init => TypeOK
  BY DEF Init, TypeOK, Row, Kontext, Steps, KeysOf
<1>2. TypeOK /\ [Next]_vars => TypeOK'
  <2> SUFFICES ASSUME TypeOK, [Next]_vars PROVE TypeOK'
    OBVIOUS
  <2> USE DEF TypeOK, Row, Kontext, Steps, DeletionSteps
  <2>1. ASSUME NEW c \in Calls, Prepare(c) PROVE TypeOK'
    BY <2>1 DEF Prepare
  <2>2. ASSUME NEW c \in Calls, Submit(c) PROVE TypeOK'
    BY <2>2 DEF Submit, Begin
  <2>3. ASSUME NEW c \in Calls, SubmitCron(c) PROVE TypeOK'
    BY <2>3 DEF SubmitCron, Begin, KontexteOf, KontextOf
  <2>4. ASSUME NEW c \in Calls, FindSent(c) PROVE TypeOK'
    BY <2>4 DEF FindSent, KontexteOf, KontextOf
  <2>5. ASSUME NEW c \in Calls, ReadExisting(c) PROVE TypeOK'
    BY <2>5 DEF ReadExisting
  <2>6. ASSUME NEW c \in Calls, CheckSpecifications(c) PROVE TypeOK'
    BY <2>6 DEF CheckSpecifications
  <2>7. ASSUME NEW c \in Calls, Validate(c) PROVE TypeOK'
    BY <2>7 DEF Validate
  <2>8. ASSUME NEW c \in Calls, DeleteOne(c) PROVE TypeOK'
    BY <2>8 DEF DeleteOne
  <2>9. ASSUME NEW c \in Calls, DeleteDone(c) PROVE TypeOK'
    BY <2>9 DEF DeleteDone, KontexteOf, KontextOf
  <2>10. ASSUME NEW c \in Calls, AddOne(c) PROVE TypeOK'
    BY <2>10 DEF AddOne, StampRow, UpdateRow, NotUpdated
  <2>11. ASSUME NEW c \in Calls, Reread(c) PROVE TypeOK'
    BY <2>11 DEF Reread
  <2>12. ASSUME NEW c \in Calls, LoadPerson(c) PROVE TypeOK'
    BY <2>12 DEF LoadPerson
  <2>13. ASSUME NEW c \in Calls, SavePerson(c) PROVE TypeOK'
    BY <2>13 DEF SavePerson, Save
  <2>14. ASSUME NEW c \in Calls, SaveFails(c) PROVE TypeOK'
    BY <2>14 DEF SaveFails
  <2>15. ASSUME NEW c \in Calls, PublishEvent(c) PROVE TypeOK'
    BY <2>15 DEF PublishEvent, KeysOf
  <2>16. ASSUME NEW c \in Calls, PublishNothing(c) PROVE TypeOK'
    BY <2>16 DEF PublishNothing
  <2>17. ASSUME NEW d \in Deletions, Collect(d) PROVE TypeOK'
    BY <2>17 DEF Collect
  <2>18. ASSUME NEW d \in Deletions, Announce(d) PROVE TypeOK'
    BY <2>18 DEF Announce, KeysOf
  <2>19. ASSUME NEW d \in Deletions, DeletionRejected(d) PROVE TypeOK'
    BY <2>19 DEF DeletionRejected
  <2>20. ASSUME NEW d \in Deletions, RemovePerson(d) PROVE TypeOK'
    BY <2>20 DEF RemovePerson
  <2>21. ASSUME NEW d \in Deletions, RemovePersonFails(d) PROVE TypeOK'
    BY <2>21 DEF RemovePersonFails
  <2>22. CASE UNCHANGED vars
    BY <2>22 DEF vars, callVars
  <2>23. ASSUME NEW c \in Calls, InsertOne(c) PROVE TypeOK'
    BY <2>23 DEF InsertOne, InsertRow, NotInserted
  <2> QED
    BY <2>1, <2>2, <2>3, <2>4, <2>5, <2>6, <2>7, <2>8, <2>9, <2>10, <2>11,
       <2>12, <2>13, <2>14, <2>15, <2>16, <2>17, <2>18, <2>19, <2>20, <2>21,
       <2>22, <2>23 DEF Next, Update, DeletePerson
<1> QED
  BY <1>1, <1>2, PTL DEF Spec

-----------------------------------------------------------------------------
\* BefristungKept holds because a call inserts only what it was sent, and was
\* sent only what the specification let pass.
SentIsChecked ==
    \A c \in Calls :
        /\ pc[c] \in {"checked", "delete", "add"} => BefristungOk(sent[c])
        /\ pc[c] = "add" => todo[c] \subseteq sent[c]
        /\ BefristungOk(inserting[c])

LEMMA BefristungInductive ==
    TypeOK /\ SentIsChecked /\ BefristungKept /\ [Next]_vars
        => SentIsChecked' /\ BefristungKept'
<1> SUFFICES ASSUME TypeOK, SentIsChecked, BefristungKept, [Next]_vars
             PROVE  SentIsChecked' /\ BefristungKept'
  OBVIOUS
<1> USE DEF TypeOK, SentIsChecked, BefristungKept, BefristungOk
<1>1. ASSUME NEW c \in Calls, Prepare(c) PROVE SentIsChecked' /\ BefristungKept'
  BY <1>1 DEF Prepare
<1>2. ASSUME NEW c \in Calls, Submit(c) PROVE SentIsChecked' /\ BefristungKept'
  BY <1>2 DEF Submit, Begin
<1>3. ASSUME NEW c \in Calls, SubmitCron(c) PROVE SentIsChecked' /\ BefristungKept'
  BY <1>3 DEF SubmitCron, Begin
<1>4. ASSUME NEW c \in Calls, FindSent(c) PROVE SentIsChecked' /\ BefristungKept'
  BY <1>4 DEF FindSent
<1>5. ASSUME NEW c \in Calls, ReadExisting(c) PROVE SentIsChecked' /\ BefristungKept'
  BY <1>5 DEF ReadExisting
<1>6. ASSUME NEW c \in Calls, CheckSpecifications(c) PROVE SentIsChecked' /\ BefristungKept'
  BY <1>6 DEF CheckSpecifications
<1>7. ASSUME NEW c \in Calls, Validate(c) PROVE SentIsChecked' /\ BefristungKept'
  BY <1>7 DEF Validate
<1>8. ASSUME NEW c \in Calls, DeleteOne(c) PROVE SentIsChecked' /\ BefristungKept'
  BY <1>8 DEF DeleteOne
<1>9. ASSUME NEW c \in Calls, DeleteDone(c) PROVE SentIsChecked' /\ BefristungKept'
  BY <1>9 DEF DeleteDone
<1>10. ASSUME NEW c \in Calls, AddOne(c) PROVE SentIsChecked' /\ BefristungKept'
  BY <1>10 DEF AddOne, StampRow, UpdateRow, NotUpdated
<1>11. ASSUME NEW c \in Calls, Reread(c) PROVE SentIsChecked' /\ BefristungKept'
  BY <1>11 DEF Reread
<1>12. ASSUME NEW c \in Calls, LoadPerson(c) PROVE SentIsChecked' /\ BefristungKept'
  BY <1>12 DEF LoadPerson
<1>13. ASSUME NEW c \in Calls, SavePerson(c) PROVE SentIsChecked' /\ BefristungKept'
  BY <1>13 DEF SavePerson, Save
<1>14. ASSUME NEW c \in Calls, SaveFails(c) PROVE SentIsChecked' /\ BefristungKept'
  BY <1>14 DEF SaveFails
<1>15. ASSUME NEW c \in Calls, PublishEvent(c) PROVE SentIsChecked' /\ BefristungKept'
  BY <1>15 DEF PublishEvent
<1>16. ASSUME NEW c \in Calls, PublishNothing(c) PROVE SentIsChecked' /\ BefristungKept'
  BY <1>16 DEF PublishNothing
<1>17. ASSUME NEW d \in Deletions, Collect(d) PROVE SentIsChecked' /\ BefristungKept'
  BY <1>17, CallsAssumption DEF Collect
<1>18. ASSUME NEW d \in Deletions, Announce(d) PROVE SentIsChecked' /\ BefristungKept'
  BY <1>18, CallsAssumption DEF Announce
<1>19. ASSUME NEW d \in Deletions, DeletionRejected(d) PROVE SentIsChecked' /\ BefristungKept'
  BY <1>19, CallsAssumption DEF DeletionRejected
<1>20. ASSUME NEW d \in Deletions, RemovePerson(d) PROVE SentIsChecked' /\ BefristungKept'
  BY <1>20, CallsAssumption DEF RemovePerson
<1>21. ASSUME NEW d \in Deletions, RemovePersonFails(d) PROVE SentIsChecked' /\ BefristungKept'
  BY <1>21, CallsAssumption DEF RemovePersonFails
<1>22. CASE UNCHANGED vars
  BY <1>22 DEF vars, callVars
<1>23. ASSUME NEW c \in Calls, InsertOne(c) PROVE SentIsChecked' /\ BefristungKept'
  BY <1>23 DEF InsertOne, InsertRow, NotInserted
<1> QED
  BY <1>1, <1>2, <1>3, <1>4, <1>5, <1>6, <1>7, <1>8, <1>9, <1>10, <1>11,
     <1>12, <1>13, <1>14, <1>15, <1>16, <1>17, <1>18, <1>19, <1>20, <1>21,
     <1>22, <1>23 DEF Next, Update, DeletePerson

THEOREM BefristungIsKept == Spec => []BefristungKept
<1>1. Init => SentIsChecked /\ BefristungKept
  BY DEF Init, SentIsChecked, BefristungKept, BefristungOk
<1> QED
  BY <1>1, TypeCorrect, BefristungInductive, PTL DEF Spec

-----------------------------------------------------------------------------
(* ValidatedSawAll.  Rows get newer and newer stamps, so a row of the table *)
(* that is not newer than every row of a view was there when the view was   *)
(* taken, or was being inserted then; what validate() lets pass is          *)
(* otherwise a part of the view of the same size as the view.              *)

NothingIsNewerThanTheClock ==
    /\ \A row \in db : row.stamp <= clock
    /\ \A c \in Clients : \A seen \in view[c] : seen.stamp <= clock
    /\ \A c \in Calls : \A row \in inserting[c] : row.stamp <= clock

ViewsAreFinite == IsFiniteSet(db) /\ \A c \in Clients : IsFiniteSet(view[c])

\* The rows of S that are not newer than all of c's view are in c's view.
OldRowsSeen(S, c) ==
    \A row \in S : \A seen \in view[c] : row.stamp <= seen.stamp => row \in view[c]

HasOldRows(c) ==
    /\ c \notin overtaken =>
          /\ OldRowsSeen(db, c)
          /\ OldRowsSeen(existing[c], c)
          /\ \A e \in Calls : OldRowsSeen(inserting[e], c)
    /\ pc[c] \in {"idle", "prepared", "reading"} => existing[c] = {}

ViewsHaveOldRows == \A c \in Clients : HasOldRows(c)

LEMMA ClockInductive ==
    TypeOK /\ NothingIsNewerThanTheClock /\ [Next]_vars => NothingIsNewerThanTheClock'
<1> SUFFICES ASSUME TypeOK, NothingIsNewerThanTheClock, [Next]_vars
             PROVE  NothingIsNewerThanTheClock'
  OBVIOUS
<1> USE DEF TypeOK, Row, Calls, NothingIsNewerThanTheClock
<1>1. ASSUME NEW c \in Calls, Prepare(c) PROVE NothingIsNewerThanTheClock'
  BY <1>1 DEF Prepare
<1>2. ASSUME NEW c \in Calls, Submit(c) PROVE NothingIsNewerThanTheClock'
  BY <1>2 DEF Submit, Begin
<1>3. ASSUME NEW c \in Calls, SubmitCron(c) PROVE NothingIsNewerThanTheClock'
  BY <1>3 DEF SubmitCron, Begin
<1>4. ASSUME NEW c \in Calls, FindSent(c) PROVE NothingIsNewerThanTheClock'
  BY <1>4 DEF FindSent
<1>5. ASSUME NEW c \in Calls, ReadExisting(c) PROVE NothingIsNewerThanTheClock'
  BY <1>5 DEF ReadExisting
<1>6. ASSUME NEW c \in Calls, CheckSpecifications(c) PROVE NothingIsNewerThanTheClock'
  BY <1>6 DEF CheckSpecifications
<1>7. ASSUME NEW c \in Calls, Validate(c) PROVE NothingIsNewerThanTheClock'
  BY <1>7 DEF Validate
<1>8. ASSUME NEW c \in Calls, DeleteOne(c) PROVE NothingIsNewerThanTheClock'
  BY <1>8 DEF DeleteOne
<1>9. ASSUME NEW c \in Calls, DeleteDone(c) PROVE NothingIsNewerThanTheClock'
  BY <1>9 DEF DeleteDone
<1>10. ASSUME NEW c \in Calls, AddOne(c) PROVE NothingIsNewerThanTheClock'
  BY <1>10 DEF AddOne, StampRow, UpdateRow, NotUpdated
<1>11. ASSUME NEW c \in Calls, Reread(c) PROVE NothingIsNewerThanTheClock'
  BY <1>11 DEF Reread
<1>12. ASSUME NEW c \in Calls, LoadPerson(c) PROVE NothingIsNewerThanTheClock'
  BY <1>12 DEF LoadPerson
<1>13. ASSUME NEW c \in Calls, SavePerson(c) PROVE NothingIsNewerThanTheClock'
  BY <1>13 DEF SavePerson, Save
<1>14. ASSUME NEW c \in Calls, SaveFails(c) PROVE NothingIsNewerThanTheClock'
  BY <1>14 DEF SaveFails
<1>15. ASSUME NEW c \in Calls, PublishEvent(c) PROVE NothingIsNewerThanTheClock'
  BY <1>15 DEF PublishEvent
<1>16. ASSUME NEW c \in Calls, PublishNothing(c) PROVE NothingIsNewerThanTheClock'
  BY <1>16 DEF PublishNothing
<1>17. ASSUME NEW d \in Deletions, Collect(d) PROVE NothingIsNewerThanTheClock'
  BY <1>17, CallsAssumption DEF Collect
<1>18. ASSUME NEW d \in Deletions, Announce(d) PROVE NothingIsNewerThanTheClock'
  BY <1>18, CallsAssumption DEF Announce
<1>19. ASSUME NEW d \in Deletions, DeletionRejected(d) PROVE NothingIsNewerThanTheClock'
  BY <1>19, CallsAssumption DEF DeletionRejected
<1>20. ASSUME NEW d \in Deletions, RemovePerson(d) PROVE NothingIsNewerThanTheClock'
  BY <1>20, CallsAssumption DEF RemovePerson
<1>21. ASSUME NEW d \in Deletions, RemovePersonFails(d) PROVE NothingIsNewerThanTheClock'
  BY <1>21, CallsAssumption DEF RemovePersonFails
<1>22. CASE UNCHANGED vars
  BY <1>22 DEF vars, callVars
<1>23. ASSUME NEW c \in Calls, InsertOne(c) PROVE NothingIsNewerThanTheClock'
  BY <1>23 DEF InsertOne, InsertRow, NotInserted
<1> QED
  BY <1>1, <1>2, <1>3, <1>4, <1>5, <1>6, <1>7, <1>8, <1>9, <1>10, <1>11,
     <1>12, <1>13, <1>14, <1>15, <1>16, <1>17, <1>18, <1>19, <1>20, <1>21,
     <1>22, <1>23 DEF Next, Update, DeletePerson

LEMMA FiniteInductive ==
    TypeOK /\ ViewsAreFinite /\ [Next]_vars => ViewsAreFinite'
<1> SUFFICES ASSUME TypeOK, ViewsAreFinite, [Next]_vars
             PROVE  ViewsAreFinite'
  OBVIOUS
<1> USE DEF TypeOK, Calls, ViewsAreFinite
<1>1. ASSUME NEW c \in Calls, Prepare(c) PROVE ViewsAreFinite'
  BY <1>1 DEF Prepare
<1>2. ASSUME NEW c \in Calls, Submit(c) PROVE ViewsAreFinite'
  BY <1>2 DEF Submit, Begin
<1>3. ASSUME NEW c \in Calls, SubmitCron(c) PROVE ViewsAreFinite'
  BY <1>3 DEF SubmitCron, Begin
<1>4. ASSUME NEW c \in Calls, FindSent(c) PROVE ViewsAreFinite'
  BY <1>4 DEF FindSent
<1>5. ASSUME NEW c \in Calls, ReadExisting(c) PROVE ViewsAreFinite'
  BY <1>5 DEF ReadExisting
<1>6. ASSUME NEW c \in Calls, CheckSpecifications(c) PROVE ViewsAreFinite'
  BY <1>6 DEF CheckSpecifications
<1>7. ASSUME NEW c \in Calls, Validate(c) PROVE ViewsAreFinite'
  BY <1>7 DEF Validate
<1>8. ASSUME NEW c \in Calls, DeleteOne(c) PROVE ViewsAreFinite'
  <2>1. db' \subseteq db
    BY <1>8 DEF DeleteOne
  <2>2. IsFiniteSet(db')
    BY <2>1, FS_Subset
  <2> QED
    BY <1>8, <2>2 DEF DeleteOne
<1>9. ASSUME NEW c \in Calls, DeleteDone(c) PROVE ViewsAreFinite'
  BY <1>9 DEF DeleteDone
<1>10. ASSUME NEW c \in Calls, AddOne(c) PROVE ViewsAreFinite'
  BY <1>10 DEF AddOne, StampRow, UpdateRow, NotUpdated
<1>11. ASSUME NEW c \in Calls, Reread(c) PROVE ViewsAreFinite'
  BY <1>11 DEF Reread
<1>12. ASSUME NEW c \in Calls, LoadPerson(c) PROVE ViewsAreFinite'
  BY <1>12 DEF LoadPerson
<1>13. ASSUME NEW c \in Calls, SavePerson(c) PROVE ViewsAreFinite'
  BY <1>13 DEF SavePerson, Save
<1>14. ASSUME NEW c \in Calls, SaveFails(c) PROVE ViewsAreFinite'
  BY <1>14 DEF SaveFails
<1>15. ASSUME NEW c \in Calls, PublishEvent(c) PROVE ViewsAreFinite'
  BY <1>15 DEF PublishEvent
<1>16. ASSUME NEW c \in Calls, PublishNothing(c) PROVE ViewsAreFinite'
  BY <1>16 DEF PublishNothing
<1>17. ASSUME NEW d \in Deletions, Collect(d) PROVE ViewsAreFinite'
  BY <1>17, CallsAssumption DEF Collect
<1>18. ASSUME NEW d \in Deletions, Announce(d) PROVE ViewsAreFinite'
  BY <1>18, CallsAssumption DEF Announce
<1>19. ASSUME NEW d \in Deletions, DeletionRejected(d) PROVE ViewsAreFinite'
  BY <1>19, CallsAssumption DEF DeletionRejected
<1>20. ASSUME NEW d \in Deletions, RemovePerson(d) PROVE ViewsAreFinite'
  BY <1>20, CallsAssumption, FS_EmptySet DEF RemovePerson
<1>21. ASSUME NEW d \in Deletions, RemovePersonFails(d) PROVE ViewsAreFinite'
  BY <1>21, CallsAssumption DEF RemovePersonFails
<1>22. CASE UNCHANGED vars
  BY <1>22 DEF vars, callVars
<1>23. ASSUME NEW c \in Calls, InsertOne(c) PROVE ViewsAreFinite'
  <2>1. PICK row : db' \in {db, db \cup {row}}
    BY <1>23 DEF InsertOne, InsertRow, NotInserted
  <2>2. IsFiniteSet(db) /\ IsFiniteSet(db \cup {row})
    BY FS_AddElement
  <2>3. IsFiniteSet(db')
    BY <2>1, <2>2
  <2> QED
    BY <1>23, <2>3 DEF InsertOne
<1> QED
  BY <1>1, <1>2, <1>3, <1>4, <1>5, <1>6, <1>7, <1>8, <1>9, <1>10, <1>11,
     <1>12, <1>13, <1>14, <1>15, <1>16, <1>17, <1>18, <1>19, <1>20, <1>21,
     <1>22, <1>23 DEF Next, Update, DeletePerson

LEMMA ViewsInductive ==
    TypeOK /\ NothingIsNewerThanTheClock /\ ViewsHaveOldRows /\ [Next]_vars
        => ViewsHaveOldRows'
<1> SUFFICES ASSUME TypeOK, NothingIsNewerThanTheClock, ViewsHaveOldRows, [Next]_vars
             PROVE  ViewsHaveOldRows'
  OBVIOUS
<1> USE DEF TypeOK, Row, Calls, NothingIsNewerThanTheClock, ViewsHaveOldRows, HasOldRows, OldRowsSeen
<1>1. ASSUME NEW c \in Calls, Prepare(c) PROVE ViewsHaveOldRows'
  <2>1. ASSUME NEW b \in Clients, b = c PROVE HasOldRows(b)'
    BY <1>1, <2>1 DEF Prepare, RowIsUnderWay
  <2>2. ASSUME NEW b \in Clients, b # c PROVE HasOldRows(b)'
    BY <1>1, <2>2 DEF Prepare
  <2> QED
    BY <2>1, <2>2
<1>2. ASSUME NEW c \in Calls, Submit(c) PROVE ViewsHaveOldRows'
  BY <1>2 DEF Submit, Begin
<1>3. ASSUME NEW c \in Calls, SubmitCron(c) PROVE ViewsHaveOldRows'
  BY <1>3 DEF SubmitCron, Begin
<1>4. ASSUME NEW c \in Calls, FindSent(c) PROVE ViewsHaveOldRows'
  BY <1>4 DEF FindSent
<1>5. ASSUME NEW c \in Calls, ReadExisting(c) PROVE ViewsHaveOldRows'
  BY <1>5 DEF ReadExisting
<1>6. ASSUME NEW c \in Calls, CheckSpecifications(c) PROVE ViewsHaveOldRows'
  BY <1>6 DEF CheckSpecifications
<1>7. ASSUME NEW c \in Calls, Validate(c) PROVE ViewsHaveOldRows'
  BY <1>7 DEF Validate
<1>8. ASSUME NEW c \in Calls, DeleteOne(c) PROVE ViewsHaveOldRows'
  BY <1>8 DEF DeleteOne
<1>9. ASSUME NEW c \in Calls, DeleteDone(c) PROVE ViewsHaveOldRows'
  BY <1>9 DEF DeleteDone
<1>10. ASSUME NEW c \in Calls, AddOne(c) PROVE ViewsHaveOldRows'
  BY <1>10 DEF AddOne, StampRow, UpdateRow, NotUpdated
<1>11. ASSUME NEW c \in Calls, Reread(c) PROVE ViewsHaveOldRows'
  BY <1>11 DEF Reread
<1>12. ASSUME NEW c \in Calls, LoadPerson(c) PROVE ViewsHaveOldRows'
  BY <1>12 DEF LoadPerson
<1>13. ASSUME NEW c \in Calls, SavePerson(c) PROVE ViewsHaveOldRows'
  BY <1>13 DEF SavePerson, Save
<1>14. ASSUME NEW c \in Calls, SaveFails(c) PROVE ViewsHaveOldRows'
  BY <1>14 DEF SaveFails
<1>15. ASSUME NEW c \in Calls, PublishEvent(c) PROVE ViewsHaveOldRows'
  BY <1>15 DEF PublishEvent
<1>16. ASSUME NEW c \in Calls, PublishNothing(c) PROVE ViewsHaveOldRows'
  BY <1>16 DEF PublishNothing
<1>17. ASSUME NEW d \in Deletions, Collect(d) PROVE ViewsHaveOldRows'
  BY <1>17, CallsAssumption DEF Collect
<1>18. ASSUME NEW d \in Deletions, Announce(d) PROVE ViewsHaveOldRows'
  BY <1>18, CallsAssumption DEF Announce
<1>19. ASSUME NEW d \in Deletions, DeletionRejected(d) PROVE ViewsHaveOldRows'
  BY <1>19, CallsAssumption DEF DeletionRejected
<1>20. ASSUME NEW d \in Deletions, RemovePerson(d) PROVE ViewsHaveOldRows'
  BY <1>20, CallsAssumption DEF RemovePerson
<1>21. ASSUME NEW d \in Deletions, RemovePersonFails(d) PROVE ViewsHaveOldRows'
  BY <1>21, CallsAssumption DEF RemovePersonFails
<1>22. CASE UNCHANGED vars
  BY <1>22 DEF vars, callVars
<1>23. ASSUME NEW c \in Calls, InsertOne(c) PROVE ViewsHaveOldRows'
  BY <1>23 DEF InsertOne, InsertRow, NotInserted
<1> QED
  BY <1>1, <1>2, <1>3, <1>4, <1>5, <1>6, <1>7, <1>8, <1>9, <1>10, <1>11,
     <1>12, <1>13, <1>14, <1>15, <1>16, <1>17, <1>18, <1>19, <1>20, <1>21,
     <1>22, <1>23 DEF Next, Update, DeletePerson

LEMMA ValidatedInductive ==
    TypeOK /\ ViewsAreFinite /\ ViewsHaveOldRows /\ ValidatedSawAll /\ [Next]_vars
        => ValidatedSawAll'
<1> SUFFICES ASSUME TypeOK, ViewsAreFinite, ViewsHaveOldRows, ValidatedSawAll, [Next]_vars
             PROVE  ValidatedSawAll'
  OBVIOUS
<1> USE DEF TypeOK, Calls, ValidatedSawAll, Validated
<1>1. ASSUME NEW c \in Calls, Prepare(c) PROVE ValidatedSawAll'
  BY <1>1 DEF Prepare
<1>2. ASSUME NEW c \in Calls, Submit(c) PROVE ValidatedSawAll'
  BY <1>2 DEF Submit, Begin
<1>3. ASSUME NEW c \in Calls, SubmitCron(c) PROVE ValidatedSawAll'
  BY <1>3 DEF SubmitCron, Begin
<1>4. ASSUME NEW c \in Calls, FindSent(c) PROVE ValidatedSawAll'
  BY <1>4 DEF FindSent
<1>5. ASSUME NEW c \in Calls, ReadExisting(c) PROVE ValidatedSawAll'
  BY <1>5 DEF ReadExisting
<1>6. ASSUME NEW c \in Calls, CheckSpecifications(c) PROVE ValidatedSawAll'
  BY <1>6 DEF CheckSpecifications
<1>7. ASSUME NEW c \in Calls, Validate(c) PROVE ValidatedSawAll'
  <2>1. CASE c \in Clients \ overtaken /\ pc'[c] = "delete"
    <3>1. /\ Cardinality(existing[c]) = Cardinality(view[c])
          /\ ~Outdated(c)
      BY <1>7, <2>1 DEF Validate
    <3>2. existing[c] \subseteq view[c]
      <4> SUFFICES ASSUME NEW row \in existing[c]
                   PROVE  row \in view[c]
        OBVIOUS
      <4>1. PICK seen \in view[c] : ~(row.stamp > seen.stamp)
        BY <2>1, <3>1, CallsAssumption DEF Outdated
      <4>2. row \in Row /\ seen \in Row
        BY <2>1
      <4>3. row.stamp <= seen.stamp
        BY <4>1, <4>2 DEF Row
      <4> QED
        BY <1>7, <2>1, <4>3 DEF ViewsHaveOldRows, HasOldRows, OldRowsSeen, Validate
    <3>3. existing[c] = view[c]
      BY <2>1, <3>1, <3>2, FS_Subset DEF ViewsAreFinite
    <3> QED
      BY <1>7, <2>1, <3>3 DEF Validate
  <2>2. CASE ~(c \in Clients \ overtaken /\ pc'[c] = "delete")
    BY <1>7, <2>2 DEF Validate
  <2> QED
    BY <2>1, <2>2
<1>8. ASSUME NEW c \in Calls, DeleteOne(c) PROVE ValidatedSawAll'
  BY <1>8 DEF DeleteOne
<1>9. ASSUME NEW c \in Calls, DeleteDone(c) PROVE ValidatedSawAll'
  BY <1>9 DEF DeleteDone
<1>10. ASSUME NEW c \in Calls, AddOne(c) PROVE ValidatedSawAll'
  BY <1>10 DEF AddOne, StampRow, UpdateRow, NotUpdated
<1>11. ASSUME NEW c \in Calls, Reread(c) PROVE ValidatedSawAll'
  BY <1>11 DEF Reread
<1>12. ASSUME NEW c \in Calls, LoadPerson(c) PROVE ValidatedSawAll'
  BY <1>12 DEF LoadPerson
<1>13. ASSUME NEW c \in Calls, SavePerson(c) PROVE ValidatedSawAll'
  BY <1>13 DEF SavePerson, Save
<1>14. ASSUME NEW c \in Calls, SaveFails(c) PROVE ValidatedSawAll'
  BY <1>14 DEF SaveFails
<1>15. ASSUME NEW c \in Calls, PublishEvent(c) PROVE ValidatedSawAll'
  BY <1>15 DEF PublishEvent
<1>16. ASSUME NEW c \in Calls, PublishNothing(c) PROVE ValidatedSawAll'
  BY <1>16 DEF PublishNothing
<1>17. ASSUME NEW d \in Deletions, Collect(d) PROVE ValidatedSawAll'
  BY <1>17, CallsAssumption DEF Collect
<1>18. ASSUME NEW d \in Deletions, Announce(d) PROVE ValidatedSawAll'
  BY <1>18, CallsAssumption DEF Announce
<1>19. ASSUME NEW d \in Deletions, DeletionRejected(d) PROVE ValidatedSawAll'
  BY <1>19, CallsAssumption DEF DeletionRejected
<1>20. ASSUME NEW d \in Deletions, RemovePerson(d) PROVE ValidatedSawAll'
  BY <1>20, CallsAssumption DEF RemovePerson
<1>21. ASSUME NEW d \in Deletions, RemovePersonFails(d) PROVE ValidatedSawAll'
  BY <1>21, CallsAssumption DEF RemovePersonFails
<1>22. CASE UNCHANGED vars
  BY <1>22 DEF vars, callVars
<1>23. ASSUME NEW c \in Calls, InsertOne(c) PROVE ValidatedSawAll'
  BY <1>23 DEF InsertOne, InsertRow, NotInserted
<1> QED
  BY <1>1, <1>2, <1>3, <1>4, <1>5, <1>6, <1>7, <1>8, <1>9, <1>10, <1>11,
     <1>12, <1>13, <1>14, <1>15, <1>16, <1>17, <1>18, <1>19, <1>20, <1>21,
     <1>22, <1>23 DEF Next, Update, DeletePerson

THEOREM ValidatedCallsSawAll == Spec => []ValidatedSawAll
<1> DEFINE IInv == /\ NothingIsNewerThanTheClock /\ ViewsAreFinite
                   /\ ViewsHaveOldRows /\ ValidatedSawAll
<1>1. Init => IInv
  <2> SUFFICES ASSUME Init PROVE IInv
    OBVIOUS
  <2>1. NothingIsNewerThanTheClock
    BY DEF Init, Calls, NothingIsNewerThanTheClock
  <2>2. ViewsAreFinite
    BY FS_EmptySet DEF Init, Calls, ViewsAreFinite
  <2>3. ViewsHaveOldRows
    BY DEF Init, Calls, ViewsHaveOldRows, HasOldRows, OldRowsSeen
  <2>4. ValidatedSawAll
    BY DEF Init, Calls, ValidatedSawAll, Validated
  <2> QED
    BY <2>1, <2>2, <2>3, <2>4
<1>2. TypeOK /\ IInv /\ [Next]_vars => IInv'
  BY ClockInductive, FiniteInductive, ViewsInductive, ValidatedInductive
<1> QED
  BY <1>1, <1>2, TypeCorrect, PTL DEF Spec
-----------------------------------------------------------------------------
\* NoSilentKontext: what a call inserts it reports as created, and nothing but
\* publishing without a person takes the call out of the event's way; by then
\* the rows have gone with the person.
RowsNeedPerson == ~person => db = {}

LEMMA SilentInductive ==
    TypeOK /\ RowsNeedPerson /\ NoSilentKontext /\ [Next]_vars
        => RowsNeedPerson' /\ NoSilentKontext'
<1> SUFFICES ASSUME TypeOK, RowsNeedPerson, NoSilentKontext, [Next]_vars
             PROVE  RowsNeedPerson' /\ NoSilentKontext'
  OBVIOUS
<1> USE DEF TypeOK, RowsNeedPerson, NoSilentKontext, Validated
<1>1. ASSUME NEW c \in Calls, Prepare(c) PROVE RowsNeedPerson' /\ NoSilentKontext'
  BY <1>1 DEF Prepare
<1>2. ASSUME NEW c \in Calls, Submit(c) PROVE RowsNeedPerson' /\ NoSilentKontext'
  BY <1>2 DEF Submit, Begin
<1>3. ASSUME NEW c \in Calls, SubmitCron(c) PROVE RowsNeedPerson' /\ NoSilentKontext'
  BY <1>3 DEF SubmitCron, Begin
<1>4. ASSUME NEW c \in Calls, FindSent(c) PROVE RowsNeedPerson' /\ NoSilentKontext'
  BY <1>4 DEF FindSent
<1>5. ASSUME NEW c \in Calls, ReadExisting(c) PROVE RowsNeedPerson' /\ NoSilentKontext'
  BY <1>5 DEF ReadExisting
<1>6. ASSUME NEW c \in Calls, CheckSpecifications(c) PROVE RowsNeedPerson' /\ NoSilentKontext'
  BY <1>6 DEF CheckSpecifications
<1>7. ASSUME NEW c \in Calls, Validate(c) PROVE RowsNeedPerson' /\ NoSilentKontext'
  BY <1>7 DEF Validate
<1>8. ASSUME NEW c \in Calls, DeleteOne(c) PROVE RowsNeedPerson' /\ NoSilentKontext'
  BY <1>8 DEF DeleteOne
<1>9. ASSUME NEW c \in Calls, DeleteDone(c) PROVE RowsNeedPerson' /\ NoSilentKontext'
  BY <1>9 DEF DeleteDone
<1>10. ASSUME NEW c \in Calls, AddOne(c) PROVE RowsNeedPerson' /\ NoSilentKontext'
  BY <1>10 DEF AddOne, StampRow, UpdateRow, NotUpdated
<1>11. ASSUME NEW c \in Calls, Reread(c) PROVE RowsNeedPerson' /\ NoSilentKontext'
  BY <1>11 DEF Reread
<1>12. ASSUME NEW c \in Calls, LoadPerson(c) PROVE RowsNeedPerson' /\ NoSilentKontext'
  BY <1>12 DEF LoadPerson
<1>13. ASSUME NEW c \in Calls, SavePerson(c) PROVE RowsNeedPerson' /\ NoSilentKontext'
  BY <1>13 DEF SavePerson, Save
<1>14. ASSUME NEW c \in Calls, SaveFails(c) PROVE RowsNeedPerson' /\ NoSilentKontext'
  BY <1>14 DEF SaveFails
<1>15. ASSUME NEW c \in Calls, PublishEvent(c) PROVE RowsNeedPerson' /\ NoSilentKontext'
  BY <1>15 DEF PublishEvent
<1>16. ASSUME NEW c \in Calls, PublishNothing(c) PROVE RowsNeedPerson' /\ NoSilentKontext'
  BY <1>16 DEF PublishNothing
<1>17. ASSUME NEW d \in Deletions, Collect(d) PROVE RowsNeedPerson' /\ NoSilentKontext'
  BY <1>17, CallsAssumption DEF Collect
<1>18. ASSUME NEW d \in Deletions, Announce(d) PROVE RowsNeedPerson' /\ NoSilentKontext'
  BY <1>18, CallsAssumption DEF Announce
<1>19. ASSUME NEW d \in Deletions, DeletionRejected(d) PROVE RowsNeedPerson' /\ NoSilentKontext'
  BY <1>19, CallsAssumption DEF DeletionRejected
<1>20. ASSUME NEW d \in Deletions, RemovePerson(d) PROVE RowsNeedPerson' /\ NoSilentKontext'
  BY <1>20, CallsAssumption DEF RemovePerson
<1>21. ASSUME NEW d \in Deletions, RemovePersonFails(d) PROVE RowsNeedPerson' /\ NoSilentKontext'
  BY <1>21, CallsAssumption DEF RemovePersonFails
<1>22. CASE UNCHANGED vars
  BY <1>22 DEF vars, callVars
<1>23. ASSUME NEW c \in Calls, InsertOne(c) PROVE RowsNeedPerson' /\ NoSilentKontext'
  <2>1. /\ pc[c] = "add" /\ UNCHANGED <<person, pc>>
        /\ created[c] \subseteq created'[c]
        /\ \A b \in Calls \ {c} : created'[b] = created[b]
    BY <1>23 DEF InsertOne, InsertRow, NotInserted
  <2>2. \A row \in db' : row \in db \/ row \in created'[c]
    BY <1>23 DEF InsertOne, InsertRow, NotInserted
  <2>3. db' = db \/ person
    BY <1>23 DEF InsertOne, InsertRow, NotInserted, MayInsert
  <2> QED
    BY <2>1, <2>2, <2>3
<1> QED
  BY <1>1, <1>2, <1>3, <1>4, <1>5, <1>6, <1>7, <1>8, <1>9, <1>10, <1>11,
     <1>12, <1>13, <1>14, <1>15, <1>16, <1>17, <1>18, <1>19, <1>20, <1>21,
     <1>22, <1>23 DEF Next, Update, DeletePerson

\* However many updates and deletions overlap and whatever fails, a row that an
\* update inserted is in the event of a call that publishes or failed to save.
THEOREM NoKontextIsSilent == Spec => []NoSilentKontext
<1>1. Init => RowsNeedPerson /\ NoSilentKontext
  BY DEF Init, RowsNeedPerson, NoSilentKontext
<1> QED
  BY <1>1, TypeCorrect, SilentInductive, PTL DEF Spec

-----------------------------------------------------------------------------
(* One call at a time.                                                     *)

\* The conditions: one call at a time, and the person's row can be written.
Serial == MaxParallel = 1 /\ Faults \cap {"save", "remove"} = {}

Early == {"idle", "prepared", "reading", "read", "checked", "rejected"}
Reading == {"reading", "read", "checked"}
WritingSteps == {"delete", "add", "reread", "loaded", "saved"}

Keyed(rows) == \A x, y \in rows : x.key = y.key => x = y
SameArt(ks) == \A x, y \in ks : RollenartOf[x.key] = RollenartOf[y.key]

Alone == \A a, b \in Running : a = b

RowsSound ==
    /\ Keyed(db) /\ SameArt(db)
    /\ \A row \in db : row.stamp <= clock
    /\ ~person => db = {}

\* Between two calls, and as long as a call only reads.
Settled ==
    /\ known = KeysOf(db)
    /\ person => (unassigned <=> db = {})

\* What a call that writes has done so far.
Wrote(c) ==
    /\ person
    /\ old[c] \subseteq existing[c]
    /\ Keyed(existing[c]) /\ SameArt(existing[c] \cup sent[c])
    /\ \A row \in existing[c] : row.stamp <= clock
    /\ \A row \in existing[c], new \in created[c] : new.stamp > row.stamp
    /\ \A new \in inserting[c] :
          /\ KontextOf(new) \in sent[c] /\ new.stamp <= clock
          /\ \A row \in db \cup existing[c] : new.stamp > row.stamp
    /\ db = (existing[c] \ deleted[c]) \cup created[c]
    /\ deleted[c] \subseteq existing[c]
    /\ KontexteOf(deleted[c]) \cap sent[c] = {}
    /\ KontexteOf(created[c]) \subseteq sent[c]
    /\ known = KeysOf(existing[c])
    /\ pc[c] = "delete" =>
          /\ created[c] = {}
          /\ todo[c] \subseteq existing[c] /\ KontexteOf(todo[c]) \cap sent[c] = {}
    /\ pc[c] = "add" => todo[c] \subseteq sent[c] \ KontexteOf(existing[c])
    /\ pc[c] \in {"reread", "loaded", "saved"} => after[c] = db
    /\ pc[c] # "saved" => dateSeen[c] = unassigned /\ (unassigned <=> existing[c] = {})
    /\ pc[c] = "saved" => (unassigned <=> db = {})

CallState(c) ==
    /\ pc[c] \in Steps
    /\ pc[c] \in {"idle", "prepared"} => old[c] = {}
    /\ pc[c] # "add" => inserting[c] = {}
    /\ pc[c] \in Early => deleted[c] = {} /\ created[c] = {}
    /\ pc[c] \in Reading => old[c] \subseteq db /\ Settled
    /\ pc[c] \in {"read", "checked"} => existing[c] = db
    /\ pc[c] = "checked" => RollenartOk(sent[c], db)
    /\ pc[c] \in WritingSteps => Wrote(c)

DeletionState(d) ==
    /\ pc[d] = "collected" => view[d] = db /\ Settled
    /\ pc[d] = "announced" => known = {} /\ person /\ (unassigned <=> db = {})

SerialInv ==
    /\ Alone
    /\ RowsSound
    /\ overtaken = {}
    /\ Running = {} => Settled
    /\ \A c \in Calls : CallState(c)
    /\ \A d \in Deletions : DeletionState(d)

-----------------------------------------------------------------------------
LEMMA NobodyRuns == ASSUME MaxParallel = 1, Alone, MayStart PROVE Running = {}
<1> SUFFICES ASSUME NEW a \in Running PROVE FALSE
  OBVIOUS
<1>1. Running = {a}
  BY DEF Alone
<1>2. Cardinality(Running) = 1
  BY <1>1, FS_Singleton
<1> QED
  BY <1>2 DEF MayStart

\* Those who are not at work have nothing that the database could contradict.
LEMMA OthersKeep ==
    ASSUME NEW b \in Calls, b \notin Running, CallState(b),
           pc'[b] = pc[b], old'[b] = old[b], deleted'[b] = deleted[b], created'[b] = created[b],
           inserting'[b] = inserting[b]
    PROVE  CallState(b)'
BY DEF Running, CallState, Steps, Early, Reading, WritingSteps

LEMMA OthersDelete ==
    ASSUME NEW d \in Deletions, d \notin Running, pc'[d] = pc[d]
    PROVE  DeletionState(d)'
BY DEF Running, DeletionState

\* A call c makes a step: what is left to show is about c and the database.
LEMMA CallStep ==
    ASSUME TypeOK, SerialInv, NEW c \in Calls, c \in Running,
           \A b \in Calls \cup Deletions : b # c => pc'[b] = pc[b],
           \A b \in Calls : b # c => /\ old'[b] = old[b]
                                     /\ deleted'[b] = deleted[b] /\ created'[b] = created[b]
                                     /\ inserting'[b] = inserting[b],
           overtaken' = overtaken,
           RowsSound', CallState(c)', c \notin Running' => Settled'
    PROVE  SerialInv'
<1>1. \A b \in Running : b = c
  BY DEF SerialInv, Alone
<1>2. Running' \subseteq {c}
  BY <1>1 DEF Running
<1>3. Alone'
  BY <1>2 DEF Alone
<1>4. \A b \in Calls : CallState(b)'
  <2> SUFFICES ASSUME NEW b \in Calls, b # c PROVE CallState(b)'
    OBVIOUS
  <2> QED
    BY <1>1, OthersKeep DEF SerialInv
<1>5. \A d \in Deletions : DeletionState(d)'
  BY <1>1, OthersDelete, CallsAssumption
<1>6. Running' = {} => Settled'
  OBVIOUS
<1> QED
  BY <1>3, <1>4, <1>5, <1>6 DEF SerialInv

\* Nothing but one call's own variables change.
LEMMA ReadStep ==
    ASSUME TypeOK, SerialInv, NEW c \in Calls, c \in Running,
           UNCHANGED <<db, person, unassigned, clock, known>>,
           \A b \in Calls \cup Deletions : b # c => pc'[b] = pc[b],
           \A b \in Calls : b # c => /\ old'[b] = old[b]
                                     /\ deleted'[b] = deleted[b] /\ created'[b] = created[b]
                                     /\ inserting'[b] = inserting[b],
           overtaken' = overtaken,
           CallState(c)', c \notin Running' => Settled
    PROVE  SerialInv'
<1>1. RowsSound' /\ (Settled => Settled')
  BY DEF SerialInv, RowsSound, Settled
<1> QED
  BY <1>1, CallStep

\* Preparing and starting.
LEMMA PrepareSerial ==
    ASSUME TypeOK, SerialInv, NEW c \in Calls, Prepare(c) PROVE SerialInv'
<1>1. /\ pc[c] = "idle" /\ pc'[c] = "prepared"
      /\ \A b \in Calls \cup Deletions : b # c => pc'[b] = pc[b] /\ view'[b] = view[b]
      /\ UNCHANGED <<db, person, unassigned, clock, known, asOf, sent, old, todo,
                     existing, deleted, created, inserting, after, dateSeen>>
  BY DEF Prepare, TypeOK
<1>2. Running' = Running
  BY <1>1, CallsAssumption DEF Running
<1>3. RowsSound' /\ (Settled => Settled')
  BY <1>1 DEF SerialInv, RowsSound, Settled
<1>4. \A b \in Calls : CallState(b)'
  <2>1. CallState(c)'
    BY <1>1 DEF SerialInv, CallState, Steps, Early, Reading, WritingSteps
  <2>2. ASSUME NEW b \in Calls, b # c PROVE CallState(b)'
    <3>1. Wrote(b) => Wrote(b)'
      BY <1>1, <2>2 DEF Wrote
    <3> QED
      BY <1>1, <1>3, <2>2, <3>1 DEF SerialInv, CallState, Steps, Early, Reading, WritingSteps
  <2> QED
    BY <2>1, <2>2
<1>5. \A d \in Deletions : DeletionState(d)'
  BY <1>1, <1>3, CallsAssumption DEF SerialInv, DeletionState
<1>6. ~RowIsUnderWay
  <2> SUFFICES ASSUME NEW e \in Calls, NEW row \in inserting[e], NEW shown \in db
               PROVE  ~(shown.stamp >= row.stamp)
    BY DEF RowIsUnderWay
  <2>1. Wrote(e)
    BY DEF SerialInv, CallState, WritingSteps
  <2>2. row \in Row /\ shown \in Row
    BY DEF TypeOK
  <2> QED
    BY <2>1, <2>2 DEF Wrote, Row
<1>7. overtaken' = {}
  BY <1>6 DEF Prepare, SerialInv
<1> QED
  BY <1>2, <1>3, <1>4, <1>5, <1>7 DEF SerialInv, Alone

LEMMA BeginSerial ==
    ASSUME Serial, TypeOK, SerialInv, NEW c \in Calls, NEW ks, Begin(c, ks) PROVE SerialInv'
<1>1. Running = {}
  BY NobodyRuns DEF Serial, SerialInv, Begin
<1>2. /\ pc[c] = "prepared" /\ pc'[c] = "reading"
      /\ \A b \in Calls \cup Deletions : b # c => pc'[b] = pc[b]
      /\ UNCHANGED <<db, person, unassigned, clock, known, view, old,
                     existing, deleted, created, inserting, overtaken, after, dateSeen>>
  BY DEF Begin, TypeOK
<1>3. Running' = {c}
  BY <1>1, <1>2, CallsAssumption DEF Running
<1>4. RowsSound' /\ Settled'
  BY <1>1, <1>2 DEF SerialInv, RowsSound, Settled
<1>5. \A b \in Calls : CallState(b)'
  <2>1. CallState(c)'
    BY <1>2, <1>4 DEF SerialInv, CallState, Steps, Early, Reading, WritingSteps
  <2> QED
    BY <1>1, <1>2, <2>1, OthersKeep DEF SerialInv
<1>6. \A d \in Deletions : DeletionState(d)'
  BY <1>1, <1>2, OthersDelete, CallsAssumption
<1> QED
  BY <1>2, <1>3, <1>4, <1>5, <1>6 DEF SerialInv, Alone

\* The steps that read.
LEMMA ReadingSerial ==
    ASSUME TypeOK, SerialInv, NEW c \in Calls,
           FindSent(c) \/ ReadExisting(c) \/ CheckSpecifications(c)
    PROVE  SerialInv'
<1>1. /\ pc[c] \in {"reading", "read"} /\ c \in Running
      /\ UNCHANGED <<db, person, unassigned, clock, known, deleted, created, inserting, overtaken>>
      /\ \A b \in Calls \cup Deletions : b # c => pc'[b] = pc[b]
      /\ \A b \in Calls : b # c => old'[b] = old[b]
  BY DEF FindSent, ReadExisting, CheckSpecifications, Running, TypeOK
<1>2. CallState(c) /\ Settled
  BY <1>1 DEF SerialInv, CallState, Reading
<1>3. Settled'
  BY <1>1, <1>2 DEF Settled
<1>4. CallState(c)'
  <2>1. CASE FindSent(c)
    BY <1>1, <1>2, <1>3, <2>1 DEF FindSent, CallState, Steps, Early, Reading, WritingSteps, TypeOK
  <2>2. CASE ReadExisting(c)
    BY <1>1, <1>2, <1>3, <2>2 DEF ReadExisting, CallState, Steps, Early, Reading, WritingSteps, TypeOK
  <2>3. CASE CheckSpecifications(c)
    <3>1. /\ pc[c] = "read" /\ pc'[c] \in {"checked", "rejected"}
          /\ pc'[c] = "checked" => RollenartOk(sent[c], db)
          /\ UNCHANGED <<sent, old, existing>>
      BY <2>3 DEF CheckSpecifications, TypeOK
    <3>2. RollenartOk(sent[c], db) => RollenartOk(sent[c], db)'
      BY <1>1, <3>1 DEF RollenartOk
    <3> QED
      BY <1>1, <1>2, <1>3, <3>1, <3>2 DEF CallState, Steps, Early, Reading, WritingSteps
  <2> QED
    BY <2>1, <2>2, <2>3
<1> QED
  BY <1>1, <1>2, <1>4, ReadStep

\* What is sent passes checkRollenart() with what is there, so both are of one
\* Rollenart.
LEMMA OneArt ==
    ASSUME NEW rows, NEW ks, SameArt(rows), RollenartOk(ks, rows) PROVE SameArt(rows \cup ks)
BY DEF SameArt, RollenartOk

LEMMA ValidateSerial ==
    ASSUME TypeOK, SerialInv, NEW c \in Calls, Validate(c) PROVE SerialInv'
<1>1. /\ pc[c] = "checked" /\ c \in Running
      /\ UNCHANGED <<db, person, unassigned, clock, known, old, existing, sent, deleted, created, inserting, overtaken>>
      /\ \A b \in Calls \cup Deletions : b # c => pc'[b] = pc[b]
      /\ dateSeen'[c] = unassigned
      /\ pc'[c] \in {"delete", "rejected"}
      /\ pc'[c] = "delete" =>
             person /\ todo'[c] = {row \in existing[c] : KontextOf(row) \notin sent[c]}
  BY DEF Validate, Running, TypeOK
<1>2. /\ CallState(c) /\ Settled /\ existing[c] = db /\ old[c] \subseteq db
      /\ RollenartOk(sent[c], db) /\ deleted[c] = {} /\ created[c] = {} /\ RowsSound
      /\ inserting[c] = {}
  BY <1>1 DEF SerialInv, CallState, Reading, Early
<1>3. pc'[c] = "delete" => Wrote(c)'
  <2> SUFFICES ASSUME pc'[c] = "delete" PROVE Wrote(c)'
    OBVIOUS
  <2>1. SameArt(db \cup sent[c])
    BY <1>2, OneArt DEF RowsSound
  <2>2. KontexteOf(todo'[c]) \cap sent[c] = {}
    BY <1>1 DEF KontexteOf
  <2>3. KontexteOf({}) = {}
    BY DEF KontexteOf
  <2> QED
    BY <1>1, <1>2, <2>1, <2>2, <2>3 DEF Wrote, Settled, RowsSound
<1>4. CallState(c)'
  BY <1>1, <1>2, <1>3 DEF CallState, Steps, Early, Reading, WritingSteps
<1> QED
  BY <1>1, <1>2, <1>4, ReadStep

-----------------------------------------------------------------------------
\* The steps that write.
LEMMA DeleteOneSerial ==
    ASSUME TypeOK, SerialInv, NEW c \in Calls, DeleteOne(c) PROVE SerialInv'
<1>1. PICK row \in todo[c] :
        /\ todo' = [todo EXCEPT ![c] = @ \ {row}]
        /\ \/ /\ db' = {r \in db : r.key # row.key}
              /\ deleted' = [deleted EXCEPT ![c] = @ \cup {row}]
           \/ UNCHANGED <<db, deleted>>
  BY DEF DeleteOne
<1>2. /\ pc[c] = "delete" /\ c \in Running
      /\ UNCHANGED <<person, unassigned, clock, known, pc, sent, old, existing, created, inserting, overtaken,
                     after, dateSeen>>
  BY DEF DeleteOne, Running, TypeOK
<1>3. Wrote(c) /\ RowsSound /\ inserting[c] = {}
  BY <1>2 DEF SerialInv, CallState, WritingSteps
<1>4. row \in existing[c] /\ KontextOf(row) \notin sent[c]
  BY <1>1, <1>2, <1>3 DEF Wrote, KontexteOf
<1>5. todo'[c] = todo[c] \ {row}
  BY <1>1 DEF TypeOK
<1>6. KontexteOf(todo'[c]) \cap sent[c] = {}
  BY <1>2, <1>3, <1>5 DEF Wrote, KontexteOf
<1>7. /\ db' \subseteq db /\ db' = existing[c] \ deleted'[c]
      /\ deleted'[c] \subseteq existing[c] /\ KontexteOf(deleted'[c]) \cap sent[c] = {}
  <2>1. CASE UNCHANGED <<db, deleted>>
    BY <1>2, <1>3, <2>1 DEF Wrote
  <2>2. CASE /\ db' = {r \in db : r.key # row.key}
             /\ deleted' = [deleted EXCEPT ![c] = @ \cup {row}]
    <3>1. deleted'[c] = deleted[c] \cup {row}
      BY <2>2 DEF TypeOK
    <3>2. db = existing[c] \ deleted[c]
      BY <1>2, <1>3 DEF Wrote
    <3>3. \A r \in existing[c] : r.key = row.key <=> r = row
      BY <1>3, <1>4 DEF Wrote, Keyed
    <3>4. KontexteOf(deleted'[c]) \cap sent[c] = {}
      BY <1>3, <1>4, <3>1 DEF Wrote, KontexteOf
    <3> QED
      BY <1>3, <1>4, <2>2, <3>1, <3>2, <3>3, <3>4 DEF Wrote
  <2> QED
    BY <1>1, <2>1, <2>2
<1>8. RowsSound'
  BY <1>2, <1>3, <1>7 DEF RowsSound, Keyed, SameArt
<1>9. Wrote(c)'
  BY <1>2, <1>3, <1>5, <1>6, <1>7 DEF Wrote
<1>10. CallState(c)'
  BY <1>2, <1>3, <1>9 DEF CallState, Steps, Early, Reading, WritingSteps
<1>11. \A b \in Calls : b # c => deleted'[b] = deleted[b]
  BY <1>1 DEF TypeOK
<1>12. c \in Running'
  BY <1>2 DEF Running
<1> QED
  BY <1>2, <1>8, <1>10, <1>11, <1>12, CallStep

LEMMA DeleteDoneSerial ==
    ASSUME TypeOK, SerialInv, NEW c \in Calls, DeleteDone(c) PROVE SerialInv'
<1>1. /\ pc[c] = "delete" /\ pc'[c] = "add" /\ c \in Running /\ c \in Running'
      /\ UNCHANGED <<db, person, unassigned, clock, known, sent, old, existing, deleted,
                     created, inserting, overtaken, after, dateSeen>>
      /\ \A b \in Calls \cup Deletions : b # c => pc'[b] = pc[b]
      /\ todo'[c] = sent[c] \ KontexteOf(existing[c])
  BY DEF DeleteDone, Running, TypeOK
<1>2. Wrote(c)
  BY <1>1 DEF SerialInv, CallState, WritingSteps
<1>3. Wrote(c)'
  BY <1>1, <1>2 DEF Wrote
<1>4. CallState(c)'
  BY <1>1, <1>3 DEF CallState, Steps, Early, Reading, WritingSteps
<1> QED
  BY <1>1, <1>4, ReadStep

LEMMA AddOneSerial ==
    ASSUME TypeOK, SerialInv, NEW c \in Calls, AddOne(c) PROVE SerialInv'
<1>1. PICK k \in todo[c] :
        /\ todo' = [todo EXCEPT ![c] = @ \ {k}]
        /\ StampRow(c, k) \/ UpdateRow(c, k) \/ NotUpdated(c, k)
  BY DEF AddOne
<1>2. /\ pc[c] = "add" /\ c \in Running /\ inserting[c] = {}
      /\ UNCHANGED <<db, person, unassigned, known, pc, sent, old, existing, deleted,
                     after, dateSeen, overtaken>>
      /\ todo'[c] = todo[c] \ {k}
  BY <1>1 DEF AddOne, Running, TypeOK
<1>3. Wrote(c) /\ RowsSound
  BY <1>2 DEF SerialInv, CallState, WritingSteps
<1>4. k \in sent[c] /\ k \notin KontexteOf(existing[c]) /\ k \in Kontext
  BY <1>1, <1>2, <1>3 DEF Wrote, TypeOK
<1>5. k \notin KontexteOf(old[c])
  BY <1>3, <1>4 DEF Wrote, KontexteOf
<1>6. clock \in Nat
  BY DEF TypeOK
<1> DEFINE new == [key |-> k.key, frist |-> k.frist, stamp |-> clock + 1]
<1>7. /\ inserting'[c] = {new} /\ clock' = clock + 1 /\ created' = created
      /\ \A b \in Calls : b # c => inserting'[b] = inserting[b]
  BY <1>1, <1>5 DEF StampRow, UpdateRow, NotUpdated, KontexteOf, TypeOK
<1>8. KontextOf(new) = k /\ new.stamp = clock + 1
  BY <1>4 DEF KontextOf, Kontext
<1> HIDE DEF new
<1>9. \A row \in db \cup existing[c] : row.stamp <= clock /\ row.stamp \in Nat
  BY <1>3 DEF Wrote, RowsSound, TypeOK, Row
<1>10. \A row \in db \cup existing[c] : row.stamp <= clock' /\ new.stamp > row.stamp
  BY <1>6, <1>7, <1>8, <1>9
<1>11. KontextOf(new) \in sent[c] /\ new.stamp <= clock'
  BY <1>4, <1>6, <1>7, <1>8
<1>12. RowsSound'
  BY <1>2, <1>3, <1>10 DEF RowsSound
<1>13. Wrote(c)'
  BY <1>2, <1>3, <1>7, <1>10, <1>11 DEF Wrote
<1>14. CallState(c)' /\ c \in Running'
  BY <1>2, <1>13 DEF CallState, Steps, Early, Reading, WritingSteps, Running
<1> QED
  BY <1>2, <1>7, <1>12, <1>14, CallStep

LEMMA InsertOneSerial ==
    ASSUME TypeOK, SerialInv, NEW c \in Calls, InsertOne(c) PROVE SerialInv'
<1>1. PICK new \in inserting[c] : InsertRow(c, new) \/ NotInserted(c, new)
  BY DEF InsertOne
<1>2. /\ pc[c] = "add" /\ c \in Running /\ inserting'[c] = {}
      /\ \A b \in Calls : b # c => inserting'[b] = inserting[b]
      /\ UNCHANGED <<person, unassigned, clock, known, pc, sent, old, todo, existing, deleted,
                     after, dateSeen, overtaken>>
  BY DEF InsertOne, Running, TypeOK
<1>3. Wrote(c) /\ RowsSound
  BY <1>2 DEF SerialInv, CallState, WritingSteps
<1>4. CASE NotInserted(c, new)
  <2>1. UNCHANGED <<db, created>>
    BY <1>4 DEF NotInserted
  <2>2. Wrote(c)'
    BY <1>2, <1>3, <2>1 DEF Wrote
  <2>3. CallState(c)' /\ c \in Running'
    BY <1>2, <2>2 DEF CallState, Steps, Early, Reading, WritingSteps, Running
  <2> QED
    BY <1>2, <2>1, <2>3, ReadStep
<1>5. CASE InsertRow(c, new)
  <2>1. /\ MayInsert(new) /\ db' = db \cup {new}
        /\ created'[c] = created[c] \cup {new}
        /\ \A b \in Calls : b # c => created'[b] = created[b]
    BY <1>5 DEF InsertRow, TypeOK
  <2>2. /\ KontextOf(new) \in sent[c] /\ new.stamp <= clock
        /\ \A row \in db \cup existing[c] : new.stamp > row.stamp
    BY <1>3 DEF Wrote
  <2>3. new \in Row /\ KontextOf(new).key = new.key
    BY DEF TypeOK, KontextOf
  <2>4. KontexteOf(created'[c]) \subseteq sent[c]
    BY <1>3, <2>1, <2>2 DEF Wrote, KontexteOf
  <2>5. \A row \in db : RollenartOf[new.key] = RollenartOf[row.key]
    <3> SUFFICES ASSUME NEW row \in db PROVE RollenartOf[new.key] = RollenartOf[row.key]
      OBVIOUS
    <3>1. row \in existing[c] \/ (row \in created[c] /\ KontextOf(row) \in sent[c])
      BY <1>3 DEF Wrote, KontexteOf
    <3>2. KontextOf(row).key = row.key
      BY DEF KontextOf
    <3>3. \A x, y \in existing[c] \cup sent[c] : RollenartOf[x.key] = RollenartOf[y.key]
      BY <1>3 DEF Wrote, SameArt
    <3> QED
      BY <2>2, <2>3, <3>1, <3>2, <3>3
  <2>6. RowsSound'
    <3>1. Keyed(db')
      BY <1>3, <2>1 DEF RowsSound, Keyed, MayInsert
    <3>2. SameArt(db')
      BY <1>3, <2>1, <2>5 DEF RowsSound, SameArt
    <3>3. \A row \in db' : row.stamp <= clock'
      BY <1>2, <1>3, <2>1, <2>2 DEF RowsSound
    <3> QED
      BY <1>2, <2>1, <3>1, <3>2, <3>3 DEF RowsSound, MayInsert
  <2>7. new \notin existing[c]
    BY <2>2, <2>3 DEF Row
  <2>8. \A row \in existing[c], n \in created'[c] : n.stamp > row.stamp
    BY <1>3, <2>1, <2>2 DEF Wrote
  <2>9. db' = (existing[c] \ deleted[c]) \cup created'[c]
    BY <1>3, <2>1 DEF Wrote
  <2>10. Wrote(c)'
    BY <1>2, <1>3, <2>4, <2>8, <2>9 DEF Wrote
  <2>11. CallState(c)' /\ c \in Running'
    BY <1>2, <2>10 DEF CallState, Steps, Early, Reading, WritingSteps, Running
  <2> QED
    BY <1>2, <2>1, <2>6, <2>11, CallStep
<1> QED
  BY <1>1, <1>4, <1>5

\* The end of update(): the date is that of the person as it is.
LEMMA EndSerial ==
    ASSUME Serial, TypeOK, SerialInv, NEW c \in Calls,
           Reread(c) \/ LoadPerson(c) \/ SavePerson(c) \/ SaveFails(c)
    PROVE  SerialInv'
<1>1. /\ pc[c] \in {"add", "reread", "loaded"} /\ c \in Running
      /\ UNCHANGED <<db, person, clock, known, sent, old, existing, deleted, created, inserting, overtaken>>
      /\ \A b \in Calls \cup Deletions : b # c => pc'[b] = pc[b]
  BY DEF Reread, LoadPerson, SavePerson, SaveFails, Save, Running, TypeOK
<1>2. Wrote(c) /\ RowsSound /\ person
  BY <1>1 DEF SerialInv, CallState, WritingSteps, Wrote
<1>3. ~SaveFails(c)
  BY <1>2 DEF SaveFails, Serial
<1>4. /\ pc'[c] \in {"reread", "loaded", "saved"} /\ c \in Running'
      /\ after'[c] = db
      /\ pc'[c] = "saved" => (unassigned' <=> db = {})
      /\ pc'[c] # "saved" => UNCHANGED unassigned /\ dateSeen'[c] = unassigned
  <2>1. CASE Reread(c)
    BY <1>2, <2>1 DEF Reread, Running, TypeOK, Wrote
  <2>2. CASE LoadPerson(c)
    BY <1>2, <2>2 DEF LoadPerson, Running, TypeOK, Wrote
  <2>3. CASE SavePerson(c)
    <3>1. /\ pc[c] = "loaded" /\ pc'[c] = "saved" /\ UNCHANGED after /\ after[c] = db
          /\ dateSeen[c] = unassigned
      BY <1>2, <2>3 DEF SavePerson, Save, TypeOK, Wrote
    <3>2. unassigned' <=> db = {}
      BY <1>2, <2>3, <3>1 DEF SavePerson, Save, TypeOK
    <3> QED
      BY <3>1, <3>2 DEF Running
  <2> QED
    BY <1>3, <2>1, <2>2, <2>3
<1>5. Wrote(c)'
  BY <1>1, <1>2, <1>4 DEF Wrote
<1>6. CallState(c)'
  <2>1. inserting[c] = {}
    BY <1>1 DEF Reread, LoadPerson, SavePerson, SaveFails, SerialInv, CallState
  <2> QED
    BY <1>1, <1>4, <1>5, <2>1 DEF CallState, Steps, Early, Reading, WritingSteps
<1>7. RowsSound'
  BY <1>1, <1>2 DEF RowsSound
<1> QED
  BY <1>1, <1>4, <1>6, <1>7, CallStep

\* What an event makes of the keys that were known is the keys of the table.
LEMMA EventTellsAll ==
    ASSUME NEW c, Wrote(c), RowsSound
    PROVE  (known \ KeysOf(deleted[c])) \cup KeysOf(created[c]) = KeysOf(db)
<1>1. \A r \in existing[c] : r.key \in KeysOf(deleted[c]) => r \in deleted[c]
  BY DEF Wrote, KeysOf, Keyed
<1>2. known = {r.key : r \in existing[c]} /\ db = (existing[c] \ deleted[c]) \cup created[c]
  BY DEF Wrote, KeysOf
<1>3. \A r \in deleted[c] : r.key \in KeysOf(deleted[c])
  BY DEF KeysOf
<1> QED
  BY <1>1, <1>2, <1>3 DEF KeysOf

LEMMA PublishSerial ==
    ASSUME TypeOK, SerialInv, NEW c \in Calls, PublishEvent(c) \/ PublishNothing(c)
    PROVE  SerialInv'
<1>1. /\ pc[c] = "saved" /\ c \in Running
      /\ UNCHANGED <<db, person, unassigned, clock, sent, old, existing, deleted, created, inserting, overtaken>>
      /\ \A b \in Calls \cup Deletions : b # c => pc'[b] = pc[b]
  BY DEF PublishEvent, PublishNothing, Running, TypeOK
<1>2. Wrote(c) /\ RowsSound /\ inserting[c] = {}
  BY <1>1 DEF SerialInv, CallState, WritingSteps
<1>3. PublishEvent(c)
  BY <1>2 DEF PublishNothing, Wrote
<1>4. pc'[c] = "published" /\ known' = KeysOf(db)
  BY <1>2, <1>3, EventTellsAll DEF PublishEvent, TypeOK
<1>5. Settled' /\ RowsSound'
  BY <1>1, <1>2, <1>4 DEF Settled, RowsSound, Wrote
<1>6. CallState(c)'
  BY <1>1, <1>2, <1>4 DEF CallState, Steps, Early, Reading, WritingSteps
<1> QED
  BY <1>1, <1>5, <1>6, CallStep

-----------------------------------------------------------------------------
\* deletePerson().
LEMMA CollectSerial ==
    ASSUME Serial, TypeOK, SerialInv, NEW d \in Deletions, Collect(d) PROVE SerialInv'
<1>1. Running = {}
  BY NobodyRuns DEF Serial, SerialInv, Collect
<1>2. /\ pc[d] = "idle" /\ pc'[d] = "collected" /\ view'[d] = db
      /\ \A b \in Calls \cup Deletions : b # d => pc'[b] = pc[b]
      /\ UNCHANGED <<db, person, unassigned, clock, known, old, existing, deleted, created, inserting, overtaken>>
  BY DEF Collect, TypeOK
<1>3. Running' = {d}
  BY <1>1, <1>2, CallsAssumption DEF Running
<1>4. RowsSound' /\ Settled'
  BY <1>1, <1>2 DEF SerialInv, RowsSound, Settled
<1>5. \A b \in Calls : CallState(b)'
  BY <1>1, <1>2, OthersKeep, CallsAssumption DEF SerialInv
<1>6. \A e \in Deletions : DeletionState(e)'
  BY <1>1, <1>2, <1>4, OthersDelete DEF DeletionState
<1> QED
  BY <1>2, <1>3, <1>4, <1>5, <1>6 DEF SerialInv, Alone

LEMMA DeletePersonSerial ==
    ASSUME Serial, TypeOK, SerialInv, NEW d \in Deletions, DeletePerson(d) PROVE SerialInv'
<1>1. /\ pc[d] \in {"collected", "announced"} /\ d \in Running
      /\ \A b \in Calls \cup Deletions : b # d => pc'[b] = pc[b]
      /\ UNCHANGED <<unassigned, clock, view, old, existing, deleted, created, inserting, overtaken>>
  BY DEF DeletePerson, Announce, DeletionRejected, RemovePerson, RemovePersonFails, Running, TypeOK
<1>2. \A b \in Running : b = d
  BY <1>1 DEF SerialInv, Alone
<1>3. Running' \subseteq {d}
  BY <1>1, <1>2 DEF Running
<1>4. \A b \in Calls : CallState(b)'
  BY <1>1, <1>2, OthersKeep, CallsAssumption DEF SerialInv
<1>5. \A e \in Deletions : e # d => DeletionState(e)'
  BY <1>1, <1>2, OthersDelete
<1>6. DeletionState(d) /\ RowsSound
  BY DEF SerialInv
<1>7. RowsSound' /\ DeletionState(d)' /\ (d \notin Running' => Settled')
  <2>1. CASE Announce(d)
    <3>1. /\ pc[d] = "collected" /\ pc'[d] = "announced" /\ person
          /\ UNCHANGED <<db, person>> /\ known' = known \ KeysOf(view[d])
      BY <2>1 DEF Announce, TypeOK
    <3>2. known' = {} /\ d \in Running'
      BY <1>6, <3>1 DEF DeletionState, Settled, Running
    <3> QED
      BY <1>1, <1>6, <3>1, <3>2 DEF DeletionState, RowsSound, Settled
  <2>2. CASE DeletionRejected(d)
    <3>1. /\ pc[d] = "collected" /\ pc'[d] = "rejected" /\ UNCHANGED <<db, person, known>>
      BY <2>2 DEF DeletionRejected, TypeOK
    <3> QED
      BY <1>1, <1>6, <3>1 DEF DeletionState, RowsSound, Settled
  <2>3. CASE RemovePerson(d)
    <3>1. /\ pc[d] = "announced" /\ pc'[d] = "gone" /\ db' = {} /\ ~person' /\ UNCHANGED known
      BY <2>3 DEF RemovePerson, TypeOK
    <3>2. Settled'
      BY <1>6, <3>1 DEF DeletionState, Settled, KeysOf
    <3> QED
      BY <3>1, <3>2 DEF DeletionState, RowsSound, Keyed, SameArt
  <2>4. ~RemovePersonFails(d)
    BY DEF RemovePersonFails, Serial
  <2> QED
    BY <2>1, <2>2, <2>3, <2>4 DEF DeletePerson
<1> QED
  BY <1>1, <1>3, <1>4, <1>5, <1>7 DEF SerialInv, Alone

-----------------------------------------------------------------------------
LEMMA SerialInit == Init => SerialInv
<1> SUFFICES ASSUME Init PROVE SerialInv
  OBVIOUS
<1>1. RowsSound /\ Settled
  <2>1. Keyed(db) /\ SameArt(db)
    BY DEF Init, Keyed, SameArt
  <2>2. \A row \in db : row.stamp = 1
    BY DEF Init
  <2>3. clock = 1 /\ person /\ known = KeysOf(db) /\ (unassigned <=> db = {})
    BY DEF Init
  <2> QED
    BY <2>1, <2>2, <2>3 DEF RowsSound, Settled
<1>2. \A c \in Calls : pc[c] = "idle" /\ CallState(c)
  BY DEF Init, CallState, Steps, Early, Reading, WritingSteps
<1>3. \A d \in Deletions : pc[d] = "idle" /\ DeletionState(d)
  BY DEF Init, DeletionState
<1>4. Running = {}
  BY <1>2, <1>3 DEF Running
<1> QED
  BY <1>1, <1>2, <1>3, <1>4 DEF Init, SerialInv, Alone

LEMMA SerialStep == ASSUME Serial, TypeOK, SerialInv, [Next]_vars PROVE SerialInv'
<1>1. ASSUME NEW c \in Calls, Submit(c) \/ SubmitCron(c) PROVE SerialInv'
  BY <1>1, BeginSerial DEF Submit, SubmitCron
<1>2. ASSUME NEW c \in Calls, Update(c) PROVE SerialInv'
  BY <1>2, ReadingSerial, ValidateSerial, DeleteOneSerial, DeleteDoneSerial, AddOneSerial,
     InsertOneSerial,
     EndSerial, PublishSerial DEF Update
<1>3. CASE UNCHANGED vars
  <2> USE <1>3 DEF vars, callVars
  <2>1. Alone' /\ RowsSound' /\ overtaken' = {} /\ (Running' = {} => Settled')
    BY DEF SerialInv, Alone, Running, RowsSound, Settled
  <2>2. ASSUME NEW c \in Calls PROVE CallState(c)'
    <3>1. Settled => Settled'
      BY DEF Settled
    <3>2. Wrote(c) => Wrote(c)'
      BY DEF Wrote
    <3> QED
      BY <3>1, <3>2 DEF SerialInv, CallState, RollenartOk
  <2>3. ASSUME NEW d \in Deletions PROVE DeletionState(d)'
    BY DEF SerialInv, DeletionState, Settled
  <2> QED
    BY <2>1, <2>2, <2>3 DEF SerialInv
<1> QED
  BY <1>1, <1>2, <1>3, PrepareSerial, CollectSerial, DeletePersonSerial DEF Next

\* With no call under way orgUnassignmentDate is set exactly if the person has no
\* Personenkontext, for any number of updates and deletions in turn.
THEOREM DateIsCorrect == ASSUME Serial PROVE Spec => []OrgUnassignmentDateCorrect
<1>1. TypeOK /\ SerialInv /\ [Next]_vars => SerialInv'
  BY SerialStep
<1>2. SerialInv => OrgUnassignmentDateCorrect
  BY DEF SerialInv, Settled, OrgUnassignmentDateCorrect, Quiescent
<1> QED
  BY <1>1, <1>2, SerialInit, TypeCorrect, PTL DEF Spec

\* The rows never mix Rollenarten, not even while a call is half done.
THEOREM OneRollenart == ASSUME Serial PROVE Spec => []SameRollenart
<1>1. TypeOK /\ SerialInv /\ [Next]_vars => SerialInv'
  BY SerialStep
<1>2. SerialInv => SameRollenart
  BY DEF SerialInv, RowsSound, SameArt, SameRollenart
<1> QED
  BY <1>1, <1>2, SerialInit, TypeCorrect, PTL DEF Spec

-----------------------------------------------------------------------------
(* The refinement.  The variables of the register, as the workflow has them: *)

Rows == IF Writing = {} THEN db ELSE UNION {existing[c] : c \in Writing}
Unassigned == IF Writing = {} THEN unassigned ELSE \E c \in Writing : existing[c] = {}
Announced == IF \E d \in Deletions : pc[d] = "announced" THEN KeysOf(db) ELSE known
Phase == [c \in Clients |-> PhaseOf(pc[c])]
Seen == [c \in Clients |-> view[c]]
Want == [c \in Clients |-> sent[c]]

LEMMA WhileWriting ==
    ASSUME SerialInv, NEW c \in Writing
    PROVE  /\ Writing = {c} /\ Wrote(c)
           /\ Rows = existing[c] /\ (Unassigned <=> existing[c] = {})
           /\ Announced = KeysOf(Rows)
<1>1. Writing \subseteq Running /\ \A d \in Deletions : pc[d] = "announced" => d \in Running
  BY DEF Writing, Running
<1>2. \A b \in Running : b = c
  BY <1>1 DEF SerialInv, Alone
<1>3. Writing = {c} /\ c \in Calls /\ pc[c] \in WritingSteps
  BY <1>1, <1>2 DEF Writing, WritingSteps
<1>4. Wrote(c)
  BY <1>3 DEF SerialInv, CallState
<1>5. Rows = existing[c] /\ (Unassigned <=> existing[c] = {})
  BY <1>3 DEF Rows, Unassigned
<1>6. ~\E d \in Deletions : pc[d] = "announced"
  BY <1>1, <1>2, <1>3, CallsAssumption DEF Writing
<1> QED
  BY <1>3, <1>4, <1>5, <1>6 DEF Announced, Wrote

LEMMA WhileNobodyWrites ==
    ASSUME TypeOK, SerialInv, Writing = {}
    PROVE  /\ Rows = db /\ (Unassigned <=> unassigned)
           /\ Announced = KeysOf(Rows)
<1>1. Rows = db /\ (Unassigned <=> unassigned)
  BY DEF Rows, Unassigned
<1>2. CASE \E d \in Deletions : pc[d] = "announced"
  BY <1>1, <1>2 DEF Announced
<1>3. CASE ~\E d \in Deletions : pc[d] = "announced"
  <2>1. Settled
    <3>1. CASE Running = {}
      BY <3>1 DEF SerialInv
    <3>2. CASE \E c \in Calls : c \in Running
      <4>1. PICK c \in Calls : c \in Running
        BY <3>2
      <4>2. CASE pc[c] \in Reading
        BY <4>2 DEF SerialInv, CallState
      <4>3. CASE pc[c] \notin Reading
        <5>1. pc[c] \in Steps
          BY DEF SerialInv, CallState
        <5>2. pc[c] \in {"idle", "prepared", "rejected", "failed", "unknown", "published"}
          BY <4>3, <5>1 DEF Steps, Reading, Writing
        <5> QED
          BY <4>1, <5>2, CallsAssumption DEF Running
      <4> QED
        BY <4>2, <4>3
    <3>3. CASE \E d \in Deletions : d \in Running
      BY <1>3, <3>3, CallsAssumption DEF Running, SerialInv, DeletionState
    <3> QED
      BY <3>1, <3>2, <3>3 DEF Running
  <2> QED
    BY <1>1, <1>3, <2>1 DEF Announced, Settled
<1> QED
  BY <1>1, <1>2, <1>3

\* The register as the mapped variables see it.
RegisterStep == Register!Next \/ UNCHANGED <<Rows, Announced, Unassigned, person, Phase, Seen, Want>>

LEMMA MappedVars ==
    /\ Register!vars = <<Rows, Announced, Unassigned, person, Phase, Seen, Want>>
    /\ Register!vars' = <<Rows, Announced, Unassigned, person, Phase, Seen, Want>>'
BY DEF Register!vars, Rows, Announced, Unassigned, Phase, Seen, Want

\* A step of a call in which the register shows nothing.
LEMMA Silent ==
    ASSUME TypeOK, TypeOK', SerialInv, SerialInv', NEW c \in Calls \cup Deletions,
           UNCHANGED <<person, Rows, sent>>, Unassigned' <=> Unassigned,
           Announced = KeysOf(Rows), Announced' = KeysOf(Rows'),
           \A b \in Clients : b # c => pc'[b] = pc[b],
           \A b \in Clients : view'[b] = view[b],
           c \in Clients => PhaseOf(pc'[c]) = PhaseOf(pc[c])
    PROVE  RegisterStep
<1>1. Phase' = Phase /\ Seen' = Seen /\ Want' = Want
  BY DEF Phase, Seen, Want
<1>2. Announced' = Announced
  OBVIOUS
<1>3. Unassigned' = Unassigned
  <2>1. Unassigned \in BOOLEAN /\ Unassigned' \in BOOLEAN
    BY DEF Unassigned, TypeOK
  <2> QED
    BY <2>1
<1> QED
  BY <1>1, <1>2, <1>3 DEF RegisterStep

LEMMA RefusedStep ==
    ASSUME TypeOK, TypeOK', SerialInv, SerialInv', NEW c \in Clients,
           UNCHANGED <<person, Rows, sent, view>>, Unassigned' <=> Unassigned,
           Announced = KeysOf(Rows), Announced' = KeysOf(Rows'),
           \A b \in Clients : b # c => pc'[b] = pc[b],
           PhaseOf(pc[c]) = "asked", PhaseOf(pc'[c]) = "done"
    PROVE  Register!Refuse(c)
<1>1. /\ Phase' = [Phase EXCEPT ![c] = "done"] /\ Phase[c] = "asked"
      /\ Seen' = Seen /\ Want' = Want
  BY DEF Phase, Seen, Want
<1>2. Announced' = Announced
  OBVIOUS
<1>3. Unassigned' = Unassigned
  <2>1. Unassigned \in BOOLEAN /\ Unassigned' \in BOOLEAN
    BY DEF Unassigned, TypeOK
  <2> QED
    BY <2>1
<1> QED
  BY <1>1, <1>2, <1>3 DEF Register!Refuse, Rows, Announced, Unassigned, Phase, Seen, Want

\* Rows and events agree in the register, in every state ...
Agrees == Announced = KeysOf(Rows)

LEMMA AgreesNow == TypeOK /\ SerialInv => Agrees
<1> SUFFICES ASSUME TypeOK, SerialInv PROVE Agrees
  OBVIOUS
<1>1. CASE Writing = {}
  BY <1>1, WhileNobodyWrites DEF Agrees
<1>2. CASE Writing # {}
  BY <1>2, WhileWriting DEF Agrees
<1> QED
  BY <1>1, <1>2

\* ... the next one included.
LEMMA AgreesNext == TypeOK' /\ SerialInv' => Agrees'
BY AgreesNow, PTL

LEMMA QuietKept ==
    ASSUME Writing = {}, Writing' = {}, UNCHANGED <<db, unassigned>>
    PROVE  Rows' = Rows /\ (Unassigned' <=> Unassigned)
BY DEF Rows, Unassigned

LEMMA WritingKept ==
    ASSUME NEW c, Writing = {c}, Writing' = {c}, existing'[c] = existing[c]
    PROVE  Rows' = Rows /\ (Unassigned' <=> Unassigned)
BY DEF Rows, Unassigned

\* Whoever runs is the only one who can be writing.
LEMMA OnlyOne ==
    ASSUME SerialInv, NEW c \in Running,
           \A b \in Calls \cup Deletions : b # c => pc'[b] = pc[b]
    PROVE  Writing \subseteq {c} /\ Writing' \subseteq {c}
<1>1. Writing \subseteq Running
  BY DEF Writing, Running
<1>2. Writing \subseteq {c}
  BY <1>1 DEF SerialInv, Alone
<1> QED
  BY <1>2 DEF Writing

LEMMA PrepareRefines ==
    ASSUME TypeOK, TypeOK', SerialInv, SerialInv', Calls = Clients,
           NEW c \in Clients, Prepare(c)
    PROVE  Register!See(c)
<1>1. /\ pc[c] = "idle" /\ pc'[c] = "prepared" /\ person
      /\ \A b \in Calls \cup Deletions : b # c => pc'[b] = pc[b] /\ view'[b] = view[b]
      /\ UNCHANGED <<db, person, unassigned, sent, existing>>
      /\ view'[c] = db
  BY DEF Prepare, TypeOK
<1>2. Writing' = Writing
  BY <1>1 DEF Writing
<1>3. Rows' = Rows /\ Unassigned' = Unassigned
  BY <1>1, <1>2 DEF Rows, Unassigned
<1>4. Announced' = Announced
  BY <1>3, AgreesNow, AgreesNext DEF Agrees, KeysOf
<1>5. /\ Phase[c] = "idle" /\ Phase' = [Phase EXCEPT ![c] = "seen"]
      /\ Seen' = [Seen EXCEPT ![c] = Seen'[c]] /\ Seen'[c] \subseteq Row /\ Want' = Want
  BY <1>1 DEF Phase, Seen, Want, PhaseOf, TypeOK
<1> QED
  BY <1>1, <1>3, <1>4, <1>5
     DEF Register!See, Rows, Announced, Unassigned, Phase, Seen, Want, Row

LEMMA SubmitRefines ==
    ASSUME TypeOK, TypeOK', SerialInv, SerialInv', Serial, Calls = Clients,
           NEW c \in Clients, Submit(c)
    PROVE  Register!Ask(c)
<1>1. PICK ks \in SUBSET Kontext : Begin(c, ks)
  BY DEF Submit
<1>2. /\ pc[c] = "prepared" /\ pc'[c] = "reading"
      /\ \A b \in Calls \cup Deletions : b # c => pc'[b] = pc[b]
      /\ UNCHANGED <<db, person, unassigned, view, existing>>
      /\ sent' = [sent EXCEPT ![c] = ks]
  BY <1>1 DEF Begin, TypeOK
<1>3. Writing' = Writing
  BY <1>2 DEF Writing
<1>4. Rows' = Rows /\ Unassigned' = Unassigned
  BY <1>2, <1>3 DEF Rows, Unassigned
<1>5. Announced' = Announced
  BY <1>4, AgreesNow, AgreesNext DEF Agrees, KeysOf
<1>6. /\ Phase[c] = "seen" /\ Phase' = [Phase EXCEPT ![c] = "asked"]
      /\ Want' = [Want EXCEPT ![c] = ks] /\ Seen' = Seen
  BY <1>2 DEF Phase, Seen, Want, PhaseOf, TypeOK
<1> QED
  BY <1>1, <1>2, <1>4, <1>5, <1>6
     DEF Register!Ask, Rows, Announced, Unassigned, Phase, Seen, Want, Kontext

\* The steps that read show nothing, or the refusal.
LEMMA ReadingRefines ==
    ASSUME TypeOK, TypeOK', SerialInv, SerialInv', Calls = Clients,
           NEW c \in Clients, FindSent(c) \/ ReadExisting(c) \/ CheckSpecifications(c)
    PROVE  RegisterStep
<1>1. /\ pc[c] \in {"reading", "read"} /\ pc'[c] \in {"reading", "read", "checked", "rejected"}
      /\ c \in Running
      /\ UNCHANGED <<db, person, unassigned, view, sent>>
      /\ \A b \in Calls \cup Deletions : b # c => pc'[b] = pc[b]
  BY DEF FindSent, ReadExisting, CheckSpecifications, Running, TypeOK
<1>2. Writing = {} /\ Writing' = {}
  BY <1>1, OnlyOne DEF Writing
<1>3. Rows' = Rows /\ (Unassigned' <=> Unassigned)
  BY <1>1, <1>2, QuietKept
<1>4. Announced = KeysOf(Rows) /\ Announced' = KeysOf(Rows')
  BY AgreesNow, AgreesNext DEF Agrees, KeysOf
<1>5. CASE pc'[c] = "rejected"
  <2>1. PhaseOf(pc[c]) = "asked" /\ PhaseOf(pc'[c]) = "done"
    BY <1>1, <1>5 DEF PhaseOf
  <2>2. Register!Refuse(c)
    BY <1>1, <1>3, <1>4, <2>1, RefusedStep
  <2> QED
    BY <2>2 DEF RegisterStep, Register!Next
<1>6. CASE pc'[c] # "rejected"
  <2>1. PhaseOf(pc'[c]) = PhaseOf(pc[c])
    BY <1>1, <1>6 DEF PhaseOf
  <2> QED
    BY <1>1, <1>3, <1>4, <2>1, Silent
<1> QED
  BY <1>5, <1>6

\* validate() refuses, or leaves the register to the call: what it found there.
LEMMA ValidateRefines ==
    ASSUME TypeOK, TypeOK', SerialInv, SerialInv', Calls = Clients,
           NEW c \in Clients, Validate(c)
    PROVE  RegisterStep
<1>1. /\ pc[c] = "checked" /\ pc'[c] \in {"delete", "rejected"} /\ c \in Running
      /\ UNCHANGED <<db, person, unassigned, view, sent, existing>>
      /\ pc'[c] = "delete" => person
      /\ \A b \in Calls \cup Deletions : b # c => pc'[b] = pc[b]
  BY DEF Validate, Running, TypeOK
<1>2. Writing = {} /\ Writing' \subseteq {c}
  BY <1>1, OnlyOne DEF Writing
<1>3. Announced = KeysOf(Rows) /\ Announced' = KeysOf(Rows')
  BY AgreesNow, AgreesNext DEF Agrees, KeysOf
<1>4. CASE pc'[c] = "rejected"
  <2>1. Writing' = {}
    BY <1>2, <1>4 DEF Writing
  <2>2. Rows' = Rows /\ (Unassigned' <=> Unassigned)
    BY <1>1, <1>2, <2>1, QuietKept
  <2>3. PhaseOf(pc[c]) = "asked" /\ PhaseOf(pc'[c]) = "done"
    BY <1>1, <1>4 DEF PhaseOf
  <2>4. Register!Refuse(c)
    BY <1>1, <1>3, <2>2, <2>3, RefusedStep
  <2> QED
    BY <2>4 DEF RegisterStep, Register!Next
<1>5. CASE pc'[c] = "delete"
  <2>1. Writing' = {c}
    BY <1>2, <1>5 DEF Writing
  <2>2. existing[c] = db /\ (unassigned <=> db = {})
    BY <1>1, <1>5 DEF SerialInv, CallState, Reading, Settled
  <2>3. Rows' = Rows /\ (Unassigned' <=> Unassigned)
    BY <1>1, <1>2, <2>1, <2>2 DEF Rows, Unassigned
  <2>4. PhaseOf(pc'[c]) = PhaseOf(pc[c])
    BY <1>1, <1>5 DEF PhaseOf
  <2> QED
    BY <1>1, <1>3, <2>3, <2>4, Silent
<1> QED
  BY <1>1, <1>4, <1>5

\* While it writes, the register keeps what the call found.
LEMMA WriteRefines ==
    ASSUME TypeOK, TypeOK', SerialInv, SerialInv', Calls = Clients, NEW c \in Clients,
           \/ DeleteOne(c) \/ DeleteDone(c) \/ AddOne(c) \/ InsertOne(c) \/ Reread(c)
           \/ LoadPerson(c) \/ SavePerson(c)
    PROVE  RegisterStep
<1>1. /\ pc[c] \in WritingSteps /\ pc'[c] \in WritingSteps /\ c \in Running
      /\ UNCHANGED <<person, view, sent, existing>>
      /\ \A b \in Calls \cup Deletions : b # c => pc'[b] = pc[b]
  BY DEF DeleteOne, DeleteDone, AddOne, InsertOne, Reread, LoadPerson, SavePerson, Save, Running, TypeOK,
         WritingSteps
<1>2. Writing = {c} /\ Writing' = {c}
  BY <1>1, OnlyOne DEF Writing, WritingSteps
<1>3. Rows' = Rows /\ (Unassigned' <=> Unassigned)
  BY <1>1, <1>2, WritingKept
<1>4. Announced = KeysOf(Rows) /\ Announced' = KeysOf(Rows')
  BY AgreesNow, AgreesNext DEF Agrees, KeysOf
<1>5. PhaseOf(pc'[c]) = PhaseOf(pc[c])
  BY <1>1 DEF PhaseOf, WritingSteps
<1> QED
  BY <1>1, <1>3, <1>4, <1>5, Silent

\* The event ends the call: the register takes what the call has made of it.
LEMMA PublishRefines ==
    ASSUME TypeOK, TypeOK', SerialInv, SerialInv', ValidatedSawAll, Calls = Clients,
           NEW c \in Clients, PublishEvent(c)
    PROVE  Register!Commit(c)
<1>1. /\ pc[c] = "saved" /\ pc'[c] = "published" /\ c \in Running
      /\ UNCHANGED <<db, person, unassigned, view, sent>>
      /\ \A b \in Calls \cup Deletions : b # c => pc'[b] = pc[b]
  BY DEF PublishEvent, Running, TypeOK
<1>2. c \in Writing /\ Writing' = {}
  BY <1>1, OnlyOne DEF Writing
<1>3. Rows = existing[c] /\ Wrote(c)
  BY <1>2, WhileWriting
<1>4. Rows' = db /\ (Unassigned' <=> unassigned)
  BY <1>1, <1>2 DEF Rows, Unassigned
<1>5. Announced' = KeysOf(Rows')
  BY AgreesNext DEF Agrees, KeysOf
<1>6. Unassigned' = (Rows' = {})
  <2>1. unassigned <=> db = {}
    BY <1>1, <1>3 DEF Wrote
  <2>2. Unassigned' \in BOOLEAN
    BY DEF Unassigned, TypeOK
  <2> QED
    BY <1>4, <2>1, <2>2
<1>7. Seen[c] = Rows
  BY <1>1, <1>3 DEF Seen, ValidatedSawAll, Validated, SerialInv
<1>8. /\ Phase[c] = "asked" /\ Phase' = [Phase EXCEPT ![c] = "done"]
      /\ Seen' = Seen /\ Want' = Want /\ Want[c] = sent[c]
  BY <1>1 DEF Phase, Seen, Want, PhaseOf
<1>9. /\ Register!KontexteOf(Rows \ Rows') \cap Want[c] = {}
      /\ Register!KontexteOf(Rows' \ Rows) \subseteq Want[c]
      /\ \A r \in Rows' \ Rows, s \in Rows : r.stamp > s.stamp
  <2>1. Rows \ Rows' \subseteq deleted[c] /\ Rows' \ Rows \subseteq created[c]
    BY <1>3, <1>4 DEF Wrote
  <2>2. \A row \in deleted[c] : KontextOf(row) \notin sent[c]
    BY <1>3 DEF Wrote, KontexteOf
  <2>3. \A row \in created[c] : KontextOf(row) \in sent[c]
    BY <1>3 DEF Wrote, KontexteOf
  <2>4. \A r \in created[c], s \in existing[c] : r.stamp > s.stamp
    BY <1>3 DEF Wrote
  <2>5. Register!KontexteOf(Rows \ Rows') \cap Want[c] = {}
    BY <1>8, <2>1, <2>2 DEF Register!KontexteOf, KontextOf
  <2>6. Register!KontexteOf(Rows' \ Rows) \subseteq Want[c]
    BY <1>8, <2>1, <2>3 DEF Register!KontexteOf, KontextOf
  <2> QED
    BY <1>3, <2>1, <2>4, <2>5, <2>6
<1>10. \A r, s \in Rows' : r.key = s.key => r = s
  BY <1>4 DEF SerialInv, RowsSound, Keyed
<1>11. person /\ person' = person
  BY <1>1, <1>3 DEF Wrote
<1> QED
  BY <1>5, <1>6, <1>7, <1>8, <1>9, <1>10, <1>11
     DEF Register!Commit, Rows, Announced, Unassigned, Phase, Seen, Want, KeysOf, Register!KeysOf

\* A deletion takes effect when the person's row goes.
LEMMA DeletionRefines ==
    ASSUME TypeOK, TypeOK', SerialInv, SerialInv', Serial, Calls = Clients,
           NEW d \in Deletions, Collect(d) \/ DeletePerson(d)
    PROVE  RegisterStep
<1>1. ~RemovePersonFails(d)
  BY DEF RemovePersonFails, Serial
<1>2. /\ UNCHANGED <<unassigned, sent>>
      /\ \A b \in Calls : pc'[b] = pc[b] /\ view'[b] = view[b] /\ existing'[b] = existing[b]
      /\ \A b \in Clients : b # d => pc'[b] = pc[b]
      /\ d \notin Clients
  BY <1>1, CallsAssumption
     DEF Collect, DeletePerson, Announce, DeletionRejected, RemovePerson, TypeOK
<1>3. Announced = KeysOf(Rows) /\ Announced' = KeysOf(Rows')
  BY AgreesNow, AgreesNext DEF Agrees, KeysOf
<1>4. CASE Collect(d) \/ Announce(d) \/ DeletionRejected(d)
  <2>1. UNCHANGED <<db, person>> /\ Writing' = Writing
    BY <1>2, <1>4 DEF Collect, Announce, DeletionRejected, Writing
  <2>2. \A c \in Writing : existing'[c] = existing[c]
    BY <1>2 DEF Writing
  <2>3. Rows' = Rows /\ (Unassigned' <=> Unassigned)
    <3>1. CASE Writing = {}
      BY <1>2, <2>1, <3>1, QuietKept
    <3>2. CASE Writing # {}
      <4>1. PICK c \in Writing : TRUE
        BY <3>2
      <4>2. Writing = {c} /\ Writing' = {c}
        BY <2>1, <4>1, WhileWriting
      <4> QED
        BY <2>2, <4>1, <4>2, WritingKept
    <3> QED
      BY <3>1, <3>2
  <2> QED
    BY <1>2, <1>3, <2>1, <2>3, Silent
<1>5. CASE RemovePerson(d)
  <2>1. pc[d] = "announced" /\ d \in Running /\ person' = FALSE /\ db' = {}
    BY <1>5 DEF RemovePerson, Running
  <2>2. person
    BY <2>1 DEF SerialInv, DeletionState
  <2>3. Writing = {}
    <3> SUFFICES ASSUME NEW c \in Writing PROVE FALSE
      OBVIOUS
    <3> QED
      BY <2>1, CallsAssumption DEF SerialInv, Alone, Writing, Running
  <2>4. Writing' = {}
    BY <1>2, <2>3 DEF Writing
  <2>5. Rows' = {} /\ Announced' = {} /\ (Unassigned' <=> Unassigned)
    BY <1>2, <1>3, <2>1, <2>3, <2>4 DEF Rows, Unassigned, KeysOf
  <2>6. Unassigned' = Unassigned
    <3>1. Unassigned \in BOOLEAN /\ Unassigned' \in BOOLEAN
      BY DEF Unassigned, TypeOK
    <3> QED
      BY <2>5, <3>1
  <2>7. Phase' = Phase /\ Seen' = Seen /\ Want' = Want
    BY <1>2 DEF Phase, Seen, Want
  <2>8. Register!Remove
    BY <2>1, <2>2, <2>5, <2>6, <2>7
       DEF Register!Remove, Rows, Announced, Unassigned, Phase, Seen, Want
  <2> QED
    BY <2>8 DEF RegisterStep, Register!Next
<1> QED
  BY <1>1, <1>4, <1>5 DEF DeletePerson

LEMMA InitRefines == ASSUME Init PROVE Register!Init
<1>1. Writing = {} /\ ~\E d \in Deletions : pc[d] = "announced"
  BY DEF Init, Writing
<1>2. Rows = db /\ Unassigned = unassigned /\ Announced = known
  BY <1>1 DEF Rows, Unassigned, Announced
<1>3. /\ Phase = [c \in Clients |-> "idle"]
      /\ Seen = [c \in Clients |-> {}] /\ Want = [c \in Clients |-> {}]
  BY DEF Init, Phase, Seen, Want, PhaseOf, Calls
<1> QED
  BY <1>2, <1>3
     DEF Init, Register!Init, Rows, Announced, Unassigned, Phase, Seen, Want, KeysOf, Register!KeysOf

LEMMA StepRefines ==
    ASSUME Serial, CronCalls = {}, TypeOK, TypeOK', SerialInv, SerialInv', ValidatedSawAll,
           [Next]_vars
    PROVE  RegisterStep
<1>1. Calls = Clients
  BY DEF Calls
<1>2. CASE UNCHANGED vars
  BY <1>2 DEF vars, callVars, RegisterStep, Rows, Announced, Unassigned, Phase, Seen, Want, Writing,
              KeysOf
<1>3. ASSUME NEW c \in Calls, Prepare(c) \/ Submit(c) \/ SubmitCron(c) \/ Update(c)
      PROVE  RegisterStep
  <2>1. c \in Clients /\ ~SubmitCron(c) /\ ~SaveFails(c) /\ ~PublishNothing(c)
    <3>1. c \in Clients /\ ~SubmitCron(c)
      BY <1>1 DEF SubmitCron
    <3>2. pc[c] \in WritingSteps => person
      BY DEF SerialInv, CallState, Wrote
    <3> QED
      BY <3>1, <3>2 DEF SaveFails, PublishNothing, Serial, WritingSteps
  <2>2. CASE Prepare(c)
    BY <1>1, <2>1, <2>2, PrepareRefines DEF RegisterStep, Register!Next
  <2>3. CASE Submit(c)
    BY <1>1, <2>1, <2>3, SubmitRefines DEF RegisterStep, Register!Next
  <2>4. CASE Validate(c)
    BY <1>1, <2>1, <2>4, ValidateRefines
  <2>5. CASE PublishEvent(c)
    BY <1>1, <2>1, <2>5, PublishRefines DEF RegisterStep, Register!Next
  <2>6. CASE FindSent(c) \/ ReadExisting(c) \/ CheckSpecifications(c)
    BY <1>1, <2>1, <2>6, ReadingRefines
  <2>7. CASE \/ DeleteOne(c) \/ DeleteDone(c) \/ AddOne(c) \/ InsertOne(c) \/ Reread(c)
             \/ LoadPerson(c) \/ SavePerson(c)
    BY <1>1, <2>1, <2>7, WriteRefines
  <2> QED
    BY <1>3, <2>1, <2>2, <2>3, <2>4, <2>5, <2>6, <2>7 DEF Update
<1>4. ASSUME NEW d \in Deletions, Collect(d) \/ DeletePerson(d) PROVE RegisterStep
  BY <1>1, <1>4, DeletionRefines
<1> QED
  BY <1>2, <1>3, <1>4 DEF Next

\* Updates for administrators and deletions of the person, one at a time, are
\* steps of the register, however many there are and however old the pages are
\* that they start from.
THEOREM SerialImplementsRegister ==
    ASSUME Serial, CronCalls = {} PROVE Spec => RefinesRegister
<1>1. TypeOK /\ SerialInv /\ [Next]_vars => SerialInv'
  BY SerialStep
<1>2. TypeOK /\ TypeOK' /\ SerialInv /\ SerialInv' /\ ValidatedSawAll /\ [Next]_vars
        => [Register!Next]_(Register!vars)
  BY StepRefines, MappedVars DEF RegisterStep
<1> QED
  BY <1>1, <1>2, SerialInit, InitRefines, TypeCorrect, ValidatedCallsSawAll, PTL
     DEF Spec, RefinesRegister, Register!Spec
=============================================================================
