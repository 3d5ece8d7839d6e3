-------------------------- MODULE ItslearningGroups --------------------------
(***************************************************************************)
(* Schools and Klassen as groups in itslearning.  The requests of Organi-  *)
(* sationRegister publish an event at their end; its handler goes on in    *)
(* the request's own context, reads what that has cached, and makes one    *)
(* call to itslearning, which may fail.                                    *)
(***************************************************************************)
EXTENDS OrganisationRegister

CONSTANT MaxFailures    \* bound: calls to itslearning that fail

\* Ids are UUIDs.
ASSUME GroupsAssumption ==
    /\ MaxFailures \in Nat
    /\ {"none", "ROOT_OEFFENTLICH"} \cap Ids = {}

VARIABLES
    groups,     \* the groups in itslearning: their parent and name
    failures,   \* calls that failed so far
    missed      \* history: schools of which itslearning was not told something

vars == <<orga, call, calls, raced, groups, failures, missed>>
itslearning == <<groups, failures>>

NoGroup == [parent |-> "none"]
Root == "ROOT_OEFFENTLICH"
Group == [parent : Ids \cup {Root}, name : Names]

\* Mutant: no handler for the renaming of a Klasse.
MutantHandleKlasse(r) ==
    /\ call[r] # Idle
    /\ call[r].op \in {"create", "rename"} /\ call[r].pc = "published"
    /\ IF call[r].its /\ call[r].op = "create" THEN Go(r, "send") ELSE Refuse(r)
    /\ UNCHANGED <<itslearning, missed>>

\* The handlers of KlasseCreated- and KlasseUpdatedEvent ask whether the school
\* has itslearning: the request has read it before.
HandleKlasse(r) ==
    /\ call[r] # Idle
    /\ call[r].op \in {"create", "rename"} /\ call[r].pc = "published"
    /\ IF call[r].its THEN Go(r, "send") ELSE Refuse(r)
    /\ UNCHANGED <<itslearning, missed>>

HandleDeleted(r) ==
    /\ At(r, "delete", "published")
    /\ Go(r, "send")
    /\ UNCHANGED <<itslearning, missed>>

\* The handler of SchuleItslearningEnabledEvent reads all Klassen; the groups it
\* will send are kept in the request.
HandleEnabled(r) ==
    /\ At(r, "enable", "published")
    /\ LET school == call[r].id
       IN  IF Zuordnung(orga[school].adm) = "ERSATZ" THEN Refuse(r)
           ELSE /\ call' = [call EXCEPT ![r].pc = "send", ![r].wish =
                       [k \in KlassenOf(school) \cup {school} |->
                          IF k = school THEN [parent |-> Root, name |-> call[r].row.name]
                          ELSE [parent |-> school, name |-> orga[k].name]]]
                /\ UNCHANGED <<orga, calls, raced>>
    /\ UNCHANGED <<itslearning, missed>>

\* What the call to itslearning changes.
Sent(r) ==
    CASE call[r].op = "enable" -> With(call[r].wish, groups)
      [] call[r].op = "delete" -> [groups EXCEPT ![call[r].id] = NoGroup]
      [] OTHER -> [groups EXCEPT ![call[r].id] =
             [parent |-> Wanted(r).adm, name |-> Wanted(r).name]]

Send(r) ==
    /\ call[r] # Idle /\ call[r].pc = "send"
    /\ Refuse(r)
    /\ \/ groups' = Sent(r) /\ UNCHANGED <<failures, missed>>
       \/ /\ failures < MaxFailures
          /\ failures' = failures + 1
          /\ missed' = missed \cup call[r].sites
          /\ UNCHANGED groups

\* A PUT publishes no event.
Told(r) ==
    missed' = IF call[r] # Idle /\ call[r].op = "put" /\ orga' # orga
              THEN missed \cup call[r].sites ELSE missed

Register(r) == Step(r) /\ Told(r) /\ UNCHANGED itslearning

GroupsInit ==
    /\ Init
    /\ groups = [id \in Ids |->
           IF IsSchool(id) /\ orga[id].its THEN [parent |-> Root, name |-> orga[id].name]
           ELSE IF IsKlasse(id) /\ orga[orga[id].adm].its
                THEN [parent |-> orga[id].adm, name |-> orga[id].name]
                ELSE NoGroup]
    /\ failures = 0
    /\ missed = {}

Next ==
    \E r \in Requests :
        Register(r) \/ HandleKlasse(r) \/ HandleDeleted(r) \/ HandleEnabled(r) \/ Send(r)

Spec == GroupsInit /\ [][Next]_vars

-----------------------------------------------------------------------------
(* Properties.                                                             *)

\* The variables keep their types: rows, requests with what they have read, and
\* the groups of itslearning.
TypeOK ==
    /\ \A id \in Ids : orga[id] \in Row \cup {Unborn, Deleted}
    /\ \A id \in Schools : IsSchool(id)
    /\ calls \in 0 .. MaxCalls
    /\ \A r \in Requests : Busy(r) =>
        /\ call[r].id \in Ids
        /\ call[r].op = "enable" \/ call[r].wish \in Wish
        /\ call[r].row \in Row \cup {Unborn, Deleted}
    /\ \A id \in Ids : groups[id] = NoGroup \/ groups[id] \in Group
    /\ failures \in 0 .. MaxFailures
    /\ raced \cup missed \subseteq Ids \cup {"kennung"}

\* Two Klassen of one school have the same name, or two schools the same Kennung,
\* only where requests have overlapped: the table has no such constraint.
NamesUniqueAlone ==
    \A a, b \in Ids :
        /\ IsKlasse(a) /\ IsKlasse(b) /\ a # b /\ orga[a].adm \notin raced
           => orga[a].adm # orga[b].adm \/ orga[a].name # orga[b].name
        /\ IsSchool(a) /\ IsSchool(b) /\ a # b /\ "kennung" \notin raced
           => orga[a].name # orga[b].name

\* A request that rewrites a row overwrites nothing it has not seen: the row is
\* the one it has read, and for a rename the one that the client's page showed.
UpdatesWhatItRead ==
    [][\A r \in Requests :
         Busy(r) /\ call[r].op \in {"rename", "move", "put"} /\ orga'[call[r].id] # orga[call[r].id]
         /\ call'[r] # call[r]
         => /\ orga[call[r].id] = call[r].row
            /\ call[r].op = "rename" => orga[call[r].id].version = call[r].page]_vars

\* setZugehoerigZu() leaves a school in its branch, whatever else is changed
\* between its check and its write.
MoveKeepsBranch ==
    [][\A r \in Requests :
         At(r, "move", "save") /\ orga' # orga /\ call'[r] # call[r]
         => Zuordnung(orga'[call[r].id].adm) = Zuordnung(orga'[call[r].id].zug)]_vars

\* Whether requests that concern the school are under way.
Quiet(school) == \A r \in Requests : Busy(r) => school \notin call[r].sites

\* Where no requests overlapped, no call failed and nothing was PUT, itslearning
\* has exactly the Klassen of every enabled public school, under their names.
MirrorAlone ==
    \A s \in Ids :
        /\ IsSchool(s) /\ Quiet(s) /\ s \notin raced \cup missed
        /\ orga[s].its /\ Zuordnung(orga[s].adm) = "OEFFENTLICH"
        => /\ groups[s].parent = Root /\ groups[s].name = orga[s].name
           /\ {k \in Ids : groups[k].parent = s} = KlassenOf(s)
           /\ \A k \in KlassenOf(s) : groups[k].name = orga[k].name
=============================================================================
