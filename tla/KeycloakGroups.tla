--------------------------- MODULE KeycloakGroups ---------------------------
(***************************************************************************)
(* The groups of one person in Keycloak.  A service provider is created    *)
(* with a group and a realm role; the handler of its event creates both    *)
(* and gives the role to the group.  An update of the person's             *)
(* Personenkontexte starts one task for every Rolle that is new and one    *)
(* for every Rolle that is gone, all at once; each reads the Rollen and    *)
(* the person's groups before it writes.  Nobody looks at their results.   *)
(***************************************************************************)
EXTENDS Naturals, FiniteSets

CONSTANTS
    Rollen,
    Groups,         \* names of groups
    Roles,          \* names of realm roles; a provider names one beside its group
    RealmRoles,     \* those that the realm was set up with
    Kontexte,       \* the Personenkontexte that the person may have
    Contains,       \* pairs of names of which the first contains the second
    MaxEvents,      \* bound: updates, created providers and changed Rollen
    MaxFailures     \* bound: calls to Keycloak that fail

ASSUME GroupsAssumption ==
    /\ "provider" \notin Rollen
    /\ \A k \in Kontexte : k.rolle \in Rollen
    /\ RealmRoles \subseteq Roles
    /\ Contains \subseteq Groups \X Groups
    /\ \A g \in Groups : <<g, g>> \in Contains
    /\ MaxEvents \in Nat /\ MaxFailures \in Nat

VARIABLES
    kontexte,   \* the person's rows
    serves,     \* the groups of the service providers of each Rolle
    asked,      \* the group and the role of each event so far, as pairs
    groups,     \* the groups in Keycloak
    roles,      \* the realm roles in Keycloak
    mapped,     \* the roles that groups have, as pairs
    member,     \* the person's groups
    work,       \* the tasks of the handlers, by event and Rolle
    events, failures,   \* counters of the bounds
    sound       \* history: nothing happened that the handlers do not follow

keycloakVars == <<kontexte, serves, asked, groups, roles, mapped, member, work,
          events, failures, sound>>
db == <<kontexte, serves, asked>>
realm == <<groups, roles, mapped>>

\* Every event has a task per Rolle, or one that creates the group.
Tasks == (1 .. MaxEvents) \X (Rollen \cup {"provider"})
Idle == [pc |-> "idle"]
UnderWay(t) == work[t] # Idle
Calm == \A t \in Tasks : t[2] \in Rollen => ~UnderWay(t)

RollenOf(rows) == {k.rolle : k \in rows}
Gives(rollen) == UNION {serves[r] : r \in rollen}
Due == Gives(RollenOf(kontexte)) \cap groups

Asked(g) == \E r \in Roles : <<g, r>> \in asked
HasRole(g) == \E r \in Roles : <<g, r>> \in mapped

-----------------------------------------------------------------------------
(* Events.                                                                 *)

Happen == events < MaxEvents /\ events' = events + 1 /\ UNCHANGED failures

Task(op, rolle, others) ==
    [pc |-> "rolle", op |-> op, rolle |-> rolle, others |-> others, names |-> {}]

\* Mutant: a Rolle that moves to another school is treated as gone.
MutantTasksOf(before, after) ==
    LET new == RollenOf(after \ before)
        gone == RollenOf(before \ after)
        others == RollenOf(after) \ new
    IN  [r \in Rollen |->
            CASE r \in gone -> Task("remove", r, others)
              [] r \in new \ gone -> Task("assign", r, others)
              [] OTHER -> Idle]

\* handlePersonenkontextUpdatedEvent(): the current Rollen are those that are
\* not new, a Rolle that is both new and gone is left alone.
TasksOf(before, after) ==
    LET new == RollenOf(after \ before)
        gone == RollenOf(before \ after)
        others == RollenOf(after) \ new
    IN  [r \in Rollen |->
            CASE r \in new \ gone -> Task("assign", r, others)
              [] r \in gone \ new -> Task("remove", r, others)
              [] OTHER -> Idle]

\* A Rolle that goes gives a group that one of the new Personenkontexte gives too:
\* the task that removes does not know of the new ones.
Exchanged(before, after) ==
    LET new == RollenOf(after \ before)
    IN  Gives(new) \cap Gives(RollenOf(before \ after) \ new) # {}

Update ==
    \E after \in SUBSET Kontexte :
        /\ after # kontexte
        /\ Happen
        /\ kontexte' = after
        /\ LET started == TasksOf(kontexte, after)
           IN  work' = [t \in Tasks |->
                   IF t[1] = events + 1 /\ t[2] \in Rollen THEN started[t[2]] ELSE work[t]]
        /\ sound' = (sound /\ Calm /\ ~Exchanged(kontexte, after))
        /\ UNCHANGED <<serves, asked, realm, member>>

\* ServiceProviderRepo.create() publishes GroupAndRoleCreatedEvent if the provider
\* has both a group and a role; without either it only adds a row.
CreateProvider ==
    \E g \in Groups, r \in Roles :
        /\ Happen
        /\ asked' = asked \cup {<<g, r>>}
        /\ work' = [work EXCEPT ![<<events + 1, "provider">>] =
               [pc |-> "find", op |-> "create", name |-> g, role |-> r]]
        /\ UNCHANGED <<kontexte, serves, realm, member, sound>>

\* Rollen give other groups: no handler looks at the groups of the persons.
Serve(given) ==
    /\ given # serves
    /\ Happen
    /\ serves' = given
    /\ sound' = (sound /\ Calm /\ \A r \in RollenOf(kontexte) : given[r] = serves[r])
    /\ UNCHANGED <<kontexte, asked, realm, member, work>>

\* A Rolle gets other service providers.
ChangeRolle ==
    \E rolle \in Rollen, given \in SUBSET Groups : Serve([serves EXCEPT ![rolle] = given])

\* PATCH: a provider of some Rollen gets another group, or its first one, and no
\* event tells of it; another provider of a Rolle may still give the former.
ChangeProvider ==
    \E served \in SUBSET Rollen, former \in {{}} \cup {{g} : g \in Groups}, g \in Groups :
        /\ \A r \in served : former \subseteq serves[r]
        /\ \E kept \in SUBSET served :
              Serve([r \in Rollen |->
                  IF r \notin served THEN serves[r]
                  ELSE {g} \cup IF r \in kept THEN serves[r] ELSE serves[r] \ former])

-----------------------------------------------------------------------------
(* The tasks.                                                              *)

At(t, pc) == UnderWay(t) /\ work[t].pc = pc
Goto(t, pc) == work' = [work EXCEPT ![t].pc = pc]
End(t) == work' = [work EXCEPT ![t] = Idle]
Same == UNCHANGED <<db, events, failures>>

\* Whatever Keycloak refuses or does not answer ends the task.
Fail(t) ==
    /\ UnderWay(t) /\ work[t].pc \notin {"rolle", "others"}
    /\ failures < MaxFailures
    /\ failures' = failures + 1
    /\ End(t)
    /\ sound' = FALSE
    /\ UNCHANGED <<db, realm, member, events>>

\* createGroup() asks for names that contain that of the group.
FindGroup(t) ==
    /\ At(t, "find")
    /\ IF \E g \in groups : <<g, work[t].name>> \in Contains THEN End(t) ELSE Goto(t, "create")
    /\ Same
    /\ UNCHANGED <<realm, member, sound>>

CreateGroup(t) ==
    /\ At(t, "create")
    /\ LET g == work[t].name
       IN  IF g \in groups THEN End(t) /\ UNCHANGED <<groups, sound>>
           ELSE /\ groups' = groups \cup {g}
                /\ sound' = (sound /\ g \notin Gives(RollenOf(kontexte)))
                /\ Goto(t, "role")
    /\ Same
    /\ UNCHANGED <<roles, mapped, member>>

\* Mutant: the role is created and not given to the group.
MutantCreateRole(t) ==
    /\ At(t, "role")
    /\ End(t)
    /\ roles' = roles \cup {work[t].role}
    /\ Same
    /\ UNCHANGED <<groups, mapped, member, sound>>

\* createRole(): a role that exists, whichever group it is for, ends the handler.
CreateRole(t) ==
    /\ At(t, "role")
    /\ IF work[t].role \in roles THEN End(t) ELSE Goto(t, "map")
    /\ roles' = roles \cup {work[t].role}
    /\ Same
    /\ UNCHANGED <<groups, mapped, member, sound>>

AddRoleToGroup(t) ==
    /\ At(t, "map")
    /\ mapped' = mapped \cup {<<work[t].name, work[t].role>>}
    /\ End(t)
    /\ Same
    /\ UNCHANGED <<groups, roles, member, sound>>

\* fetchFilteredRolesDifference(): the groups of the Rolle, without those that
\* the current Rollen give.
ReadRolle(t) ==
    /\ At(t, "rolle")
    /\ work' = [work EXCEPT ![t].pc = "others", ![t].names = serves[work[t].rolle]]
    /\ Same
    /\ UNCHANGED <<realm, member, sound>>

\* Mutant: the groups that other Rollen give are not taken out.
MutantReadOthers(t) ==
    /\ At(t, "others")
    /\ Goto(t, "groups")
    /\ Same
    /\ UNCHANGED <<realm, member, sound>>

ReadOthers(t) ==
    /\ At(t, "others")
    /\ LET names == work[t].names \ Gives(work[t].others)
       IN  work' = [work EXCEPT ![t] =
               IF names = {} THEN Idle ELSE [@ EXCEPT !.pc = "groups", !.names = names]]
    /\ Same
    /\ UNCHANGED <<realm, member, sound>>

\* modifyRealmGroupsForUser(): of the names only those that Keycloak has, ...
FindGroups(t) ==
    /\ At(t, "groups")
    /\ LET names == work[t].names \cap groups
       IN  work' = [work EXCEPT ![t] =
               IF names = {} THEN Idle ELSE [@ EXCEPT !.pc = "list", !.names = names]]
    /\ Same
    /\ UNCHANGED <<realm, member, sound>>

\* ... and only those that the person is not in yet, or is still in ...
ListGroups(t) ==
    /\ At(t, "list")
    /\ LET names == IF work[t].op = "assign" THEN work[t].names \ member
                                             ELSE work[t].names \cap member
       IN  work' = [work EXCEPT ![t] =
               IF names = {} THEN Idle ELSE [@ EXCEPT !.pc = "write", !.names = names]]
    /\ Same
    /\ UNCHANGED <<realm, member, sound>>

\* ... are written, one after the other.
Write(t) ==
    /\ At(t, "write")
    /\ \E g \in work[t].names :
        /\ member' = IF work[t].op = "assign" THEN member \cup {g} ELSE member \ {g}
        /\ work' = [work EXCEPT ![t] =
               IF work[t].names = {g} THEN Idle
               ELSE [work[t] EXCEPT !.names = work[t].names \ {g}]]
    /\ Same
    /\ UNCHANGED <<realm, sound>>

Proceed(t) ==
    \/ FindGroup(t) \/ CreateGroup(t) \/ CreateRole(t) \/ AddRoleToGroup(t)
    \/ ReadRolle(t) \/ ReadOthers(t) \/ FindGroups(t) \/ ListGroups(t) \/ Write(t)

-----------------------------------------------------------------------------
\* The role that a provider named for the group was there already: the realm had
\* it, or another group was given it.
RoleElsewhere(g) ==
    \E r \in Roles :
        /\ <<g, r>> \in asked
        /\ r \in RealmRoles \/ \E h \in Groups \ {g} : <<h, r>> \in mapped

\* What is left of the events that asked for a group when all have been handled.
Served(g) ==
    IF g \in groups THEN HasRole(g) \/ RoleElsewhere(g)
    ELSE \E h \in groups : <<h, g>> \in Contains

\* Service providers there are, all of whose events have been handled.
KeycloakInit ==
    /\ kontexte \in SUBSET Kontexte
    /\ asked \in SUBSET (Groups \X Roles)
    /\ groups \in SUBSET {g \in Groups : Asked(g)}
    /\ mapped \in SUBSET {a \in asked : a[1] \in groups}
    /\ roles = RealmRoles \cup {a[2] : a \in mapped}
    /\ \A g \in Groups : Asked(g) => Served(g)
    /\ serves \in [Rollen -> SUBSET Groups]
    /\ member = Due
    /\ work = [t \in Tasks |-> Idle]
    /\ events = 0 /\ failures = 0
    /\ sound = TRUE

KeycloakNext ==
    \/ Update \/ CreateProvider \/ ChangeRolle \/ ChangeProvider
    \/ \E t \in Tasks : Proceed(t) \/ Fail(t)

KeycloakSpec == KeycloakInit /\ [][KeycloakNext]_keycloakVars

-----------------------------------------------------------------------------
(* Properties.                                                             *)

\* The variables keep their types; the person is only in groups that Keycloak has.
KeycloakTypeOK ==
    /\ kontexte \subseteq Kontexte
    /\ serves \in [Rollen -> SUBSET Groups] /\ asked \subseteq Groups \X Roles
    /\ groups \subseteq {g \in Groups : Asked(g)} /\ roles \subseteq Roles
    /\ mapped \subseteq asked \cap (groups \X roles)
    /\ member \subseteq groups
    /\ \A t \in Tasks : UnderWay(t) =>
        IF t[2] = "provider" THEN <<work[t].name, work[t].role>> \in asked
        ELSE work[t].rolle = t[2] /\ work[t].others \subseteq Rollen
    /\ events \in 0 .. MaxEvents /\ failures \in 0 .. MaxFailures
    /\ sound \in BOOLEAN

\* When the tasks of all updates have ended, the person is in exactly the groups
\* of their Rollen, provided that no two updates overlapped, no update exchanged
\* Rollen that give the same group, no call failed, and no Rolle or group
\* changed that the person already had.
GroupsFollow == Calm /\ sound => member = Due

\* Up to then the person is not out of a group, even for a moment, that they had
\* and are still to have.
DueStays == [][\A g \in member \ member' : sound' => g \notin Due]_keycloakVars

\* Providers of one group, or of one role, may be created at once: unless a call
\* failed, in the end the group is there and has a role, and otherwise a group whose
\* name contains its own is, or the role existed before, as that of another group.
ProviderServed ==
    (\A t \in Tasks : ~UnderWay(t)) /\ failures = 0 => \A g \in Groups : Asked(g) => Served(g)
=============================================================================
