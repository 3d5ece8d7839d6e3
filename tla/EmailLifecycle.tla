--------------------------- MODULE EmailLifecycle ---------------------------
(***************************************************************************)
(* The addresses of teachers.  EmailEventHandler asks for an address and   *)
(* disables it, OxEventHandler has the mailbox created, changed and put    *)
(* into the groups of its schools, KeycloakEventHandler tells Keycloak,    *)
(* and EmailEventHandler enables the address at last.  They only talk by   *)
(* events, whose handlers run at the same time as their publisher.  A      *)
(* step is what happens between two of a handler's calls that matter.      *)
(***************************************************************************)
EXTENDS Integers, Sequences, FiniteSets, FiniteSetsExt, Functions, Bags

CONSTANTS
    Persons,
    Kontexte,       \* records [school, rolle]; the Rollen are of Rollenart LEHR
    MaxEvents,      \* bound: events from outside
    MaxFailures,    \* bound: calls that fail
    MaxOverlaps     \* bound: events that come while an earlier one is handled


VARIABLES
    db,         \* persons: their name, their Personenkontexte, whether they are gone
    serving,    \* the Rollen that have a service provider of the kategorie EMAIL
    emails,     \* the table email_address by id
    updated,    \* when each row was updated last
    ox,         \* the users of OX by their number: username, groups, primary address
    oxGroups,   \* the groups that OX has
    kc,         \* the username in the attribute ID_OX: a name, 0 without, -1 without user
    handlers,   \* a bag of the handlers under way
    events,     \* events so far
    failures,   \* calls that have failed so far
    overlaps,   \* events that have come too early
    twice       \* the persons whose first address was asked for by two schools

emailVars == <<db, serving, emails, updated, ox, oxGroups, kc,
               handlers, events, failures, overlaps, twice>>

OxSchools == {k.school : k \in Kontexte}
Rollen == {k.rolle : k \in Kontexte}
AddressStatus == {"ENABLED", "DISABLED", "REQUESTED", "FAILED"}
Nobody == "nobody"

ASSUME EmailAssumption ==
    /\ IsFiniteSet(Persons) /\ Nobody \notin Persons /\ IsFiniteSet(OxSchools)
    /\ MaxEvents \in Nat /\ MaxFailures \in Nat /\ MaxOverlaps \in Nat

NoRow == <<>>

table == <<emails, updated>>
Username(p) == <<p, db[p].name>>
Freed == <<Nobody, 0>>

-----------------------------------------------------------------------------
(* EmailRepo.  An address is a name, which all persons share, and a number. *)

RowsOf(p) == {i \in DOMAIN emails : emails[i].owner = p}
WithStatus(p, status) == {i \in RowsOf(p) : emails[i].status = status}
Newest(ids) == CHOOSE i \in ids : \A j \in ids : updated[j] <= updated[i]
Enabled(p) == WithStatus(p, "ENABLED") # {}
Requested(p) == emails[Newest(WithStatus(p, "REQUESTED"))]
IsRequested(p) == WithStatus(p, "REQUESTED") # {}
New == 0

\* getNextAvailableAddress()
FreeAddress(name) ==
    <<name, Min({n \in 0 .. Len(emails) :
                    \A i \in DOMAIN emails : emails[i].address # <<name, n>>})>>

\* Mutant: no unique key.
MutantViolates(row) == row.owner # Nobody /\ db[row.owner].gone

\* A row of a person who is gone violates the foreign key, a second row with
\* the same address the unique key.
Violates(row) ==
    \/ row.owner # Nobody /\ db[row.owner].gone
    \/ \E i \in DOMAIN emails : i # row.id /\ emails[i].address = row.address

\* persistAndFlush() writes the whole row, and sets updatedAt if it differs.
After(ids) == 1 + Max({0} \cup {updated[i] : i \in ids})
Write(row) ==
    \/ /\ row.id = New
       /\ emails' = Append(emails, [row EXCEPT !.id = Len(emails) + 1])
       /\ updated' = Append(updated, After(DOMAIN updated))
    \/ /\ row.id # New /\ row # emails[row.id]
       /\ emails' = [emails EXCEPT ![row.id] = row]
       /\ updated' = [updated EXCEPT ![row.id] = After(DOMAIN updated \ {row.id})]
    \/ /\ row.id # New /\ row = emails[row.id]
       /\ UNCHANGED table

MaySave(row) == row.status \in {"ENABLED", "REQUESTED"} => ~Enabled(row.owner)

NewRow(p, address, status) ==
    [id |-> New, address |-> address, owner |-> p, status |-> status, ox |-> 0]

\* The person's addresses as a request has loaded them, newest first, without
\* or with those that it has added since; getOxUserId() takes the first that
\* has not failed.
Loaded(p) == [i \in RowsOf(p) |-> updated[i]]
Collections(h) == {DOMAIN h.seen, DOMAIN h.seen \cup RowsOf(h.p)}
Place(h, i) == IF i \in DOMAIN h.seen THEN -h.seen[i] ELSE i
First(h, ids) == CHOOSE i \in ids : \A j \in ids : Place(h, i) <= Place(h, j)
OxUserId(h, ids) ==
    LET good == {i \in ids : emails[i].status # "FAILED"}
    IN  IF good = {} THEN 0 ELSE emails[First(h, good)].ox

\* getEnabledOrAlternativeEmailAddress()
MailOf(h, ids) ==
    LET enabled == {i \in ids : emails[i].status = "ENABLED"}
    IN  CASE enabled # {} -> emails[First(h, enabled)].address
          [] enabled = {} /\ ids # {} -> emails[First(h, ids)].address
          [] OTHER -> <<0, 0>>

-----------------------------------------------------------------------------
(* Events and handlers.                                                    *)

Handler(kind, p) ==
    [kind |-> kind, p |-> p, pc |-> "start", user |-> db[p].name, school |-> "",
     removed |-> {}, todo |-> {}, row |-> NoRow, ox |-> 0, mail |-> <<0, 0>>,
     seen |-> Loaded(p), after |-> ""]

\* The handler that an event of h starts, in the same request.
Sub(h, kind) ==
    [Handler(kind, h.p) EXCEPT !.user = h.user, !.school = h.school, !.ox = h.ox,
                               !.mail = h.mail, !.seen = h.seen]

\* The handler h has made a step; "next" are itself, unless it has ended, and
\* the handlers of what it has published.
Become(h, next) == handlers' = (handlers (-) SetToBag({h})) (+) SetToBag(next)
Goto(h, pc) == Become(h, {[h EXCEPT !.pc = pc]})
End(h) == Become(h, {})

Quiet == handlers = EmptyBag

Trouble ==
    /\ failures < MaxFailures
    /\ failures' = failures + 1
Fine == failures' = failures

Outside == <<db, serving, events, overlaps, twice>>
OxData == <<ox, oxGroups>>

-----------------------------------------------------------------------------
(* EmailEventHandler                                                       *)

ServingOf(kontexte) == {k \in kontexte : k.rolle \in serving}

\* The rest of the schools is dealt with one after the other.
NextSchool(h) ==
    IF h.todo = {} THEN {} ELSE {[h EXCEPT !.pc = "school", !.row = NoRow]}

\* handlePerson(): one of the Rollen that serve decides for which schools.
HandlePerson(h) ==
    LET kontexte == db[h.p].kontexte \ h.removed
        rolle(r) == {k.school : k \in {x \in kontexte : x.rolle = r}}
    IN  /\ h.kind = "person" /\ h.pc = "start"
        /\ \/ \E r \in {k.rolle : k \in ServingOf(kontexte)} :
                 /\ Become(h, {[h EXCEPT !.pc = "school", !.removed = {}, !.todo = rolle(r)]})
                 /\ twice' = IF RowsOf(h.p) = {} /\ Cardinality(rolle(r)) > 1
                             THEN twice \cup {h.p} ELSE twice
           \/ /\ ServingOf(kontexte) = {}
              /\ LET left == {i \in RowsOf(h.p) : emails[i].status # "DISABLED"}
                 IN  IF left = {} THEN End(h)
                     ELSE Become(h, {[h EXCEPT !.pc = "disable", !.removed = {},
                                !.todo = {[emails[i] EXCEPT !.status = "DISABLED"] : i \in left}]})
              /\ UNCHANGED twice
        /\ Fine
        /\ UNCHANGED <<db, serving, events, overlaps, table, OxData, kc>>

\* handlePersonWithoutEmailSPReference(): all at once, and the event at the end.
DisableOne(h) ==
    /\ h.kind = "person" /\ h.pc = "disable"
    /\ \E row \in h.todo :
           LET left == h.todo \ {row}
           IN  /\ IF Violates(row) THEN UNCHANGED table ELSE Write(row)
               /\ Become(h, CASE left # {} -> {[h EXCEPT !.todo = left]}
                              [] left = {} /\ db[h.p].gone -> {}
                              [] OTHER -> {Sub(h, "oxDisabled"), Sub(h, "kcDisabled")})
    /\ Fine
    /\ UNCHANGED <<Outside, OxData, kc>>

\* createOrEnableEmail(): the newest of the addresses that are ENABLED or
\* DISABLED decides.
CreateOrEnable(h) ==
    \E s \in h.todo :
        LET g == [h EXCEPT !.todo = @ \ {s}, !.school = s, !.after = "generated"]
            rows == RowsOf(h.p)
            usable == {i \in rows : emails[i].status \in {"ENABLED", "DISABLED"}}
            newest == emails[Newest(usable)]
            told == IF rows = {} THEN {} ELSE {Sub(g, "exists")}
        IN  /\ h.kind = "person" /\ h.pc = "school"
            /\ \/ /\ db[h.p].gone
                  /\ Become(h, NextSchool(g))
               \/ /\ ~db[h.p].gone /\ usable = {}
                  /\ Become(h, told \cup {[g EXCEPT !.pc = "address"]})
               \/ /\ ~db[h.p].gone /\ usable # {} /\ newest.status = "ENABLED"
                  /\ Become(h, told \cup NextSchool(g))
               \/ /\ ~db[h.p].gone /\ usable # {} /\ newest.status = "DISABLED"
                  /\ Become(h, told \cup {[g EXCEPT !.pc = "check",
                                     !.row = [newest EXCEPT !.status = "ENABLED"]]})
            /\ Fine
            /\ UNCHANGED <<Outside, table, OxData, kc>>

\* handleLdapPersonEntryRenamedEvent()
HandleRenamed(h) ==
    LET p == h.p
        old == WithStatus(p, "ENABLED")
    IN  /\ h.kind = "renamed" /\ h.pc = "start"
        /\ \/ \E k \in ServingOf(db[p].kontexte) :
                 \/ \E i \in old :
                        Become(h, {[h EXCEPT !.pc = "retire", !.school = k.school, !.after = "changed",
                                            !.row = [emails[i] EXCEPT !.status = "DISABLED"]]})
                 \/ /\ old = {}
                    /\ Become(h, {[h EXCEPT !.pc = "address", !.school = k.school,
                                            !.after = "generated"]})
           \/ /\ ServingOf(db[p].kontexte) = {}
              /\ IF WithStatus(p, "DISABLED") = {} THEN End(h)
                 ELSE Become(h, {[h EXCEPT !.pc = "address", !.after = "disabled"]})
        /\ Fine
        /\ UNCHANGED <<Outside, table, OxData, kc>>

Retire(h) ==
    /\ h.kind = "renamed" /\ h.pc = "retire"
    /\ IF Violates(h.row)
       THEN End(h) /\ UNCHANGED table
       ELSE Write(h.row) /\ Become(h, {[h EXCEPT !.pc = "address", !.row = NoRow]})
    /\ Fine
    /\ UNCHANGED <<Outside, OxData, kc>>

\* EmailFactory gives the next free address of the name, or fails: then a row
\* says so, in the place of an address.
ChooseAddress(h) ==
    /\ h.pc = "address"
    /\ \/ /\ db[h.p].gone
          /\ Become(h, NextSchool(h))
          /\ Fine /\ UNCHANGED table
       \/ /\ ~db[h.p].gone
          /\ Become(h, {[h EXCEPT !.pc = "check",
                           !.row = NewRow(h.p, FreeAddress(db[h.p].name), "REQUESTED")]})
          /\ Fine /\ UNCHANGED table
       \/ /\ ~db[h.p].gone
          /\ Write(NewRow(h.p, <<0, Len(emails)>>, "FAILED"))
          /\ Become(h, NextSchool(h))
          /\ Trouble
    /\ UNCHANGED <<Outside, OxData, kc>>

\* EmailRepo.save() first looks for an ENABLED address.
Check(h) ==
    /\ h.pc = "check"
    /\ CASE MaySave(h.row) -> Goto(h, "write")
         [] ~MaySave(h.row) /\ h.kind = "create" -> Goto(h, "failed")
         [] OTHER -> Become(h, NextSchool(h))
    /\ Fine
    /\ UNCHANGED <<Outside, table, OxData, kc>>

Published(h) ==
    CASE h.after = "generated" -> {Sub(h, "create")}
      [] h.after = "changed" -> {Sub(h, "change")}
      [] h.after = "disabled" -> {Sub(h, "changeDisabled")}
      [] OTHER -> {}

\* The save is what the event tells of.
Save(h) ==
    LET row == h.row
    IN  /\ h.pc = "write"
        /\ \/ /\ Violates(row)
              /\ End(h) /\ UNCHANGED table
           \/ /\ ~Violates(row)
              /\ Write(row)
              /\ Become(h, IF h.kind = "create" THEN {[h EXCEPT !.pc = "group"]}
                           ELSE NextSchool(h) \cup Published(h))
        /\ Fine
        /\ UNCHANGED <<Outside, OxData, kc>>

\* Mutant: the answer enables an address that is not REQUESTED any more.
MutantEnable(h) ==
    /\ h.kind = "metadata" /\ h.pc = "start"
    /\ LET rows == RowsOf(h.p)
           row == [emails[Newest(rows)] EXCEPT !.address = h.mail, !.status = "ENABLED", !.ox = h.ox]
       IN  IF rows = {} THEN End(h)
           ELSE Become(h, {[h EXCEPT !.pc = "check", !.row = row]})
    /\ Fine
    /\ UNCHANGED <<Outside, table, OxData, kc>>

\* handleOxMetadataInKeycloakChangedEvent()
Enable(h) ==
    /\ h.kind = "metadata" /\ h.pc = "start"
    /\ IF IsRequested(h.p)
       THEN Become(h, {[h EXCEPT !.pc = "check",
                !.row = [Requested(h.p) EXCEPT !.address = h.mail, !.status = "ENABLED", !.ox = h.ox]]})
       ELSE End(h)
    /\ Fine
    /\ UNCHANGED <<Outside, table, OxData, kc>>

\* handleDisabledOxUserChangedEvent()
EnableDisabled(h) ==
    /\ h.kind = "disabledOx" /\ h.pc = "start"
    /\ IF IsRequested(h.p)
       THEN Become(h, {[h EXCEPT !.pc = "write",
                !.row = [Requested(h.p) EXCEPT !.status = "DISABLED", !.ox = h.ox]]})
       ELSE End(h)
    /\ Fine
    /\ UNCHANGED <<Outside, table, OxData, kc>>

\* Mutant: the address of a person who is gone is not found.
MutantDeactivate(h) ==
    /\ h.kind = "deleted"
    /\ \/ \E i \in RowsOf(h.p) : /\ emails[i].address = h.mail
                        /\ Write([emails[i] EXCEPT !.status = "DISABLED"])
       \/ (\A i \in RowsOf(h.p) : emails[i].address # h.mail) /\ UNCHANGED table
    /\ End(h)
    /\ Fine
    /\ UNCHANGED <<Outside, OxData, kc>>

\* deactivateEmailAddress() reads and writes the row as it is.
Deactivate(h) ==
    /\ h.kind = "deleted"
    /\ \/ \E i \in DOMAIN emails : /\ emails[i].address = h.mail
                        /\ Write([emails[i] EXCEPT !.status = "DISABLED"])
       \/ (\A i \in DOMAIN emails : emails[i].address # h.mail) /\ UNCHANGED table
    /\ End(h)
    /\ Fine
    /\ UNCHANGED <<Outside, OxData, kc>>

-----------------------------------------------------------------------------
(* OxEventHandler and KeycloakEventHandler.  OX refuses a second user of a   *)
(* name and a second group of a school, and is asked one thing at a time.    *)

Taken(username) == \E i \in DOMAIN ox : ox[i].username = username

\* createOxUser() and changeOxUser() start from the newest REQUESTED address.
FindRequested(h) ==
    /\ h.kind \in {"create", "change", "changeDisabled"} /\ h.pc = "start"
    /\ \E rows \in Collections(h) :
           LET user == OxUserId(h, rows)
               goes == /\ ~db[h.p].gone /\ IsRequested(h.p)
                       /\ h.kind = "create" \/ user # 0
           IN  IF goes
               THEN Become(h, {[h EXCEPT !.row = Requested(h.p), !.user = db[h.p].name,
                       !.pc = IF h.kind = "create" THEN "exists" ELSE "user",
                       !.ox = IF h.kind = "create" THEN 0 ELSE user]})
               ELSE End(h)
    /\ Fine
    /\ UNCHANGED <<Outside, table, OxData, kc>>

ExistsUser(h) ==
    /\ h.pc = "exists"
    /\ \/ Taken(<<h.p, h.user>>) /\ End(h) /\ Fine
       \/ ~Taken(<<h.p, h.user>>) /\ Goto(h, "user") /\ Fine
       \/ Taken(<<h.p, h.user>>) /\ Goto(h, "user") /\ Trouble
    /\ UNCHANGED <<Outside, table, OxData, kc>>

Oxuser(h) == [username |-> <<h.p, h.user>>, groups |-> {}, primary |-> h.row.address]

\* A call that fails may have been carried out.
CreateUser(h) ==
    LET taken == Taken(<<h.p, h.user>>)
        new == Len(ox) + 1
    IN  /\ h.kind = "create" /\ h.pc = "user"
        /\ \/ /\ ~taken /\ ox' = Append(ox, Oxuser(h))
              /\ Become(h, {[h EXCEPT !.pc = "check", !.ox = new, !.row.ox = new]})
              /\ Fine
           \/ taken /\ UNCHANGED ox /\ Goto(h, "failed") /\ Fine
           \/ ~taken /\ ox' \in {ox, Append(ox, Oxuser(h))} /\ Goto(h, "failed") /\ Trouble
        /\ UNCHANGED <<Outside, table, oxGroups, kc>>

ChangeUser(h) ==
    LET name == <<h.p, h.user>>
        taken == \E i \in DOMAIN ox \ {h.ox} : ox[i].username = name
        changed == [ox EXCEPT ![h.ox].username = name, ![h.ox].primary = h.row.address]
        told == [h EXCEPT !.mail = h.row.address]
    IN  /\ h.kind \in {"change", "changeDisabled"} /\ h.pc = "user"
        /\ \/ /\ ~taken /\ ox' = changed
              /\ Become(h, {Sub(told, IF h.kind = "change" THEN "kcChanged" ELSE "disabledOx")})
              /\ Fine
           \/ taken /\ UNCHANGED ox /\ Goto(h, "failed") /\ Fine
           \/ ~taken /\ ox' \in {ox, changed} /\ Goto(h, "failed") /\ Trouble
        /\ UNCHANGED <<Outside, table, oxGroups, kc>>

\* handleEmailAddressAlreadyExistsEvent()
AlreadyExists(h) ==
    /\ h.kind = "exists" /\ h.pc = "start"
    /\ \E rows \in Collections(h) :
           IF db[h.p].gone \/ OxUserId(h, rows) = 0 THEN End(h)
           ELSE Become(h, {[h EXCEPT !.pc = "group", !.ox = OxUserId(h, rows),
                                     !.mail = MailOf(h, rows), !.user = db[h.p].name]})
    /\ Fine
    /\ UNCHANGED <<Outside, table, OxData, kc>>

\* What goes wrong makes the address FAILED if the user is new.
Gives(h) == IF h.kind = "create" THEN Goto(h, "failed") ELSE End(h)

\* getExistingOxGroupByNameOrCreateOxGroup()
FindGroup(h) ==
    /\ h.pc = "group"
    /\ \/ h.school \in oxGroups /\ Goto(h, "add") /\ Fine
       \/ h.school \notin oxGroups /\ Goto(h, "createGroup") /\ Fine
       \/ Gives(h) /\ Trouble
    /\ UNCHANGED <<Outside, table, OxData, kc>>

CreateGroup(h) ==
    /\ h.pc = "createGroup"
    /\ \/ h.school \notin oxGroups /\ Goto(h, "add") /\ Fine
       \/ h.school \in oxGroups /\ Gives(h) /\ Fine
       \/ h.school \notin oxGroups /\ Gives(h) /\ Trouble
    /\ oxGroups' = oxGroups \cup {h.school}
    /\ UNCHANGED <<Outside, table, ox, kc>>

\* OX may refuse a member that the group has already.
AddMember(h) ==
    LET added == [ox EXCEPT ![h.ox].groups = @ \cup {h.school}]
        mail == IF h.kind = "create" THEN h.row.address ELSE h.mail
    IN  /\ h.pc = "add"
        /\ \/ ox' = added /\ Become(h, {Sub([h EXCEPT !.mail = mail], "kcChanged")}) /\ Fine
           \/ h.school \in ox[h.ox].groups /\ UNCHANGED ox /\ Gives(h) /\ Fine
           \/ ox' \in {ox, added} /\ Gives(h) /\ Trouble
        /\ UNCHANGED <<Outside, table, oxGroups, kc>>

MarkFailed(h) ==
    LET row == [h.row EXCEPT !.status = "FAILED"]
    IN  /\ h.pc = "failed"
        /\ IF Violates(row) THEN UNCHANGED table ELSE Write(row)
        /\ End(h)
        /\ Fine
        /\ UNCHANGED <<Outside, OxData, kc>>

\* The user leaves the groups one by one; a failure is logged.
RemoveMember(h) ==
    /\ h.pc = "leave"
    /\ \E s \in h.todo :
           LET left == h.todo \ {s}
               done == [ox EXCEPT ![h.ox].groups = @ \ {s}]
               next == CASE left # {} -> {[h EXCEPT !.todo = left]}
                         [] left = {} /\ h.kind = "oxDeleted" -> {[h EXCEPT !.todo = {}, !.pc = "free"]}
                         [] OTHER -> {}
           IN  \/ /\ h.kind = "oxUpdated" /\ s \notin oxGroups
                  /\ End(h) /\ UNCHANGED ox /\ Fine
               \/ /\ h.kind # "oxUpdated" \/ s \in oxGroups
                  /\ Become(h, next)
                  /\ \/ ox' = done /\ Fine
                     \/ ox' \in {ox, done} /\ Trouble
    /\ UNCHANGED <<Outside, table, oxGroups, kc>>

\* handlePersonenkontextUpdatedEvent(): the schools of the Kontexte removed.
LeaveRemoved(h) ==
    /\ h.kind = "oxUpdated" /\ h.pc = "start"
    /\ \E rows \in Collections(h) :
           IF db[h.p].gone \/ OxUserId(h, rows) = 0 \/ h.removed = {} THEN End(h)
           ELSE Become(h, {[h EXCEPT !.pc = "leave", !.ox = OxUserId(h, rows), !.removed = {},
                                     !.todo = {k.school : k \in h.removed}]})
    /\ Fine
    /\ UNCHANGED <<Outside, table, OxData, kc>>

\* removeOxUserFromAllItsOxGroups()
LeaveAll(h, user, then) ==
    \/ /\ Become(h, IF ox[user].groups = {} THEN then
                     ELSE {[h EXCEPT !.pc = "leave", !.ox = user, !.todo = ox[user].groups]})
       /\ Fine
    \/ /\ Become(h, then)
       /\ Trouble

\* Mutant: a person who is disabled stays in the groups.
MutantLeaveDisabled(h) ==
    /\ h.kind = "oxDisabled" /\ h.pc = "start"
    /\ End(h) /\ Fine
    /\ UNCHANGED <<Outside, table, OxData, kc>>

\* handleEmailAddressDisabledEvent() of OxEventHandler
LeaveDisabled(h) ==
    /\ h.kind = "oxDisabled" /\ h.pc = "start"
    /\ \E rows \in Collections(h) :
           IF db[h.p].gone \/ OxUserId(h, rows) = 0 THEN End(h) /\ Fine
           ELSE LeaveAll(h, OxUserId(h, rows), {})
    /\ UNCHANGED <<Outside, table, OxData, kc>>

\* handlePersonDeletedEvent() of OxEventHandler: the row that is found is no
\* aggregate any more once its person is gone, and the handler throws.
LeaveDeleted(h) ==
    LET found == {i \in DOMAIN emails : /\ emails[i].address = h.mail
                                        /\ emails[i].owner # Nobody /\ emails[i].ox # 0}
    IN  /\ h.kind = "oxDeleted" /\ h.pc = "start"
        /\ \/ found = {} /\ End(h) /\ Fine
           \/ \E i \in found : LeaveAll(h, emails[i].ox, {[h EXCEPT !.pc = "free", !.ox = emails[i].ox]})
        /\ UNCHANGED <<Outside, table, OxData, kc>>

FreeUsername(h) ==
    /\ h.pc = "free"
    /\ \/ ox' = [ox EXCEPT ![h.ox].username = Freed] /\ Fine
       \/ UNCHANGED ox /\ Trouble
    /\ End(h)
    /\ UNCHANGED <<Outside, table, oxGroups, kc>>

\* Keycloak finds the user by the name that the event carries.
KnownInKeycloak(h) == kc[h.p] # -1 /\ h.user = db[h.p].name

UpdateAttributes(h) ==
    /\ h.kind = "kcChanged"
    /\ \/ /\ KnownInKeycloak(h)
          /\ kc' = [kc EXCEPT ![h.p] = h.user]
          /\ Become(h, {Sub(h, "metadata")})
          /\ Fine
       \/ ~KnownInKeycloak(h) /\ UNCHANGED kc /\ End(h) /\ Fine
       \/ UNCHANGED kc /\ End(h) /\ Trouble
    /\ UNCHANGED <<Outside, table, OxData>>

RemoveAttributes(h) ==
    /\ h.kind = "kcDisabled"
    /\ \/ KnownInKeycloak(h) /\ kc' = [kc EXCEPT ![h.p] = 0] /\ Fine
       \/ ~KnownInKeycloak(h) /\ UNCHANGED kc /\ Fine
       \/ UNCHANGED kc /\ Trouble
    /\ End(h)
    /\ UNCHANGED <<Outside, table, OxData>>

-----------------------------------------------------------------------------
(* The events from outside, and the end of a person.                       *)

\* PersonRepository.deletePerson() at last deletes the row: the foreign key of
\* the addresses becomes null, and the Personenkontexte go.
DeleteRow(h) ==
    /\ h.kind = "deleteRow"
    /\ db' = [db EXCEPT ![h.p].gone = TRUE, ![h.p].kontexte = {}]
    /\ emails' = [i \in DOMAIN emails |->
                     IF emails[i].owner = h.p THEN [emails[i] EXCEPT !.owner = Nobody] ELSE emails[i]]
    /\ End(h)
    /\ Fine
    /\ UNCHANGED <<serving, updated, OxData, kc, events, overlaps, twice>>

PublishAll(next) ==
    /\ events < MaxEvents
    /\ events' = events + 1
    /\ handlers' = handlers (+) SetToBag(next)
    /\ IF Quiet /\ \A g, h \in next : g.p = h.p
       THEN overlaps' = overlaps
       ELSE overlaps < MaxOverlaps /\ overlaps' = overlaps + 1
    /\ Fine
    /\ UNCHANGED <<table, OxData, twice>>

Update(p, kontexte) ==
    /\ kontexte # db[p].kontexte
    /\ db' = [db EXCEPT ![p].kontexte = kontexte]
    /\ PublishAll({Handler("person", p),
                [Handler("oxUpdated", p) EXCEPT !.removed = db[p].kontexte \ kontexte]})
    /\ UNCHANGED <<serving, kc>>

Rename(p) ==
    /\ db' = [db EXCEPT ![p].name = @ + 1]
    /\ PublishAll({[Handler("renamed", p) EXCEPT !.user = @ + 1]})
    /\ UNCHANGED <<serving, kc>>

\* The service providers of a Rolle have changed.
UpdateRolle(r) ==
    /\ serving' \in {serving \cup {r}, serving \ {r}} \ {serving}
    /\ PublishAll({Handler("person", p) : p \in
                   {x \in Persons : \E k \in db[x].kontexte : k.rolle = r}})
    /\ UNCHANGED <<db, kc>>

\* The Keycloak user goes first, the row last.
DeletePerson(p) ==
    LET mail == [h \in {Handler("deleted", p), Handler("oxDeleted", p)} |->
                    [h EXCEPT !.mail = MailOf(h, RowsOf(p))]]
    IN  /\ kc' = [kc EXCEPT ![p] = -1]
        /\ PublishAll({[Handler(kind, p) EXCEPT !.removed = db[p].kontexte] :
                       kind \in {"person", "oxUpdated"}}
                   \cup (IF RowsOf(p) = {} THEN {} ELSE Range(mail))
                   \cup {Handler("deleteRow", p)})
        /\ UNCHANGED <<db, serving>>

HappensOutside ==
    \/ \E p \in {x \in Persons : kc[x] # -1} :
           \/ \E kontexte \in SUBSET Kontexte : Update(p, kontexte)
           \/ Rename(p)
           \/ DeletePerson(p)
    \/ \E r \in Rollen : UpdateRolle(r)

\* Whoever needs an address has one, and a user in OX.
EmailInit ==
    /\ serving \in SUBSET Rollen
    /\ \E has \in [Persons -> SUBSET Kontexte] :
           LET served == {p \in Persons : ServingOf(has[p]) # {}}
               numbers == 1 .. Cardinality(served)
           IN  \E person \in Bijection(numbers, served) :
                   /\ db = [p \in Persons |-> [name |-> 1, kontexte |-> has[p], gone |-> FALSE]]
                   /\ emails = [i \in numbers |->
                          [id |-> i, address |-> <<1, i - 1>>, owner |-> person[i],
                           status |-> "ENABLED", ox |-> i]]
                   /\ updated = [i \in numbers |-> i]
                   /\ ox = [i \in numbers |->
                          [username |-> <<person[i], 1>>, primary |-> <<1, i - 1>>,
                           groups |-> {k.school : k \in ServingOf(has[person[i]])}]]
                   /\ kc = [p \in Persons |-> IF p \in served THEN 1 ELSE 0]
    /\ oxGroups \in {g \in SUBSET OxSchools : \A i \in DOMAIN ox : ox[i].groups \subseteq g}
    /\ events = 0
    /\ failures = 0
    /\ overlaps = 0
    /\ handlers = EmptyBag
    /\ twice = {}

Step(h) ==
    \/ HandlePerson(h) \/ DisableOne(h) \/ CreateOrEnable(h)
    \/ HandleRenamed(h) \/ Retire(h)
    \/ ChooseAddress(h) \/ Check(h) \/ Save(h)
    \/ Enable(h) \/ EnableDisabled(h) \/ Deactivate(h)
    \/ FindRequested(h) \/ ExistsUser(h) \/ CreateUser(h) \/ ChangeUser(h)
    \/ AlreadyExists(h) \/ FindGroup(h) \/ CreateGroup(h) \/ AddMember(h) \/ MarkFailed(h)
    \/ RemoveMember(h) \/ LeaveRemoved(h) \/ LeaveDisabled(h) \/ LeaveDeleted(h) \/ FreeUsername(h)
    \/ UpdateAttributes(h) \/ RemoveAttributes(h)
    \/ DeleteRow(h)

Idle == Quiet /\ UNCHANGED emailVars

EmailNext ==
    \/ HappensOutside
    \/ \E h \in BagToSet(handlers) : Step(h)
    \/ Idle

EmailSpec == EmailInit /\ [][EmailNext]_emailVars

-----------------------------------------------------------------------------
\* Every variable holds what the code can put there; no two rows share an
\* address, and a row that tells a user of OX tells one that there is.
EmailTypeOK ==
    /\ \A p \in Persons : db[p].name \in 1 .. 1 + events /\ db[p].kontexte \subseteq Kontexte
    /\ \A i \in DOMAIN emails :
           /\ emails[i].status \in AddressStatus /\ emails[i].owner \in Persons \cup {Nobody}
           /\ emails[i].id = i /\ emails[i].ox \in 0 .. Len(ox)
           /\ \A j \in DOMAIN emails : i # j => emails[i].address # emails[j].address
    /\ \A i \in DOMAIN ox : ox[i].groups \subseteq oxGroups
    /\ \A p \in Persons : kc[p] \in -1 .. db[p].name
    /\ IsABag(handlers)
    /\ failures \in 0 .. MaxFailures /\ overlaps \in 0 .. MaxOverlaps /\ events \in 0 .. MaxEvents

Calm == Quiet /\ failures = 0 /\ overlaps = 0
Present == {p \in Persons : ~db[p].gone}

\* When no call has failed and every event was handled before the next one
\* came, the three systems agree, unless the first address was asked for by two
\* schools: a teacher whose Rolle has an EMAIL service
\* provider has one ENABLED address of the present name, which is the primary
\* one of a user in OX under the present username, in the groups of the
\* teacher's schools and nowhere else, and Keycloak knows it; all others have
\* no address in use, no groups and no attribute; no request is left over.
Served(p) ==
    \E i \in WithStatus(p, "ENABLED") :
        LET user == ox[emails[i].ox]
        IN  /\ WithStatus(p, "ENABLED") = {i} /\ emails[i].ox # 0
            /\ emails[i].address[1] = db[p].name
            /\ user.username = Username(p) /\ user.primary = emails[i].address
            /\ user.groups = {k.school : k \in ServingOf(db[p].kontexte)}
            /\ kc[p] = db[p].name
NotServed(p) ==
    /\ ~Enabled(p) /\ kc[p] = 0
    /\ \A i \in RowsOf(p) : emails[i].ox # 0 => ox[emails[i].ox].groups = {}
OneRolle == \A k, l \in Kontexte : k.rolle = l.rolle
CalmServed ==
    Calm /\ OneRolle => \A p \in Present \ twice :
        /\ IF ServingOf(db[p].kontexte) # {} THEN Served(p) ELSE NotServed(p)
        /\ ~IsRequested(p)

\* Under the same conditions no address of a deleted person is in use
\* (handlePersonDeletedEvent() of EmailEventHandler).
DeletedDisabled ==
    Calm /\ twice = {} =>
        \A i \in DOMAIN emails : emails[i].owner = Nobody => emails[i].status # "ENABLED"

\* "Email-Repo is responsible to avoid persisting multiple enabled email-
\* addresses for same user" (person.repository.ts): so it does while one event
\* is handled at a time, no more than one call fails and no first address is
\* asked for by two schools.
OneEnabledAlone ==
    overlaps = 0 /\ failures <= 1 =>
        \A p \in Persons \ twice : \A i, j \in WithStatus(p, "ENABLED") : i = j
=============================================================================
