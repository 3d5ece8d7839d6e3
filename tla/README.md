# TLA+ models of the ErWIn portal server

This directory holds formal models of the server in `src/`: TLA+ modules, TLC
configurations that check them on small instances, and theorems that TLAPS
proves for every size. `PROJECT.json` lists the components, the runs, the
mutants (a plausible bug for each property, which its run finds), the source
lines each definition stands for, the hazards and the theorems.

    tlc -workers 2 -config KontextConcurrent.cfg MCPersonenkontexte
    tlapm Personenkontexte_proofs.tla

## 1. The system

The server manages persons, organisations, Rollen and the *Personenkontexte*
that tie them together. It is one NestJS process over one PostgreSQL database.
State outside the database lives in Keycloak (accounts), LDAP (directory), OX
(mail), itslearning and PrivacyIDEA; these follow by events. There are no
transactions around a request: a request is a chain of `await`s, each reading or
writing a row or calling a system, and any other request may run in between. An
entity manager per request keeps the entities it loaded, so a later `findById`
may return what an earlier one read, and a flush writes only what differs from
that.

| Component | State | Operations | Interacts by |
|---|---|---|---|
| Personenkontext update (`personenkontext/domain/personenkontexte-update.ts`) | rows of `personenkontext`, `orgUnassignmentDate` of the person | `update()` | called by workflow commit, cron, import, person creation; publishes `PersonenkontextUpdatedEvent` |
| Person (`person/`) | rows of `person` | create, update, metadata, delete | Keycloak before or after the row; rename and deletion events |
| Person locks (`keycloak-administration/`) | `user_lock`, `enabled` in Keycloak | `updateKeycloakUserStatus()` | lock endpoint, two cron jobs, metadata update |
| Import (`import/`) | `importvorgang`, `importdataitem`, fields of the handler | upload, execute, download, delete, status | `ImportExecutedEvent` to a handler in the same process; creates persons |
| Cron (`cron/`) | none | four jobs by HTTP | calls the above |
| Event bus (`core/eventbus/`) | subscriptions; Kafka topics if enabled | publish, subscribe | starts handlers synchronously, does not wait for them, logs what they throw |
| Email (`email/`) | `email_address` with status REQUESTED, ENABLED, DISABLED, FAILED | seven event handlers | asks OX by event, answers to Keycloak and LDAP |
| OX (`ox/`) | users, groups and primary addresses in OX, `ox_user_id` | handlers over SOAP, one call at a time | events from email, answers by events that Keycloak and email take up |
| LDAP (`core/ldap/`) | entries, groups, alternative mail | client operations with retry and mutex | events from person, kontext, email, organisation |
| Accounts (`keycloak-administration/`, `person/`) | users in Keycloak, `username` of a row | creation, renaming, deletion | called by `PersonRepository` before or after it writes the row |
| Keycloak groups (`keycloak-handler/`, `service-provider/`) | groups, realm roles, members | handlers of Personenkontext and service provider events | events; one task per Rolle, all at once |
| Organisation (`organisation/`) | rows with `version` | create, rename, delete, move, PUT, enable for itslearning | events to itslearning and LDAP |
| itslearning (`itslearning/`) | groups, persons, memberships over there | event handlers, synchronisation | events; a mutex among the person handlers |
| Rolle (`rolle/`), service provider | rows with Merkmale, Systemrechte, service providers and `version` | create, PUT, add a Systemrecht, set or remove service providers, delete | asked by the Personenkontext checks; `RolleUpdatedEvent` to email, groups, itslearning |
| Second factors (`privacy-idea-administration/`) | users and tokens in PrivacyIDEA | new token, verify, reset, assign; rename and delete a person | HTTP; `PersonRenamedEvent`, `PersonDeletedEvent` |
| Authentication | session | permission questions | asked by all of the above |

### What makes each part correct, and what is hard

* **Personenkontext update.** An update must act on what its caller saw (count
  and newest `updatedAt` are compared); a Rolle that needs a Befristung has one;
  all Rollen of a person have one Rollenart; the date of the last unassignment
  agrees with the rows; the events add up to the rows. Hard: two updates
  interleave at every await, a row has its time before it is visible, single deletes and
  inserts fail and are only logged, the person may be deleted meanwhile, the loaded
  person may be old.
* **Locks.** The account is disabled exactly while a lock is left. Hard: four
  callers, one row per occasion, an update that overwrites any row, two systems
  written one after the other, either may fail.
* **Import.** The status tells what became of the items; pupils reach the school
  of their import; an execution ends. Hard: one handler object for all imports,
  no status check before execution, deletion during execution, failures after a
  person was created.
* **Email, OX, Keycloak attributes.** A teacher with a Rolle that serves email has
  one enabled address, of the present name, which is the primary one of a user in
  OX, in the groups of the teacher's schools; nobody else has. Hard: a request
  travels through six handlers of three components by events; each may fail and
  is then only logged; look-up and save are apart; the entities a handler uses may
  have been loaded before.
* **LDAP.** The entry has the current name, school groups and addresses. Hard:
  retries of operations that were carried out; operations without the mutex.
* **Organisation.** No lost update, unique names of Klassen in a school and of
  Kennungen, a school stays in its branch, itslearning mirrors what is enabled.
  Hard: checks over several awaits before the write; only the version, compared
  twice, protects a row; nothing in the table protects a name.
* **itslearning persons.** Entry and memberships agree with the rows. Hard: handlers
  work from the data of their event, the synchronisation from the database and
  without the mutex; a call that fails stops one handler and not another.
* **Keycloak groups.** The person is in the groups that their Rollen give, and is
  never out of one meanwhile; a group has its role. Hard: tasks of one event run at
  once and read before they write; nobody looks at their results; groups and roles are
  named independently, and a change of a provider is no event.
* **Accounts.** Row and account agree; nobody's account is renamed for somebody
  else. Hard: the database rolls back, Keycloak does not; accounts are looked for
  by name; usernames are unique in Keycloak only, Personalnummern in the table only;
  a PUT writes the username of the row without Keycloak.
* **Rollen.** Nobody has a Rolle with BEFRISTUNG_PFLICHT without a Befristung; names
  are unique at a Schulstrukturknoten; no change is lost; whoever follows
  `RolleUpdatedEvent` knows the service providers.
  Hard: Merkmale and Personenkontexte are checked against each other by requests
  that both write later; a whole row is written at the end; two endpoints publish
  nothing; one catch block hides all errors but one.
* **Second factors.** The tokens a person logs in with are those made for or assigned
  to this person, under every username; a person who was deleted leaves none; at
  most one token waits to be verified. Hard: the server keeps nothing and asks
  PrivacyIDEA before every change; a renaming takes all tokens away and gives them
  back one by one, and meanwhile they belong to nobody and can be assigned.
* **Kafka.** No service of this repository publishes to Kafka at this commit:
  `KafkaEventService` subscribes, and logs a handler that throws.

The hazards, each at its line, are in `PROJECT.json`.

## 2. Plan

| Order | Modules | State |
|---|---|---|
| 1 | `PersonenkontexteUpdate`, abstract `KontextRegister`, `PersonenkontexteSerial`, proofs | done |
| 2 | `UserLocks`, proofs | done |
| 3 | `ImportWorkflow`, proofs | done |
| 4 | `LdapDirectory`, proofs | done |
| 5 | `EmailLifecycle`: addresses, OX and Keycloak answering by events, proofs | done; `CalmServed` proved as far as the database goes |
| 6 | `OrganisationRegister`, composed with `ItslearningGroups`, proofs | done |
| 7 | `ItslearningPersons`, proofs | done |
| 8 | `KeycloakGroups`, proofs | done |
| 9 | `PersonAccounts`, proofs | done |
| 10 | `RolleRegister`, proofs | done |
| 11 | `TokenRegister`, proofs | done |
| 12 | the VIDIS job, delivery by Kafka, Rollenmapping, Meldung | open |

Modules meet at events: what `PersonenkontexteUpdate` publishes is what `EmailLifecycle`, `LdapDirectory`,
`ItslearningPersons` and `KeycloakGroups` take as their `Update`; each of them
takes it as one step, since no handler runs before it is published.

## 3. The modules

### PersonenkontexteUpdate

One person. A call of `update()` is a process whose `pc` names the await it
stands at; its variables (`existing`, `deleted`, `created`, `after`, ...) are the
local variables of the method. `db` holds the rows, each with its key
(organisation, Rolle), Befristung and `stamp`; `clock` gives out stamps.

| Action | Code |
|---|---|
| `Prepare` | the page (`createZuordnungenForKontexte`) or the query of the cron job |
| `Submit`, `SubmitCron` | `commit()` with what an administrator or the cron job passes |
| `FindSent`, `ReadExisting` | `getSentPersonenkontexte()`, `findByPerson` |
| `CheckSpecifications`, `Validate` | Rollenart, Befristung; person, count, newest `updatedAt`, permissions |
| `DeleteOne`, `AddOne`, `InsertOne` | one turn of the loops of `delete()` and `add()`, which log failures and go on |
| `Reread`, `LoadPerson`, `SavePerson`, `SaveFails` | the end of `update()` |
| `PublishEvent`, `PublishNothing` | `publishEvent()`; `known` is what a consumer that replays events knows |
| `Collect` ... `RemovePerson` | `PersonDeleteService.deletePerson` and `PersonRepository.deletePerson` |

An insert is two steps: `TimestampedEntity` takes the time before the statement is sent
(`StampRow` in `AddOne`), and the row is visible, or refused, when it is committed
(`InsertOne`). In between the row is in `inserting`, and one with a later time may come
before it. `overtaken` remembers the administrators whose page was loaded while such a row,
no newer than the newest of the page, was still to come: `validate()` cannot tell it.

Abstractions: permissions are a free choice; a Personalnummer that a call brings
is the save that may fail; every write gets a time of its own (two writes in one
millisecond are a listed hazard). `Faults` names the operations that may fail,
`MaxParallel` bounds the calls under way. Left out: PUT of the person, which passes no
`orgUnassignmentDate` and so clears it (`person.ts:306`, a listed hazard).

`KontextRegister` is what the workflow promises to callers that do not overlap: a
register with one compare-and-swap, in which rows, event stream and date change
together. `PersonenkontexteSerial` maps the detailed state to it: while a call
writes, the register still shows what the call found.

### UserLocks

One person's locks, the flag in Keycloak, and the calls: `AskLock` and
`AskUnlock` (lock endpoint), `CronKoPers` and `CronExpired` (cron jobs, again and
again), `AskMetadata` to `SaveMetadata` (`updatePersonMetadata` with a
Personalnummer). Then `updateKeycloakUserStatus` step by step: `LookForLock`,
`CreateLock` or `FindRow` and `FlushRow`, `Disable`; `DeleteLock`, `RereadLocks`,
`Enable`. `CallFails` ends a call at any step: Keycloak does not authenticate the server
before anything is written, or the database or Keycloak fails later; what was written
stays. `refused` remembers a failure between the two systems. `Overlap` says whether a
call that locks may overlap others. Row ids matter, since a flush writes to the row that
was found.

### ImportWorkflow

Imports with their items, and requests numbered as they come. A request to
execute goes on as the event handler, which runs in the context of the request
and on its entity manager: `Flush` writes only what differs from the row as it
was loaded, and nothing if the row is gone. `selected` is the pair of fields
(organisation and Rolle) that the one handler object shares among all imports.
`CreatePerson` stands for `createPersonWithPersonenkontexte` with its outcomes:
nothing created, person created and item failed, success. `Break` is a database
that fails or a server that stops, at any step. Items come one at a time where
the code takes chunks of 50. Reading the status and the imported users changes
nothing and is left out.

### LdapDirectory

Several persons and the directory that follows them. `db` is what the database
holds of each person, `entries` and `groups` what the directory holds, `events`
the handlers under way, `ops` the operations of `LdapClientService` under way,
`mutex` the one that holds its mutex. A handler has a *plan*: a sequence of sets of
requests, each set made at once when the one before it is answered.

| Action | Code |
|---|---|
| `Update`, `Rename`, `ChangeMail`, `DeletePerson`, `Sync` | the database changes and the handler of its event starts (`ldap-event-handler.ts`, `fetchDataAndSync()`) |
| `Advance`, `Return` | the awaits of a handler |
| `Search`, `AddMember`, `RemoveMember` | `addPersonToGroup`, `removePersonFromGroup`, without the mutex |
| `Lookup`, `Insert`, `ReadUuid` | the search that begins every operation on an entry; `createLehrer`, `createEmptyPersonEntry`, `getEntryUUID` |
| `ModifyNames`, `ModifyDn`, `CopyMembers`, `Replace` | `modifyPersonAttributes` and `updateMemberDnInGroups` |
| `Delete`, `Primary`, `Alternative` | `deleteLehrerByReferrer`, `changeEmailAddressByPersonId` |
| `GroupsFound`, `Lists` | `getGroupsForPerson` and what a synchronisation makes of it |
| `Store` | `externalIds.LDAP`, and a disabled address known to the directory only |
| `Continue`, `Fail`, `Answered`, `Refused`, `CallLost` | `executeWithRetry()` around all of them: a call that is lost before or after it had its effect, the next try of the operation or of the one inside it, the mutex given back in between |

Abstractions: one root, so that a username stands for a DN; given name, surname
and cn are one number, 0 for the word `empty`; the units around a group come and
go with it; the mutex is given to any that waits, not to the first; a
synchronisation reads the database when it starts; a school is found by its whole
Kennung. Passwords, `deleteLehrer`, the events of the migration and those of
the email domain are left out, and so is a PUT of the person that changes the username
only: it publishes no `PersonRenamedEvent`, and no follower of that event (the modules on
email, itslearning persons and tokens likewise) learns of it. With another name it is
their `Rename`.

### EmailLifecycle

Teachers, the table `email_address`, the users of OX and the attribute in
Keycloak. `handlers` is a bag of the handlers under way; each is a record that
names the event (`kind`), the await it stands at (`pc`) and its local variables.
Publishing an event adds the handlers of its subscribers in the same step, since
the bus starts them synchronously. `emails` is the table by id, and `updated` orders
its rows as `updatedAt` does: `Write` makes the row it writes the newest (`Newest`).

| Action | Code |
|---|---|
| `Update`, `Rename`, `UpdateRolle`, `DeletePerson` | the events from outside, with all handlers they start; `DeleteRow` is the end of `PersonRepository.deletePerson` |
| `HandlePerson`, `DisableOne`, `CreateOrEnable` | `handlePerson`, `handlePersonWithoutEmailSPReference`, `createOrEnableEmail` |
| `HandleRenamed`, `Retire` | `handleLdapPersonEntryRenamedEvent` |
| `ChooseAddress`, `Check`, `Save` | `EmailFactory`, and `EmailRepo.save()`, which looks and then writes |
| `Enable`, `EnableDisabled`, `Deactivate` | the answers to the email domain and `handlePersonDeletedEvent` |
| `FindRequested`, `ExistsUser`, `CreateUser`, `ChangeUser`, `AlreadyExists` | `OxEventHandler`: creating and changing a user |
| `FindGroup`, `CreateGroup`, `AddMember`, `RemoveMember`, `Leave...`, `FreeUsername`, `MarkFailed` | its groups, the end of a user, what it does when a call fails |
| `UpdateAttributes`, `RemoveAttributes` | `KeycloakEventHandler` |

A call that fails may have been carried out (`ox' \in {ox, changed}`). What a
handler has loaded is `seen`; whether an entity manager shows it rows added since
is left open (`Collections`). As in the code, one of the Rollen that serve email
decides for which schools there is an address (`handlePerson` takes the first it
finds), and a Kontext that goes takes the user out of the school's OX group
whatever else the person has there; `CalmServed` therefore has the condition that all
Kontexte are of one Rolle (`OneRolle`). A first address that two schools
ask for at once becomes two REQUESTED rows of which one is left over; such
persons are in `twice` and excepted. The factory that finds no domain is the
outcome FAILED of `ChooseAddress`. Left out: the handler of the one-off migration
event, aliases, and the answers that LDAP takes (they are `ChangeMail` there).

### OrganisationRegister and ItslearningGroups

`OrganisationRegister` is the table of schools and Klassen. A request (`call[r]`) has
read a row, which `row` keeps, and its identity map has some version of the
entity, which `entity` keeps and which raw queries refresh (`Refreshed`).
`ItslearningGroups` extends it with the handlers of its events, which go on in
the request's own context, and the groups of itslearning.

| Action | Code |
|---|---|
| `CreateKlasse`, `CreateSchool`, `Rename`, `DeleteKlasse`, `Enable`, `Move`, `PutKlasse`, `PutSchool` | the endpoints of `organisation.controller.ts` |
| `LoadCreate`, `LoadRename`, `LoadDelete`, `LoadOther` | what the service or repository reads first, and its refusals |
| `CheckName`, `CheckMove` | `KlassenNameAnSchuleEindeutig`, `SchuleKennungEindeutig`, `validateZugehoerigZu` |
| `Insert`, `Remove`, `Update` | `create()`, `removeAndFlush()`, `update()` with its two comparisons of the version (`UpToDate`) |
| `HandleKlasse`, `HandleDeleted`, `HandleEnabled`, `Send` | `itslearning-organisations.event-handler.ts` and `ItslearningGroupRepo` |
| `Told` | a PUT, which publishes nothing |

`raced` remembers the schools whose requests overlapped, `missed` those of which
itslearning was not told. Ids are UUIDs, so the parent `ROOT_OEFFENTLICH` of itslearning
is none of them (`GroupsAssumption`). Left out: Träger and other types, the typ that a PUT may
change, external ids, the LDAP handler of a deleted school; a request that places a
row names one parent for both relations.

### ItslearningPersons

One person in itslearning. `queue` holds the events whose handlers wait for the
mutex, `run` the handler that has it and the synchronisation, which does without.

| Action | Code |
|---|---|
| `LoadForUpdate`, `UpdateRows`, `RenamePerson`, `NewAddress`, `EnableSchool` | changes of the database and their events; an update carries the name it loaded before |
| `Take` | `mutex.runExclusive` |
| `AskSync`, `LoadPerson`, `LoadRows` | `personExternalSystemSyncEventHandler` |
| `ReadPerson`, `SendPerson`, `DeletePerson` | `updatePerson`, `deletePerson`, renaming and new address |
| `ReadMembers`, `RemoveMembers`, `CreateMembers` | `ItslearningMembershipRepo.setMemberships` |
| `Fail` | a failed call: the handler of an update logs it and goes on, others stop |

Two things the code does are part of `Agrees`: the synchronisation computes the
role from all Rollen with itslearning, the handler from the relevant Kontexte only;
and enabling a school sends no persons (`EnableSchool` ends `sound`).

### KeycloakGroups

One person's groups. An update starts a task per Rolle that is new or gone
(`TasksOf`), a new service provider a task that creates the group and the role that it
names. The two are independent (`Groups`, `Roles`, and `asked` for the pairs so far):
providers may share a group or a role, and the realm has roles of its own (`RealmRoles`).
A role that exists, whoever's it is, ends the task and leaves the group without one.

| Action | Code |
|---|---|
| `Update`, `ReadRolle`, `ReadOthers` | `handlePersonenkontextUpdatedEvent`, `fetchFilteredRolesDifference` |
| `FindGroups`, `ListGroups`, `Write` | `modifyRealmGroupsForUser` |
| `CreateProvider`, `FindGroup`, `CreateGroup`, `CreateRole`, `AddRoleToGroup` | `ServiceProviderRepo.create`, `CreateGroupAndRoleHandler`, `KeycloakGroupRoleService` |
| `ChangeRolle`, `ChangeProvider` | `RolleRepo.updateRolleAuthorized`, PATCH of a provider: no handler looks at the persons' groups afterwards, and no event asks for the new group |
| `Fail` | a call that Keycloak refuses ends the task |

`Contains` says which group names contain which: `createGroup()` asks Keycloak by a
search that matches parts of names. Histories begin when the events of the providers
there are have been handled. Left out: deletion of the person, the same
Rolle at several schools as tasks of their own, deletion of providers, the seeding of
the database (which may also take a provider's group away), the VIDIS job, versions
and Merkmale of a Rolle.

### PersonAccounts

Persons as rows and as accounts. `rows[p]` and `users[p]` are the row and the
account that were made for the same person, and a request (`call[r]`) writes one after
the other.

| Action | Code |
|---|---|
| `AskCreate`, `Generate`, `CheckNumber`, `FindUser`, `CreateUser`, `SetPassword`, `Undo`, `Commit` | `Person.createNew`, `PersonRepository.create`, `createKeycloakUser` |
| `AskChange`, `Load`, `CheckNewNumber`, `GenerateNew`, `FindAccount`, `Rename`, `Save` | `updatePersonMetadata`, `KeycloakUserService.updateUsername`, `PersonRepository.update` |
| `AskPut`, `LoadPut`, `SavePut` | `PUT /persons/:personId`: `Person.update`, `PersonRepository.update`; names and `referrer`, the username of the row, without Keycloak |
| `AskDelete`, `LoadForDelete`, `DeleteUser`, `DeleteRow` | `PersonRepository.deletePerson` |
| `KeycloakFails`, `Fault` | a call that fails before it changed anything, or between the two systems |

`broken` remembers the persons that a failed or overlapping request touched, and those
to whom a PUT gave another username than their account has. Whether a name gives a new
username is decided by `FormOf` (initial and search form of the family name,
`hasUsernameChanged()`), which username by `BaseOf` (what the generator makes of it): two
names may differ in the first and not in the second. Left out: the lock that a new
Personalnummer ends (it is in `UserLocks`), password reset, the OX blacklist of
usernames, ids given by the caller, the five seconds before the rename event;
`updatedAt` and `revision`, both compared with the page, are one version.

### RolleRegister

The table `rolle` (`rollen`), and what refers to it: of each Rolle whether somebody
has it with and without a Befristung (`kontexte`), the service providers there are
(`angebote`), and what the last `RolleUpdatedEvent` said (`told`). A request keeps the
row that it is going to write (`row`, whose version is the one its client sent) and
the version of the entity in its identity map (`entity`), which `findByName()` may
refresh.

| Action | Code |
|---|---|
| `AskCreate`, `AskPut`, `AskChange`, `AskDelete` | the endpoints of `rolle.controller.ts` |
| `CheckAssigned`, `LoadRow`, `CheckOffers`, `CheckName` | `isRolleAlreadyAssigned()`, `findById()` with `UpdateMerkmaleError` and `detatchServiceProvider()`, `attachServiceProvider()`, `RolleNameUniqueOnSsk` |
| `Insert`, `Update`, `Remove` and what fails instead | `create()`, `update()` with its two comparisons of the version, `deleteAuthorized()` with its catch block |
| `Tell` | `RolleUpdatedEvent`, which only `updateRolleAuthorized()` publishes |
| `AskAssign`, `CheckBefristung`, `InsertKontext`, `RemoveKontext` | a Personenkontext with the Rolle, and `CheckBefristungSpecification` |
| `DeleteAngebot` | `deleteServiceProvider()` and the foreign key that may refuse it |

`raced` remembers the Rollen, and the Knoten with their names, whose requests
overlapped; `silent` the Rollen whose service providers an endpoint changed without an
event. Left out: permissions, the Rollenart (nothing changes it), `istTechnisch`, the
syntax of names, and which of several violated foreign keys the database names.

### TokenRegister

Persons with their usernames (`name`, `alive`), what PrivacyIDEA has (`users`,
`tokens`), and the requests and handlers under way (`call`).

| Action | Code |
|---|---|
| `AskInit`, `AskVerify`, `AskReset`, `AskAssign` | the endpoints of `privacy-idea-administration.controller.ts` |
| `Rename`, `DeletePerson` | the two event handlers start |
| `CreatePerson` | a person is created, perhaps with the username of one that was deleted |
| `CheckUser`, `AddUser`, `FindOld`, `Drop`, `InitToken` | `initializeSoftwareToken()` |
| `FindOld`, `Confirm` | `verifyTokenEnrollment()` |
| `CheckStatus`, `CheckOtp`, `Assign` | `assignHardwareToken()` |
| `FindSecond`, `Unassign` | `resetToken()` |
| `CheckUser`, `ListTokens`, `Release`, `AddUser`, `Reassign`, `DeleteUser` | `updateUsername()`, whose calls for several tokens are made at once |
| `CallFails`, `Rejected`, `Answered` | a call that fails, is refused, or whose answer is lost |

`holder` remembers for whom a token was made or to whom it was assigned, `failed` the
persons and usernames a failed call touched. A request depends on its `sites`: its person
and usernames, the tokens of these, and what it finds in PrivacyIDEA on its way, each
token with its user and the person it was made for (`About`). `raced` remembers what
requests that overlapped depended on, and what a later request depends on that meets
any of it (`Races`): the tokens it takes along then bring their past to its person.
Persons, usernames and serials are of different kinds (`TokenAssumption`): sites tell
them apart. What PrivacyIDEA does with a user that is there already, or with a token that
has a user, is left open where the code does not depend on it; a token whose user is
deleted is nobody's any more (`Lost`). `getUserTokens()` is one read, although it asks
for the user first. Left out: the cached session with PrivacyIDEA, and the two queries
that only read (state and requirement of a second factor).

## 4. Runs

| Run | Instance | Shows |
|---|---|---|
| `KontextConcurrent` | any 4 of 3 administrators, the cron job and a deletion (`MCFourAct`), 2 calls at a time, 1 key that needs a Befristung, 2 Befristungen, every write may fail; administrators symmetric | `ValidatedSawAll`, `BefristungKept`, `NoSilentKontext` |
| `KontextSerial` | 2 calls and a deletion in turn, 3 keys of 2 Rollenarten, delete and insert fail | `OrgUnassignmentDateCorrect`, `SameRollenart`, `RefinesRegister`, `CallsEnd` |
| `UserLocks` | 2 requests, 2 cron jobs, no overlap with locking calls, every call may fail at every step | `LockedIffDisabled`, `ExpiredLocksGo` |
| `Import` | 2 imports into 2 schools, 2 items, 4 requests, executions one at a time | `StatusTellsItems`, `ImportedAtSchool`, `SuccessHasPerson`, `ExecutionEnds` |
| `LdapDirectory` | 2 persons, 2 schools, 2 addresses, 2 tries, 2 events of any kind, one trouble: a failed call, an overlap of events, or a removal that failed before | `LookupHolds`, `CalmMirrors`, `SyncMirrors` |
| `Email` | 1 teacher, 2 schools, 2 events of any kind one after the other, 1 failing call | `CalmServed`, `DeletedDisabled`, `OneEnabledAlone` |
| `Organisation` | 1 school and 2 rows to come, 2 names, 3 requests of which 2 at once, 1 failing call | `NamesUniqueAlone`, `MirrorAlone`, `UpdatesWhatItRead`, `MoveKeepsBranch` |
| `Itslearning` | 1 person, a school with a Klasse and another school, 4 Rollen (one without itslearning), 2 changes, 1 synchronisation, 1 failing call | `SoundAgrees`, `QueueDrains` |
| `Keycloak` | 2 Rollen, 2 groups of which one's name contains the other's, 1 role, 2 events at once, 1 failing call | `GroupsFollow`, `DueStays`, `ProviderServed` |
| `Accounts` | 2 persons, 3 names of 2 usernames, 1 Personalnummer, 3 requests of which 2 at once, 1 failing call; persons and requests symmetric | `AccountsAgree`, `RenamesOwn`, `ChangesWhatWasShown` |
| `Rolle` | 1 Rolle and 1 to come, 2 names, 2 Knoten, 1 Merkmal (BEFRISTUNG_PFLICHT), 1 Systemrecht, 1 service provider, 2 requests at once, flushes may fail | `BefristungAlone`, `NamesUniqueAlone`, `ToldAlone`, `ChangesOnlyWhatItNames` |
| `Tokens` | 2 persons, 3 usernames, 2 software tokens and 1 hardware token, 3 requests or events of which 2 at once, 1 failing call or overlap | `TokensFollow`, `OneToVerify`, `DeletedLeaveNothing`, `TakenByOwn` |

`Email` checks the type invariant of its module, `EmailTypeOK`, in its run; it is a
theorem as well. Those of `PersonenkontexteUpdate`, `UserLocks`, `ImportWorkflow`,
`KeycloakGroups`, `PersonAccounts`, `RolleRegister` and `TokenRegister` are theorems;
those of the other modules (`TypeOK` in each) were checked on the same instances while
they were written. No run ends in a violation.

Why the bounds are enough: the hazards are races of two calls, so two calls that
overlap show them, and the third actor (deletion, cron) is added where it plays a
part; one key suffices to lose, keep or swap a row, three keys of two Rollenarten
to mix them. While the module was written larger instances finished without an
error: two administrators with two keys, and one with the cron job and a deletion,
two keys and two calls at a time, there with `CallsEnd`. That a page is loaded while one
call inserts and validated when another has inserted and a third deleted takes three
administrators and the cron job (`KontextConcurrent`; `MCFourAct` leaves out only that
the deletion joins the four). Four requests are the least that let two imports be
uploaded and executed; with them one import can also be executed, deleted and executed
again. One request may break off (`MaxBreaks`): what it leaves behind is met by every
request after it. In the directory two persons share a group, so that one is the last
member or not; an event leaves something behind and the next one meets it; a rename is
made once per person (`Names`). So with addresses: the first event leaves a row of any
status, the second meets it, and a call fails in either. In the register a third request
meets what two that overlapped have left, and with two ids to come a Klasse can be
created, deleted and created again under the same name. In Keycloak the two Rollen may
give the same group, each other's, or none. The groups there are at the start and two
new providers share groups and the one role in every way (`ProviderServed`). With two
persons and three requests one person's username becomes free and is taken by the other
while a request still holds it. A token that a renaming released can be assigned to
somebody else only if there is a third username to rename to beside those of the two
persons, and a hardware token is one that exists before anybody has it. Of the Rollen
two requests suffice for a race of two checks; an instance with three requests, one
Knoten and no Systemrechte finished without an error while the module was written.
`MaxParallel`, `MaxRequests`, `MaxBreaks`, `MaxEvents`, `MaxTroubles`, `MaxCalls`,
`MaxSyncs`, `MaxFailures`, `MaxOverlaps`, `MCFourAct` and the sets of calls and requests
are the only bounds on the length of behaviours. `MaxOverlaps` is 0 in `Email`: its
events come one after the other, although their handlers run at once; with one overlap
the state space is not exhausted in reasonable time. Larger instances of it that finish
were explored while the module was written: two teachers at one school with a failing
call, and two teachers with two schools without one.

Deadlock is checked in `LdapDirectory` and `Email`, where only a state without an
operation or handler under way may stutter: every handler ends. The other
instances stop when their requests are made.

### What holds only without overlap

The serial runs state properties the code has only when calls do not overlap, and
several invariants name the overlap in their condition (`raced`, `broken`, `sound`,
`overlaps`). The conditions are needed; in instances without them TLC finds, among
others:

* two overlapping updates of a person leave Rollen of two Rollenarten
  (`nur-gleiche-rolle.ts:45` assumes one), or `orgUnassignmentDate` wrong;
* lock and unlock that overlap leave the account disabled without a lock, or
  enabled with one;
* an import that is executed twice at once ends with a status its items contradict;
* a teacher who becomes the head of a school stays in its group of teachers in LDAP;
* email events of one person that overlap leave two enabled addresses, and so do two
  calls that fail during events that do not overlap (below);
* the OX user of a deleted teacher keeps its name and its groups, since the handler
  throws once the row of the address has lost its owner;
* two requests give two Klassen of a school the same name;
* a Rolle gets BEFRISTUNG_PFLICHT while somebody is given it without a Befristung;
* a commit that the unique index on the Personalnummer refuses leaves an account
  in Keycloak without a row;
* a page that was loaded while an older row was on its way is taken for the present
  state of the table when that row has come and another of the page's has gone;
* a token that a renaming has released is assigned to somebody else;
* of two resets at once the second takes a token that meanwhile went to another person.

Some things the code does need no overlap and are part of how the properties are
stated: a teacher who gets another Personenkontext loses `externalIds.LDAP`
(`ldap-event-handler.ts:258`); the deletion of a Rolle is answered by 204 whenever the
flush failed for another reason than a foreign key of Personenkontexte
(`rolle.repo.ts:362`, `rolle.controller.ts:428`); a person who is deleted with only
an unverified token keeps user and token in PrivacyIDEA, and the next person with the
username gets both; a reset takes back the first of several verified tokens; a group
whose role another group has, or the realm, is left without one
(`keycloak-group-role.service.ts:65`), which `ProviderServed` allows for nothing else
(`RoleElsewhere`); a PUT that gives a person another username leaves the account behind, and
if that username is somebody's, the next renaming of the person takes the other's account
(`person.controller.ts:380`, `keycloak-user.service.ts:347`): `AccountsAgree` and
`RenamesOwn` say so in their condition, and without it TLC finds both.
`OneEnabledAlone` allows one failing call, since two that fail in events that do not
overlap can leave two enabled addresses: a renaming whose new address fails leaves the
former one DISABLED; the next renaming asks for another, OX creates a second user for it,
and the call to Keycloak fails, so that it stays REQUESTED; then an update of the
Kontexte re-enables the DISABLED address while the answer about the user that exists
enables the REQUESTED one, and both look for an enabled address (`email.repo.ts:207`)
before either writes. `person.repository.ts:54` relies on that never happening. TLC found it
in an instance with two failing calls.

`CalmMirrors` is such a property: with a lost answer or overlapping events the code
leaves the directory behind. `SyncMirrors` has no such condition on what came
before, only on the synchronisation itself; it does not speak of one that stops
because the directory has an address the database does not know, which is also
what a retried `getPersonAttributes` finds (it wrote the word `empty` itself), nor
of persons without an address or a Personenkontext, whom the code does not
synchronise. `SoundAgrees` lets a synchronisation repair itslearning in the same way.

### Fairness

A call that began goes on (the event loop resumes every await), so each call's own
steps are weakly fair; nobody has to make a call. In `UserLocks` the expiry job is
fair as well: the deployment schedules it (`docs/cron.md`). Its calls may fail any number
of times, but a lock that is over goes only if they do not fail every time: the code has
no other means than the next run. This availability of Keycloak and the database is an
assumption of `ExpiredLocksGo`, stated as strong fairness of `CronExpired` and
`DeleteLock` for the jobs; for requests nothing of the kind is assumed. In `ItslearningPersons`
the handler that has the mutex goes on, the mutex is given to the next one when it
ends, and the synchronisation goes on. Failures are never fair.

## 5. Proofs

The theorems hold for every value of the constants that satisfies the named
assumption of the module (`CallsAssumption`, `ImportAssumption`, ...).

`Personenkontexte_proofs`, on `PersonenkontexteUpdate` and for any number of calls, keys,
deletions and any set of faults:

* `TypeCorrect`.
* `BefristungIsKept`. Not inductive alone: a call past its checks must have sent
  only kontexte that pass, and inserts only what it sent (`SentIsChecked`).
* `ValidatedCallsSawAll`. The check compares a count and a newest time, the claim
  is about sets. The invariant says that the clock is at least every stamp and
  that stamps are distinct, those of rows still being inserted included, that all sets are
  finite, and that whatever an administrator saw, unless the page was overtaken, holds
  every row, present or to come, that is not newer than its newest: a table that has no
  newer row than the view is then a subset of it, and with the same count equal to it.
* `NoKontextIsSilent`: what a call inserts it reports as created, and it ends without
  an event only if saving the person failed or the person has gone, with all rows.

and on `PersonenkontexteSerial`, assuming that calls do not overlap and that saving and
removing the person do not fail (`Serial`); deletes and inserts may fail:

* `DateIsCorrect` and `OneRollenart`. The invariant (`SerialInv`) says that at most
  one call runs, that between calls events, date and rows agree (`Settled`), and
  what a call that writes has done so far (`Wrote`): the rows are those it found,
  less what it deleted, plus what it created, and all of these and what was sent
  are of one Rollenart, since `checkRollenart()` compared both sides.
* `SerialImplementsRegister`, for administrators' calls (`CronCalls = {}`; the cron
  job does not compare with what it saw). While a call writes, the register shows
  what it found; `PublishEvent` is the compare-and-swap, and that it compares equal
  is `ValidatedCallsSawAll`. Every other step is the reading, the asking or the
  refusal of a caller, the removal of the person, or shows nothing.

`ImportAndKeycloak_proofs`, on `ImportWorkflow` and for any number of imports, items and
requests:

* `TypeCorrect`, strengthened by what each step relies on (`StepsSound`).
* `ImportsReachTheirSchool`, if executions do not overlap: at most one request is
  executing, and the handler's fields are those of its import (`OneExecution`).
* `SuccessesHavePersons`, with or without overlap: a success about to be written
  has its person (`SuccessToStore`).
* `StatusIsTold`, if requests on one import do not overlap (`~Overlap`): then the status
  that a request knows is that of the row, and items, status and the lists the handler
  carries are at every step of it what the next one needs (`Underway`) or, when it ends
  or deletes the import, what may be left behind (`Kept`). Imports in `troubled`, on
  which a request broke off, are left out; those beside them are not (`ItemsInv`).

and on `KeycloakGroups`, whose state and names are its own, for any number of Rollen,
groups and tasks:

* `KeycloakTyped`.
* `ProvidersAreServed`: of several tasks for one group exactly one makes it (`OneMakes`),
  and is on its way to the role until it ends. If it ends because the role is there, some
  other group has been given that role, or a task is about to give it, unless the realm had
  it (`RolesGiven`, `WillBeElsewhere`); so when no task is left every group is served
  (`AllServed`).
* `GroupsWillFollow` and `DueGroupsStay`: as long as nothing happened that handlers
  do not follow, every group in which the person and their Rollen differ is still
  to be handled by a task of the last update (`OnTheWay`), tasks that assign only
  add what is due (`Assigns`), and those that remove only take what is not (`Removes`).

`EmailLifecycle_proofs`, for any number of teachers, schools, Rollen, events, failing calls
and overlaps:

* `EmailTypesHold`. Not inductive alone: an address is unique because `Write` refuses
  one that is taken, but the row it writes comes from a handler, which loaded or made
  it steps before. `EmailTypeInv` therefore says of every handler, by the await it stands
  at, that the row it has in hand is new or has the id of a row of the table, that its
  owner is a person and its OX user is one that there is, and that the group it adds to and
  the rows it has loaded exist (`HandlerOK`); of the table that ids are places in it
  (`EmailsOK`), of OX that users are in groups that exist (`OxOK`). A bag of handlers
  changes by one that goes and some that come, so each action is one lemma about those
  that come. Among the numbers for a name there is a least free one (`FreeAddress`), since
  the table is finite.
* `EachItsOwn` and `OneAtATime`, while no event has come too early and no call has failed
  (`Smooth`). Persons share the table, the numbers of a name and OX, and handlers keep rows
  they loaded long before, so that nobody interferes is no matter of form. `Separate` says
  that all handlers are of one person, and that row, list, address and user in hand are
  that person's, or nobody's once the person is being deleted (`OwnHandler`); that a row
  tells of its owner's user; and, since a row whose owner is gone could be written back
  with the former owner, that after the Keycloak user went only such handlers are left
  as take something away (`KindOK`, `Ended`). A step then changes rows and users of one
  person only (`OthersKept`).
* `OneEnabledHolds`, `DeletedDisabledHolds` and `ServedHolds`, under the same two conditions
  and for finitely many persons and schools (`EmailAssumption`). The first is `OneEnabledAlone`
  while no call has failed. None of them is inductive: that a handler may write the row it has
  in hand depends on which others are under way and on what they have still to do. With
  `Separate` they follow from `AllSound` and `LastUse`. `Sound(p)` says, for everybody
  whose first address was not asked for by two schools, that the rows tell of the person's one
  user of OX, at most one is enabled and at most one requested, and none has failed
  (`RowsSound`); that whoever is served has an enabled address and nobody else has, or a handler
  under way will see to it (`Promised`); and that every handler of the person is one of five
  (`Local`): on the way to a request (`Asking`) or carrying one on (`Carrying`), and then
  alone but for the end of memberships; serving (`Serving`), and then the only one that
  writes addresses; or one that only looks on (`Beside`, `oxUpdated`). Each of these says, await
  by await, what the row in hand has in common with the table (`Copies`, `Unused`), so
  `EmailRepo.save()` never finds an enabled address beside the one it enables.
  Of those who leave, `LastUse` says that an address in use has a handler that is to disable
  it. At rest no handler is left, and what was promised has come.

`Itslearning_proofs`, on `ItslearningGroups` and for any number of schools, Klassen and
requests:

* `NothingUnseenOverwritten`: what a request has read is no newer than the row, and
  is the row where the versions are the same (`Seen`); versions only grow, so the
  comparison in memory and the one in the `UPDATE` together give equality.
* `MovesKeepTheBranch`: the check of a move was about the row that is written.
* `NamesStayUnique`. Two requests overlap at a site only where `raced` tells so, and a
  request that goes on to write a name has the school, or for a Kennung the place of all
  of them, among its sites as long as the row is of the version it has read
  (`SitesInv`). So outside `raced` a name that was found free stays free until it is
  written (`NamesInv`).
* `MirrorHolds`. For every school outside `raced` and `missed` a Klasse that is in the
  table and not in itslearning, or the other way round, is on its way: the one request
  under way for the school is the one that will send or remove it (`MirrorInv`). Every
  step is shown to change only schools among the sites of its request, or
  ones in `raced` or `missed`, and to keep for its own school what it still owes.

and on `ItslearningPersons`, whose state and names are its own, for any Kontexte and Rollen
and any number of events, synchronisations and failures:

* `PersonsTypeCorrect`: whoever is in itslearning has a role and is in the root groups, whoever
  is not is in none (`EntryOK`); no run writes back a role that it did not read.
* `SoundPersonsAgree`. As long as nothing went wrong and nobody synchronises (`Pending`),
  the rows are those of the last update that waits, or else of the one under way, or else
  itslearning is as they ask (`RowsArrive`); so is the name, with renamings among the
  events (`NameArrives`). What is under way has done its part for the rows that it
  carries (`Progress`), or writes back what is still there (`Reread`). A synchronisation
  that nothing disturbed has no handler beside it and carries what the database holds
  (`SyncInv`), which is why it can repair whatever was wrong before.

`LdapDirectory_proofs`, for any number of persons, schools, addresses, events, tries and
failures:

* `LookupStillHolds`. An operation past its lookup has the mutex, or has gone back to its
  first call (`MutexInv`). Operations that do without the mutex write no entry, so what the
  holder has found stays until it writes it itself.
* `SyncStillMirrors`. As long as no call fails and no event comes, a synchronisation is the
  only handler (`OneHandler`) and is at one of eleven stages (`Stage`), each of which says
  what is planned, which operation is under way and what of entry, address, names and
  groups is already as the database has it. Each step leads from a stage to the same or
  a later one; only the last stage (`Listing`) has nothing planned, and there every
  school at which the groups still differ has an operation under way. In the stages of the
  lists the operations run at once, but each is alone at its school or adds the same member
  as the others there. `FormInv` says which fields the records have.
* `CalmStillMirrors`, for finitely many persons and Personenkontexte (the rows of a
  database; `LdapAssumption`) and, as the property says, where every Rolle is a teacher's.
  That is a hypothesis of the theorem, since the code keeps whoever has another
  Personenkontext at the school. Until something goes wrong the directory is right
  (`Good`) about every uid but the one that the events under way are about, and each kind
  of event has a predicate that says how the directory differs there and which request,
  planned or being made, will close the gap (`CalmInv`): `Changing`, a request for every
  school whose group differs; `Remailing`, one for an address that differs; `Renaming`,
  the operation's step tells whether entry and groups are still under the former uid;
  `Deleting`, two handlers in any order, one per group and one for the entry;
  `Resyncing`, only the entry may differ, what `SyncInv` says closes it. When nothing
  is under way nothing is due, so each of them comes down to `Settled`.

`PersonAccounts_proofs`, for any number of persons and requests:

* `TypeCorrect`, with the uniqueness of usernames and Personalnummern. A free
  username exists since there are more counters than persons, and a step that
  relies on a username or a row has it (`Equipped`).
* `AccountsWillAgree`: a person that is not broken has at most one request, and
  row and account are what this request, at the place where it stands, has made
  of them (`Matches`). A PUT leaves the account as it is, and the row's username as well
  unless the person is broken afterwards.
* `OnlyOwnAccountsRenamed`: while row and account agree, the account under the row's
  username is the person's own, since usernames are unique.
* `ChangesAreOfWhatWasShown`, for changes and PUTs.

and, of `UserLocks`, which the same module extends (its state and names are its own), for
any number of requests and cron jobs (disjoint and finite sets, `LocksAssumption`, which
the run has TLC evaluate):

* `LocksTypeCorrect`. That a new row finds a free id is a pigeonhole: there is at most
  one row per occasion, and a call that is about to create one has none.
* `LockedExactlyIfDisabled`, assuming `~Overlap`: a call that locks is alone, and the
  flag follows the locks up to what the calls under way are still going to write
  (`FlagFollows`), until a call fails in between.

`RolleRegister_proofs`, for any number of Rollen, Knoten and requests:

* `TypeCorrect`, and `NothingElseChanged`: what a request has loaded is no newer than
  the row, and leaves alone what the request does not name if the versions are equal
  (`Seen`); the two comparisons in memory and by the `UPDATE` together give equality.
* `BefristungHolds` and `ToldHolds`: of a Rolle that is not in `raced` at most one
  request is under way, so what it found of Personenkontexte, Merkmale and service
  providers still holds when it writes or tells (`Relies`).
* `NamesStayUnique`: two requests that are about to write names of one Knoten both
  have it among their sites, so unless they overlapped a checked name stays free
  (`NamesInv`).

`TokenRegister_proofs`, for any number of persons, usernames, tokens and requests:

* `TypeCorrect`, with the uniqueness of usernames. Nothing is about a token that was not
  made yet, so a token is new to everybody when it is made (`TypeInv`).
* `SitesInvariant`: requests outside `raced` have no site in common; the sites of such a
  request have with every token its user and its person, and so has `raced`. What one of
  them depends on is then changed by nobody else, even by one that has raced.
* `NoSecondToVerify`: what a request outside `raced` was told still holds when it acts
  (`KnowsInv`). The token it deletes is still to verify, there is no other when it makes
  one, and a renaming has at most one in its list and a new user that has none.
* `TakenByOwnOnly`: the person under the username that a request works with is its
  own. A former username may have been taken meanwhile, but by somebody who was created
  since, of whom nothing is in PrivacyIDEA and for whom no request is under way
  (`KnowsNew`).
* `TokensAlwaysFollow`: outside `raced` and `failed` the tokens of a person are those of
  the user or, during a renaming, those of its list, of which the calls still
  unanswered are at the former user and the answered ones at nobody or the new one
  (`Moving` in `FollowInv`).
* `DeletedGone`: a request that gives up a username and ends without a failed call has
  deleted its user, or has found nothing verified where there was a token (`LeftInv`).

Only model-checked: what `CalmServed` of `EmailLifecycle` says beyond `ServedHolds`, of names,
OX and Keycloak, and `OneEnabledAlone` where one call has failed; the type invariants of `LdapDirectory` and
`ItslearningGroups`; and all liveness properties (`ExecutionEnds`, `CallsEnd`,
`ExpiredLocksGo`, `QueueDrains`): fairness and `ENABLED` are out of the prover's reach.

## 6. Not modelled

* Rollenmapping, Meldung: single rows or single calls without steps that interact;
  the columns of a service provider.
* The VIDIS job: it fetches a list, deletes all mappings of service providers to
  organisations, and creates, changes and deletes service providers by that list. Of
  this only the deletion of a service provider (`RolleRegister`) and the creation with
  its event (`KeycloakGroups`) are modelled, the job that strings them together is not.
* Delivery by Kafka: nothing publishes to it at this commit.
* Authentication and `PersonPermissions`: decisions without state, a free choice in
  the modules.
* Seeding, the console, the import of provisioning data: run alone, once.
* Rendering, configuration, health, logging, metrics, generated clients.

Within the modelled parts: parsing and encryption in the import, texts and log
lines, reading endpoints, `deletePersonenkontextById`, the tie of two writes in one
millisecond, and what section 3 lists under the modules. What code under test
directories does (integration specs, factories) is not part of the program and
is not modelled.
