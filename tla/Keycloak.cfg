SPECIFICATION KeycloakSpec
CONSTANTS
    Rollen = {"lehr", "leit"}
    Groups = {"g", "gg"}
    Roles = {"r"}
    RealmRoles = {}
    Kontexte <- MCKontexte
    Contains <- MCContains
    MaxEvents = 2
    MaxFailures = 1
INVARIANTS
    GroupsFollow
    ProviderServed
PROPERTY DueStays
CHECK_DEADLOCK FALSE
