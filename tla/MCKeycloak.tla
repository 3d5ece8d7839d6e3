----------------------------- MODULE MCKeycloak -----------------------------
\* Small instances of one person's groups in Keycloak.
EXTENDS KeycloakGroups

Kontext(orga, rolle) == [orga |-> orga, rolle |-> rolle]

\* One Rolle at two schools and another at one of them.
MCKontexte == {Kontext("s1", "lehr"), Kontext("s2", "lehr"), Kontext("s1", "leit")}

\* The name of one group is part of the other's.
MCContains == {<<g, g>> : g \in Groups} \cup {<<"gg", "g">>}
=============================================================================
