----------------------- MODULE PersonenkontexteSerial -----------------------
(***************************************************************************)
(* Updates that do not overlap (MaxParallel = 1): what may be asked of     *)
(* PersonenkontexteUpdate when each call that began ends before the next   *)
(* begins, though the pages the calls start from may be arbitrarily old.   *)
(***************************************************************************)
EXTENDS PersonenkontexteUpdate

\* The calls between their first write and their event.
Writing == {c \in Calls : pc[c] \in {"delete", "add", "reread", "loaded", "saved"}}

PhaseOf(step) ==
    CASE step = "idle" -> "idle"
      [] step = "prepared" -> "seen"
      [] step \in {"rejected", "failed", "unknown", "published"} -> "done"
      [] OTHER -> "asked"

\* The register holds what the writing call found until that call publishes;
\* a deletion takes effect with the person's row.
Register == INSTANCE KontextRegister WITH
    Callers    <- Clients,
    rows       <- IF Writing = {} THEN db ELSE UNION {existing[c] : c \in Writing},
    unassigned <- IF Writing = {} THEN unassigned
                                  ELSE \E c \in Writing : existing[c] = {},
    announced  <- IF \E d \in Deletions : pc[d] = "announced" THEN KeysOf(db) ELSE known,
    phase      <- [c \in Clients |-> PhaseOf(pc[c])],
    seen       <- [c \in Clients |-> view[c]],
    want       <- [c \in Clients |-> sent[c]]

\* Administrators' updates and person deletions, run one at a time from stale
\* pages, are compare-and-swaps of the whole register: rows, event stream and
\* orgUnassignmentDate move together or not at all.
RefinesRegister == Register!Spec

Quiescent == Running = {}

\* With no call under way, the date is set exactly for persons without kontext.
OrgUnassignmentDateCorrect ==
    Quiescent /\ person => (unassigned <=> db = {})

\* A person's kontexte have rollen of one Rollenart, though single deletions
\* and insertions of a call may fail and leave a mixture of old and new rows.
SameRollenart ==
    \A x, y \in db : RollenartOf[x.key] = RollenartOf[y.key]
=============================================================================
