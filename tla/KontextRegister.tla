-------------------------- MODULE KontextRegister --------------------------
(***************************************************************************)
(* What the update of a person's Personenkontexte promises to callers that *)
(* do not overlap: the kontexte are one register.  A caller reads it, asks *)
(* for other kontexte, and is either refused or replaces the register, in  *)
(* one step, provided it has not changed since the caller read it.  The    *)
(* event stream and the date of the last unassignment follow in that step. *)
(***************************************************************************)
EXTENDS Naturals

CONSTANTS Callers, Keys, Fristen

VARIABLES
    rows,       \* the register: kontexte with the time of their creation
    announced,  \* the keys the events add up to
    unassigned, \* the person has no kontext, and that is dated
    person,     \* the person exists
    phase, seen, want   \* of each caller

vars == <<rows, announced, unassigned, person, phase, seen, want>>

KeysOf(ks) == {k.key : k \in ks}
KontexteOf(rs) == {[key |-> r.key, frist |-> r.frist] : r \in rs}

Init ==
    /\ rows \in SUBSET [key : Keys, frist : Fristen, stamp : {1}]
    /\ announced = KeysOf(rows)
    /\ unassigned = (rows = {})
    /\ person = TRUE
    /\ phase = [c \in Callers |-> "idle"]
    /\ seen = [c \in Callers |-> {}]
    /\ want = [c \in Callers |-> {}]

\* A page may be loaded while another caller's update is half done; what it
\* shows then is no state of the register, and Commit refuses it.
See(c) ==
    /\ phase[c] = "idle"
    /\ person
    /\ seen'[c] \subseteq [key : Keys, frist : Fristen, stamp : Nat]
    /\ seen' = [seen EXCEPT ![c] = seen'[c]]
    /\ phase' = [phase EXCEPT ![c] = "seen"]
    /\ UNCHANGED <<rows, announced, unassigned, person, want>>

Ask(c) ==
    /\ phase[c] = "seen"
    /\ want' \in {[want EXCEPT ![c] = ks] :
                     ks \in SUBSET [key : Keys, frist : Fristen]}
    /\ phase' = [phase EXCEPT ![c] = "asked"]
    /\ UNCHANGED <<rows, announced, unassigned, person, seen>>

\* The compare-and-swap.  Only what is not wanted goes and only what is wanted
\* comes, newer than all that was there; the store may fail to do either for a
\* single kontext, and event and date say what it did.
Commit(c) ==
    /\ phase[c] = "asked"
    /\ person
    /\ seen[c] = rows
    /\ KontexteOf(rows \ rows') \cap want[c] = {}
    /\ KontexteOf(rows' \ rows) \subseteq want[c]
    /\ \A r \in rows' \ rows, s \in rows : r.stamp > s.stamp
    /\ \A r, s \in rows' : r.key = s.key => r = s
    /\ announced' = KeysOf(rows')
    /\ unassigned' = (rows' = {})
    /\ phase' = [phase EXCEPT ![c] = "done"]
    /\ UNCHANGED <<person, seen, want>>

Refuse(c) ==
    /\ phase[c] = "asked"
    /\ phase' = [phase EXCEPT ![c] = "done"]
    /\ UNCHANGED <<rows, announced, unassigned, person, seen, want>>

Remove ==
    /\ person
    /\ person' = FALSE
    /\ rows' = {}
    /\ announced' = {}
    /\ UNCHANGED <<unassigned, phase, seen, want>>

Next == Remove \/ \E c \in Callers : See(c) \/ Ask(c) \/ Commit(c) \/ Refuse(c)

Spec == Init /\ [][Next]_vars
=============================================================================
