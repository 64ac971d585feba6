--------------------------- MODULE AtomicSections ---------------------------
(***************************************************************************)
(* What LockManager.locked() promises to the services: a caller is either  *)
(* outside every locked section or inside one that covers a set of keys,   *)
(* and two sections that share a key are never open at the same time.      *)
(* How the keys are locked one by one is not visible here.                 *)
(***************************************************************************)
CONSTANTS Callers, Keys

VARIABLE inside     \* inside[c]: the keys c's open section covers, {} outside

Init == inside = [c \in Callers |-> {}]

(* The body of `async with locks.locked(ids)` starts. *)
EnterSection(c, ids) ==
    /\ inside[c] = {}
    /\ ids # {}
    /\ \A d \in Callers : inside[d] \cap ids = {}
    /\ inside' = [inside EXCEPT ![c] = ids]

(* The body ends: it returned, raised, or was cancelled. *)
LeaveSection(c) ==
    /\ inside[c] # {}
    /\ inside' = [inside EXCEPT ![c] = {}]

Next == \E c \in Callers :
            \/ \E ids \in SUBSET Keys : EnterSection(c, ids)
            \/ LeaveSection(c)

Spec == Init /\ [][Next]_inside
=============================================================================
