----------------------- MODULE LockManagerProperties -----------------------
(***************************************************************************)
(* What LockManager promises: the properties the runs check and            *)
(* LockManagerProofs proves.                                               *)
(***************************************************************************)
EXTENDS LockManager

(* The types of the variables; a call has locked only Lock objects it has  *)
(* fetched for its own ids.                                                *)
TypeOK ==
    /\ locks \in [Keys -> Callers \cup {NoCaller}]
    /\ owner \in [LockObjects -> Callers \cup {NoCaller}]
    /\ waiters \in [LockObjects -> Seq(Callers)]
    /\ pc \in [Callers -> Stages]
    /\ ids \in [Callers -> SUBSET Keys]
    /\ handle \in [Callers -> [Keys -> Callers \cup {NoCaller}]]
    /\ acquired \in [Callers -> SUBSET LockObjects]
    /\ \A c \in Callers : \A l \in acquired[c] :
           l[1] \in ids[c] /\ l[2] = handle[c][l[1]]

(* A Lock object is locked exactly while one call has it in `acquired`: a   *)
(* cancelled, failed or finished call leaves nothing locked, and no call    *)
(* releases a Lock that another one holds.                                  *)
OwnedIffAcquired ==
    \A c \in Callers, l \in LockObjects : owner[l] = c <=> l \in acquired[c]

(* Two bodies that run at the same time have no id in common: the reads and *)
(* writes of one user's rows inside a locked section are serialised.        *)
MutualExclusion ==
    \A c, d \in Callers :
        pc[c] = "body" /\ pc[d] = "body" /\ c # d => ids[c] \cap ids[d] = {}

(* c waits for a Lock that d has. *)
WaitsFor(c, d) ==
    /\ pc[c] = "waiting"
    /\ \E l \in LockObjects : IsNextLock(c, l) /\ owner[l] = d

(* There is no set of callers in which each one waits for another: sorted   *)
(* acquisition cannot deadlock, for any mix of requests and cancellations.  *)
NoCircularWait ==
    \A S \in SUBSET Callers : S # {} => \E c \in S : \A d \in S : ~WaitsFor(c, d)

(* LockManager implements AtomicSections: taking the locks one by one,      *)
(* queueing and cancelling look like one atomic entry and one exit.         *)
openSections == [c \in Callers |-> IF pc[c] = "body" THEN ids[c] ELSE {}]

Sections == INSTANCE AtomicSections WITH inside <- openSections

ImplementsSections == Sections!Spec

(* A call of locked() gets into its body unless it is cancelled: FIFO       *)
(* hand-over and sorted acquisition leave nobody waiting for ever.          *)
EveryCallGetsIn ==
    \A c \in Callers : pc[c] = "ensuring" ~> pc[c] \in {"body", "idle"}
=============================================================================
