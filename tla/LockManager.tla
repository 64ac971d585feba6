---------------------------- MODULE LockManager ----------------------------
(***************************************************************************)
(* application/lock_manager.py: the process-wide LockManager every service *)
(* serialises its read-modify-writes with.  locked(ids) fetches or        *)
(* creates one asyncio.Lock per distinct id, acquires them in sorted order *)
(* and releases all of them when the body ends, however it ends.           *)
(*                                                                         *)
(* A key stands for a lock id ("guild:user", "guild:events_wallet",        *)
(* "guild:ping:message"); numbers stand for the ids in string order.  A    *)
(* caller stands for one asyncio task that is inside one call of locked(). *)
(* A Lock object is named by its key and the caller that constructed it,   *)
(* so that two objects for one key would be told apart.                    *)
(***************************************************************************)
EXTENDS Naturals, SequencesExt

CONSTANTS
    Callers,    \* the asyncio tasks
    MaxKey,     \* keys are 1..MaxKey, numbered in sort order
    Requests,   \* the sets of ids a call may name (the services name 1 or 2)
    NoCaller    \* nobody: a free lock, a key with no Lock object yet

ASSUME CallersAssumption == IsFiniteSet(Callers) /\ NoCaller \notin Callers
ASSUME MaxKeyAssumption == MaxKey \in Nat

Keys == 1..MaxKey

ASSUME RequestsAssumption == Requests \subseteq SUBSET Keys /\ {} \notin Requests

LockObjects == Keys \X Callers

VARIABLES
    locks,      \* self._locks: who constructed the Lock installed for a key
    owner,      \* the caller that has a Lock object locked
    waiters,    \* asyncio.Lock._waiters, oldest first
    pc,         \* where a caller is in locked()
    ids,        \* sorted(set(user_ids)) of a caller's call
    handle,     \* the local list `locks`: the Lock object fetched for an id
    acquired    \* the local list `acquired`

vars == <<locks, owner, waiters, pc, ids, handle, acquired>>

Stages == {"idle", "ensuring", "acquiring", "waiting", "body"}

Init ==
    /\ locks = [k \in Keys |-> NoCaller]
    /\ owner = [l \in LockObjects |-> NoCaller]
    /\ waiters = [l \in LockObjects |-> <<>>]
    /\ pc = [c \in Callers |-> "idle"]
    /\ ids = [c \in Callers |-> {}]
    /\ handle = [c \in Callers |-> [k \in Keys |-> NoCaller]]
    /\ acquired = [c \in Callers |-> {}]

-----------------------------------------------------------------------------
(* mutant of FirstOf: the ids are not sorted *)
AnyOf(k, S) == k \in S

(* k is the first of the ids S in sort order *)
FirstOf(k, S) == k \in S /\ \A j \in S : k <= j

Unfetched(c) == {k \in ids[c] : handle[c][k] = NoCaller}
Missing(c) == {k \in ids[c] : <<k, handle[c][k]>> \notin acquired[c]}

(* The Lock object c acquires next: the for loop runs over sorted ids. *)
IsNextLock(c, l) == FirstOf(l[1], Missing(c)) /\ l[2] = handle[c][l[1]]

(* A task calls locked(S). *)
Enter(c, S) ==
    /\ pc[c] = "idle"
    /\ pc' = [pc EXCEPT ![c] = "ensuring"]
    /\ ids' = [ids EXCEPT ![c] = S]
    /\ UNCHANGED <<locks, owner, waiters, handle, acquired>>

(* mutant of EnsureLock: a new Lock is installed over an existing one *)
EnsureLockOverwriting(c) ==
    /\ pc[c] = "ensuring"
    /\ \E k \in Keys :
        /\ FirstOf(k, Unfetched(c))
        /\ locks' = [locks EXCEPT ![k] = c]
        /\ handle' = [handle EXCEPT ![c][k] = c]
        /\ pc' = [pc EXCEPT ![c] = IF Unfetched(c) = {k} THEN "acquiring" ELSE @]
    /\ UNCHANGED <<owner, waiters, ids, acquired>>

(* _ensure_lock for the next id: setdefault under the meta lock. *)
EnsureLock(c) ==
    /\ pc[c] = "ensuring"
    /\ \E k \in Keys :
        /\ FirstOf(k, Unfetched(c))
        /\ locks' = [locks EXCEPT ![k] = IF @ = NoCaller THEN c ELSE @]
        /\ handle' = [handle EXCEPT ![c][k] = locks'[k]]
        /\ pc' = [pc EXCEPT ![c] = IF Unfetched(c) = {k} THEN "acquiring" ELSE @]
    /\ UNCHANGED <<owner, waiters, ids, acquired>>

(* lock.acquire() returned and the Lock is appended to `acquired`. *)
Take(c, l) ==
    /\ owner' = [owner EXCEPT ![l] = c]
    /\ acquired' = [acquired EXCEPT ![c] = @ \cup {l}]
    /\ pc' = [pc EXCEPT ![c] = IF Missing(c) = {l[1]} THEN "body" ELSE "acquiring"]

(* acquire() on a free Lock with no waiter returns without suspending. *)
AcquireFree(c) ==
    /\ pc[c] = "acquiring"
    /\ \E l \in LockObjects :
        /\ IsNextLock(c, l)
        /\ owner[l] = NoCaller /\ waiters[l] = <<>>
        /\ Take(c, l)
    /\ UNCHANGED <<locks, waiters, ids, handle>>

(* acquire() on a Lock that is taken, or that others wait for, queues. *)
Queue(c) ==
    /\ pc[c] = "acquiring"
    /\ \E l \in LockObjects :
        /\ IsNextLock(c, l)
        /\ owner[l] # NoCaller \/ waiters[l] # <<>>
        /\ waiters' = [waiters EXCEPT ![l] = Append(@, c)]
    /\ pc' = [pc EXCEPT ![c] = "waiting"]
    /\ UNCHANGED <<locks, owner, ids, handle, acquired>>

(* The oldest waiter of a released Lock resumes and takes it. *)
Resume(c) ==
    /\ pc[c] = "waiting"
    /\ \E l \in LockObjects :
        /\ IsNextLock(c, l)
        /\ owner[l] = NoCaller /\ waiters[l] # <<>> /\ Head(waiters[l]) = c
        /\ waiters' = [waiters EXCEPT ![l] = Tail(@)]
        /\ Take(c, l)
    /\ UNCHANGED <<locks, ids, handle>>

(* mutant of ReleaseAll: only what a call that reached its body holds is released *)
ReleaseAllOfBody(c) ==
    /\ owner' = [l \in LockObjects |->
                    IF pc[c] = "body" /\ l \in acquired[c] THEN NoCaller ELSE owner[l]]
    /\ acquired' = [acquired EXCEPT ![c] = {}]
    /\ ids' = [ids EXCEPT ![c] = {}]
    /\ handle' = [handle EXCEPT ![c] = [k \in Keys |-> NoCaller]]
    /\ pc' = [pc EXCEPT ![c] = "idle"]

(* mutant of ReleaseAll: the list `acquired` outlives the call *)
ReleaseAllKeepingList(c) ==
    /\ owner' = [l \in LockObjects |-> IF l \in acquired[c] THEN NoCaller ELSE owner[l]]
    /\ ids' = [ids EXCEPT ![c] = {}]
    /\ handle' = [handle EXCEPT ![c] = [k \in Keys |-> NoCaller]]
    /\ pc' = [pc EXCEPT ![c] = "idle"]
    /\ UNCHANGED acquired

(* The finally block: release() everything in `acquired`.  release() frees  *)
(* the Lock whoever has it; the locals die with the call.                   *)
ReleaseAll(c) ==
    /\ owner' = [l \in LockObjects |-> IF l \in acquired[c] THEN NoCaller ELSE owner[l]]
    /\ acquired' = [acquired EXCEPT ![c] = {}]
    /\ ids' = [ids EXCEPT ![c] = {}]
    /\ handle' = [handle EXCEPT ![c] = [k \in Keys |-> NoCaller]]
    /\ pc' = [pc EXCEPT ![c] = "idle"]

(* The body ends: it returns, raises, or is cancelled at one of its awaits. *)
Leave(c) ==
    /\ pc[c] = "body"
    /\ ReleaseAll(c)
    /\ UNCHANGED <<locks, waiters>>

(* The task is cancelled at an _ensure_lock await: no Lock is held yet. *)
CancelFetch(c) ==
    /\ pc[c] = "ensuring"
    /\ ReleaseAll(c)
    /\ UNCHANGED <<locks, waiters>>

(* The task is cancelled while it waits for its N-th Lock: it leaves the    *)
(* queue, and the N-1 Locks in `acquired` are released.                     *)
CancelWait(c) ==
    /\ pc[c] = "waiting"
    /\ \E l \in LockObjects :
        /\ IsNextLock(c, l)
        /\ \E i \in 1..Len(waiters[l]) :
            /\ waiters[l][i] = c
            /\ waiters' = [waiters EXCEPT ![l] = RemoveAt(@, i)]
    /\ ReleaseAll(c)
    /\ UNCHANGED locks

Progress(c) == EnsureLock(c) \/ AcquireFree(c) \/ Queue(c) \/ Resume(c)

Next == \E c \in Callers :
            \/ \E S \in Requests : Enter(c, S)
            \/ Progress(c)
            \/ Leave(c)
            \/ CancelFetch(c)
            \/ CancelWait(c)

Spec == Init /\ [][Next]_vars

(* The event loop runs every task that can run, and every body ends: the    *)
(* services do database calls inside it and never lock again.               *)
Fairness == \A c \in Callers : WF_vars(Progress(c)) /\ WF_vars(Leave(c))

FairSpec == Spec /\ Fairness
=============================================================================
