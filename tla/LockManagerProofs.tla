------------------------- MODULE LockManagerProofs -------------------------
(***************************************************************************)
(* Proofs about LockManager for any finite set of callers, any number of   *)
(* ids and any mix of requests.                                            *)
(***************************************************************************)
EXTENDS LockManagerProperties, TLAPS, WellFoundedInduction, SequenceTheorems

(* What a call knows at each stage, the part of the inductive invariant     *)
(* that the three promises follow from:                                     *)
(*   a fetched handle is the Lock object that is installed for the id;      *)
(*   past the fetching stage every id has a handle;                         *)
(*   nothing is acquired before that stage, and everything in the body;     *)
(*   a call has ids from its start to its end;                              *)
(*   and the ids it has locked sort before the ids it has not.              *)
HandleInv ==
    \A c \in Callers : \A k \in Keys :
        handle[c][k] # NoCaller => handle[c][k] = locks[k]

StageInv ==
    \A c \in Callers :
        /\ pc[c] = "idle" <=> ids[c] = {}
        /\ pc[c] \in {"acquiring", "waiting", "body"} => Unfetched(c) = {}
        /\ pc[c] \in {"idle", "ensuring"} => acquired[c] = {}
        /\ pc[c] = "body" => Missing(c) = {}

OrderInv ==
    \A c \in Callers : \A l \in acquired[c] : \A k \in Missing(c) : l[1] < k

IInv ==
    /\ TypeOK
    /\ HandleInv
    /\ StageInv
    /\ OwnedIffAcquired
    /\ OrderInv

-----------------------------------------------------------------------------
(* The initial state satisfies the inductive invariant. *)
LEMMA InitIInv == Init => IInv
<1> USE DEF Init, LockObjects
<1>1. Init => TypeOK
  BY EmptySeq DEF TypeOK, Stages
<1>2. Init => HandleInv
  BY DEF HandleInv
<1>3. Init => StageInv
  BY DEF StageInv
<1>4. Init => OwnedIffAcquired
  BY CallersAssumption DEF OwnedIffAcquired
<1>5. Init => OrderInv
  BY DEF OrderInv
<1> QED
  BY <1>1, <1>2, <1>3, <1>4, <1>5 DEF IInv

(* A task enters locked(): it has ids, no handles and no Locks. *)
LEMMA EnterIInv ==
  ASSUME IInv, NEW c \in Callers, NEW S \in Requests, Enter(c, S)
  PROVE  IInv'
<1> USE RequestsAssumption DEF IInv, Enter
<1>1. TypeOK'
  BY DEF TypeOK, Stages, StageInv
<1>2. HandleInv'
  BY DEF HandleInv
<1>3. StageInv'
  <2> SUFFICES ASSUME NEW d \in Callers
               PROVE  /\ pc'[d] = "idle" <=> ids'[d] = {}
                      /\ pc'[d] \in {"acquiring", "waiting", "body"} => Unfetched(d)' = {}
                      /\ pc'[d] \in {"idle", "ensuring"} => acquired'[d] = {}
                      /\ pc'[d] = "body" => Missing(d)' = {}
    BY DEF StageInv
  <2>1. CASE d = c
    BY <2>1 DEF StageInv, TypeOK
  <2>2. CASE d # c
    BY <2>2 DEF StageInv, TypeOK, Unfetched, Missing
  <2> QED
    BY <2>1, <2>2
<1>4. OwnedIffAcquired'
  BY DEF OwnedIffAcquired
<1>5. OrderInv'
  BY DEF OrderInv, Missing, StageInv, TypeOK
<1> QED
  BY <1>1, <1>2, <1>3, <1>4, <1>5

(* One _ensure_lock: the id's handle is the installed Lock, new or not. *)
LEMMA EnsureIInv ==
  ASSUME IInv, NEW c \in Callers, EnsureLock(c)
  PROVE  IInv'
<1> USE DEF IInv
<1> PICK k \in Keys :
        /\ FirstOf(k, Unfetched(c))
        /\ locks' = [locks EXCEPT ![k] = IF @ = NoCaller THEN c ELSE @]
        /\ handle' = [handle EXCEPT ![c][k] = locks'[k]]
        /\ pc' = [pc EXCEPT ![c] = IF Unfetched(c) = {k} THEN "acquiring" ELSE @]
  BY DEF EnsureLock
<1> UNCHANGED <<owner, waiters, ids, acquired>> /\ pc[c] = "ensuring"
  BY DEF EnsureLock
<1>k. k \in ids[c] /\ handle[c][k] = NoCaller /\ acquired[c] = {}
  BY DEF FirstOf, Unfetched, StageInv
<1>1. TypeOK'
  BY <1>k DEF TypeOK, Stages
<1>2. HandleInv'
  BY CallersAssumption DEF HandleInv, TypeOK
<1>3. StageInv'
  <2> SUFFICES ASSUME NEW d \in Callers
               PROVE  /\ pc'[d] = "idle" <=> ids'[d] = {}
                      /\ pc'[d] \in {"acquiring", "waiting", "body"} => Unfetched(d)' = {}
                      /\ pc'[d] \in {"idle", "ensuring"} => acquired'[d] = {}
                      /\ pc'[d] = "body" => Missing(d)' = {}
    BY DEF StageInv
  <2>1. CASE d = c
    <3>1. locks'[k] # NoCaller
      BY CallersAssumption DEF TypeOK
    <3>2. Unfetched(c)' = Unfetched(c) \ {k}
      BY <3>1 DEF Unfetched, TypeOK
    <3> QED
      BY <2>1, <3>2, <1>k DEF StageInv, TypeOK
  <2>2. CASE d # c
    BY <2>2 DEF StageInv, TypeOK, Unfetched, Missing
  <2> QED
    BY <2>1, <2>2
<1>4. OwnedIffAcquired'
  BY DEF OwnedIffAcquired
<1>5. OrderInv'
  BY <1>k DEF OrderInv, Missing, TypeOK
<1> QED
  BY <1>1, <1>2, <1>3, <1>4, <1>5

(* One Lock is acquired, on the fast path or from the head of the queue. *)
LEMMA TakeIInv ==
  ASSUME IInv, NEW c \in Callers, NEW l \in LockObjects,
         pc[c] \in {"acquiring", "waiting"}, IsNextLock(c, l), owner[l] = NoCaller,
         Take(c, l), waiters' \in [LockObjects -> Seq(Callers)],
         UNCHANGED <<locks, ids, handle>>
  PROVE  IInv'
<1> USE DEF IInv, Take
<1>k. /\ l[1] \in Keys /\ l[2] \in Callers /\ l = <<l[1], l[2]>>
      /\ l[1] \in Missing(c) /\ l[2] = handle[c][l[1]]
      /\ \A j \in Missing(c) : l[1] <= j
  BY DEF IsNextLock, FirstOf, LockObjects
<1>m. Missing(c)' = Missing(c) \ {l[1]}
  BY <1>k DEF Missing, TypeOK
<1>o. \A d \in Callers : d # c => Missing(d)' = Missing(d)
  BY DEF Missing, TypeOK
<1>1. TypeOK'
  BY <1>k DEF TypeOK, Stages, Missing
<1>2. HandleInv'
  BY DEF HandleInv
<1>3. StageInv'
  BY <1>m, <1>o, <1>k DEF StageInv, TypeOK, Unfetched
<1>4. OwnedIffAcquired'
  BY CallersAssumption DEF OwnedIffAcquired, TypeOK
<1>5. OrderInv'
  <2> SUFFICES ASSUME NEW d \in Callers, NEW m \in acquired'[d], NEW k \in Missing(d)'
               PROVE  m[1] < k
    BY DEF OrderInv
  <2>1. CASE d = c /\ m = l
    <3>1. k \in Missing(c) /\ k # l[1]
      BY <2>1, <1>m
    <3>2. k \in Nat /\ l[1] \in Nat
      BY <3>1, <1>k, MaxKeyAssumption DEF Missing, TypeOK, Keys
    <3> QED
      BY <2>1, <3>1, <3>2, <1>k
  <2>2. CASE d = c /\ m # l
    BY <2>2, <1>m DEF OrderInv, TypeOK
  <2>3. CASE d # c
    BY <2>3, <1>o DEF OrderInv, TypeOK
  <2> QED
    BY <2>1, <2>2, <2>3
<1> QED
  BY <1>1, <1>2, <1>3, <1>4, <1>5

(* A call ends: what it had acquired is free again, and nothing else. *)
LEMMA ReleaseIInv ==
  ASSUME IInv, NEW c \in Callers, ReleaseAll(c),
         waiters' \in [LockObjects -> Seq(Callers)], UNCHANGED locks
  PROVE  IInv'
<1> USE DEF IInv, ReleaseAll
<1>1. TypeOK'
  BY DEF TypeOK, Stages
<1>2. HandleInv'
  BY DEF HandleInv, TypeOK
<1>3. StageInv'
  BY DEF StageInv, TypeOK, Unfetched, Missing
<1>4. OwnedIffAcquired'
  BY CallersAssumption DEF OwnedIffAcquired, TypeOK
<1>5. OrderInv'
  BY DEF OrderInv, Missing, TypeOK
<1> QED
  BY <1>1, <1>2, <1>3, <1>4, <1>5

-----------------------------------------------------------------------------
(* Every step preserves the inductive invariant. *)
LEMMA NextIInv == IInv /\ [Next]_vars => IInv'
<1> SUFFICES ASSUME IInv, [Next]_vars
             PROVE  IInv'
  OBVIOUS
<1>1. ASSUME NEW c \in Callers, NEW S \in Requests, Enter(c, S)
      PROVE  IInv'
  BY <1>1, EnterIInv
<1>2. ASSUME NEW c \in Callers, EnsureLock(c)
      PROVE  IInv'
  BY <1>2, EnsureIInv
<1>3. ASSUME NEW c \in Callers, AcquireFree(c)
      PROVE  IInv'
  BY <1>3, TakeIInv DEF AcquireFree, IInv, TypeOK
<1>4. ASSUME NEW c \in Callers, Queue(c)
      PROVE  IInv'
  <2> PICK l \in LockObjects : waiters' = [waiters EXCEPT ![l] = Append(@, c)]
    BY <1>4 DEF Queue
  <2> USE <1>4 DEF Queue, IInv
  <2>0. waiters' \in [LockObjects -> Seq(Callers)]
    BY AppendProperties DEF TypeOK
  <2>1. TypeOK'
    BY <2>0 DEF TypeOK, Stages
  <2>2. HandleInv'
    BY DEF HandleInv
  <2>3. StageInv'
    BY DEF StageInv, TypeOK, Unfetched, Missing
  <2>4. OwnedIffAcquired' /\ OrderInv'
    BY DEF OwnedIffAcquired, OrderInv, Missing
  <2> QED
    BY <2>1, <2>2, <2>3, <2>4
<1>5. ASSUME NEW c \in Callers, Resume(c)
      PROVE  IInv'
  <2> PICK l \in LockObjects :
          /\ IsNextLock(c, l) /\ owner[l] = NoCaller /\ waiters[l] # <<>>
          /\ waiters' = [waiters EXCEPT ![l] = Tail(@)]
          /\ Take(c, l)
    BY <1>5 DEF Resume
  <2>1. waiters' \in [LockObjects -> Seq(Callers)]
    BY HeadTailProperties DEF IInv, TypeOK
  <2> QED
    BY <1>5, <2>1, TakeIInv DEF Resume
<1>6. ASSUME NEW c \in Callers, Leave(c) \/ CancelFetch(c)
      PROVE  IInv'
  BY <1>6, ReleaseIInv DEF Leave, CancelFetch, IInv, TypeOK
<1>7. ASSUME NEW c \in Callers, CancelWait(c)
      PROVE  IInv'
  <2> PICK l \in LockObjects : \E i \in 1..Len(waiters[l]) :
               waiters' = [waiters EXCEPT ![l] = RemoveAt(@, i)]
    BY <1>7 DEF CancelWait
  <2> PICK i \in 1..Len(waiters[l]) : waiters' = [waiters EXCEPT ![l] = RemoveAt(@, i)]
    OBVIOUS
  <2>1. waiters[l] \in Seq(Callers)
    BY DEF IInv, TypeOK
  <2>2. RemoveAt(waiters[l], i) \in Seq(Callers)
    <3>1. SubSeq(waiters[l], 1, i - 1) \in Seq(Callers)
      BY <2>1, SubSeqProperties, LenProperties
    <3>2. SubSeq(waiters[l], i + 1, Len(waiters[l])) \in Seq(Callers)
      BY <2>1, SubSeqProperties, LenProperties
    <3> QED
      BY <3>1, <3>2, ConcatProperties DEF RemoveAt
  <2>3. waiters' \in [LockObjects -> Seq(Callers)]
    BY <2>2 DEF IInv, TypeOK
  <2> QED
    BY <1>7, <2>3, ReleaseIInv DEF CancelWait
<1>8. CASE UNCHANGED vars
  BY <1>8 DEF vars, IInv, TypeOK, HandleInv, StageInv, OwnedIffAcquired, OrderInv,
              Unfetched, Missing
<1> QED
  BY <1>1, <1>2, <1>3, <1>4, <1>5, <1>6, <1>7, <1>8 DEF Next, Progress

LEMMA InvariantHolds == Spec => []IInv
BY InitIInv, NextIInv, PTL DEF Spec

(* The variables have their types, and a call's acquired Locks are Locks it *)
(* fetched for its own ids (locked, lock_manager.py).                       *)
THEOREM TypeCorrect == Spec => []TypeOK
<1>1. IInv => TypeOK
  BY DEF IInv
<1> QED
  BY <1>1, InvariantHolds, PTL

(* The finally block of locked(): whatever is cancelled, and whenever, a    *)
(* Lock is locked exactly while a live call has it in `acquired`.           *)
THEOREM NoLeakedLock == Spec => []OwnedIffAcquired
<1>1. IInv => OwnedIffAcquired
  BY DEF IInv
<1> QED
  BY <1>1, InvariantHolds, PTL

(* Bodies that share an id never run together (what every service's         *)
(* read-modify-write under locked() relies on).                             *)
LEMMA InvMutex == IInv => MutualExclusion
<1> SUFFICES ASSUME IInv, NEW c \in Callers, NEW d \in Callers, NEW k \in ids[c] \cap ids[d],
                    pc[c] = "body", pc[d] = "body"
             PROVE  c = d
  BY DEF MutualExclusion
<1>1. k \in Keys
  BY DEF IInv, TypeOK
<1>2. handle[c][k] # NoCaller /\ handle[d][k] # NoCaller
  BY DEF IInv, StageInv, Unfetched
<1>3. handle[c][k] = handle[d][k]
  BY <1>1, <1>2 DEF IInv, HandleInv
<1>4. <<k, handle[c][k]>> \in acquired[c] /\ <<k, handle[d][k]>> \in acquired[d]
  BY DEF IInv, StageInv, Missing
<1>5. <<k, handle[c][k]>> \in LockObjects
  BY <1>4 DEF IInv, TypeOK
<1> QED
  BY <1>3, <1>4, <1>5 DEF IInv, OwnedIffAcquired

(* The same, of every behaviour. *)
THEOREM MutualExclusionHolds == Spec => []MutualExclusion
BY InvMutex, InvariantHolds, PTL

-----------------------------------------------------------------------------
(* No circular wait.  Whoever owns the Lock that c waits for and waits      *)
(* itself, waits for a Lock with a greater id; so in a set of callers the   *)
(* one that waits for the greatest id waits for nobody in the set.          *)

(* The ids the callers in S wait for, counted down from MaxKey. *)
AwaitedBelowMax(S) ==
    {n \in Nat : \E c \in S, l \in LockObjects :
                     pc[c] = "waiting" /\ IsNextLock(c, l) /\ n = MaxKey - l[1]}

(* The owner d of the Lock c waits for, if it waits too, waits for a Lock   *)
(* whose id is strictly greater.                                            *)
LEMMA WaitsUpwards ==
  ASSUME IInv, NEW c \in Callers, NEW d \in Callers, NEW l \in LockObjects,
         NEW m \in LockObjects, owner[l] = d, IsNextLock(d, m)
  PROVE  l[1] < m[1]
<1>1. l \in acquired[d]
  BY DEF IInv, OwnedIffAcquired
<1>2. m[1] \in Missing(d)
  BY DEF IsNextLock, FirstOf
<1> QED
  BY <1>1, <1>2 DEF IInv, OrderInv

LEMMA InvNoCircularWait == IInv => NoCircularWait
<1> SUFFICES ASSUME IInv, NEW S \in SUBSET Callers, S # {},
                    \A c \in S : \E d \in S : WaitsFor(c, d)
             PROVE  FALSE
  BY DEF NoCircularWait
<1> DEFINE T == AwaitedBelowMax(S)
<1>1. T \subseteq Nat
  BY DEF AwaitedBelowMax
<1>2. \A c \in S, l \in LockObjects :
          pc[c] = "waiting" /\ IsNextLock(c, l) => MaxKey - l[1] \in T
  BY MaxKeyAssumption DEF AwaitedBelowMax, LockObjects, Keys
<1>3. T # {}
  BY <1>2 DEF WaitsFor
<1>4. PICK n \in T : \A m \in T : ~ (<<m, n>> \in OpToRel(<, Nat))
  BY <1>1, <1>3, NatLessThanWellFounded, WFMin
<1>5. PICK c \in S, l \in LockObjects :
          pc[c] = "waiting" /\ IsNextLock(c, l) /\ n = MaxKey - l[1]
  BY <1>4 DEF AwaitedBelowMax
<1>6. PICK d \in S : WaitsFor(c, d)
  OBVIOUS
<1>7. owner[l] = d
  <2>1. PICK k \in LockObjects : IsNextLock(c, k) /\ owner[k] = d
    BY <1>6 DEF WaitsFor
  <2>2. k[1] = l[1]
    BY <2>1, <1>5, MaxKeyAssumption DEF IsNextLock, FirstOf, LockObjects, Keys
  <2>3. k[2] = l[2]
    BY <2>1, <2>2, <1>5 DEF IsNextLock
  <2>4. k = l
    BY <2>2, <2>3 DEF LockObjects
  <2> QED
    BY <2>1, <2>4
<1>8. PICK m \in LockObjects : pc[d] = "waiting" /\ IsNextLock(d, m)
  BY DEF WaitsFor
<1>9. l[1] < m[1]
  BY <1>7, <1>8, WaitsUpwards
<1>10. MaxKey - m[1] \in T /\ MaxKey - m[1] < n
  BY <1>2, <1>5, <1>8, <1>9, MaxKeyAssumption DEF LockObjects, Keys
<1>11. <<MaxKey - m[1], n>> \in OpToRel(<, Nat)
  BY <1>10, <1>1, <1>4 DEF OpToRel
<1> QED
  BY <1>4, <1>10, <1>11

(* Sorted acquisition admits no circular wait (lock_manager.py's deadlock   *)
(* safety), whatever the calls name and whichever are cancelled.            *)
THEOREM NoCircularWaitHolds == Spec => []NoCircularWait
BY InvNoCircularWait, InvariantHolds, PTL

-----------------------------------------------------------------------------
(* LockManager implements AtomicSections. *)

(* Acquiring the last Lock is the atomic entry, any other one a stutter. *)
LEMMA TakeRefines ==
  ASSUME IInv, IInv', NEW c \in Callers, NEW l \in LockObjects,
         pc[c] \in {"acquiring", "waiting"}, Take(c, l), UNCHANGED ids
  PROVE  [Sections!Next]_openSections
<1>1. CASE pc'[c] # "body"
  BY <1>1 DEF openSections, Take, IInv, TypeOK
<1>2. CASE pc'[c] = "body"
  <2>1. ids[c] \in SUBSET Keys /\ ids[c] # {}
    BY DEF IInv, TypeOK, StageInv
  <2>2. \A d \in Callers : openSections[d] \cap ids[c] = {}
    <3> SUFFICES ASSUME NEW d \in Callers, pc[d] = "body"
                 PROVE  ids[d] \cap ids[c] = {}
      BY DEF openSections
    <3>1. pc'[d] = "body" /\ c # d
      BY DEF Take, IInv, TypeOK
    <3>2. MutualExclusion'
      BY InvMutex, PTL
    <3> QED
      BY <3>1, <3>2, <1>2 DEF MutualExclusion
  <2>3. openSections[c] = {}
    BY DEF openSections
  <2>4. openSections' = [openSections EXCEPT ![c] = ids[c]]
    BY <1>2 DEF openSections, Take, IInv, TypeOK
  <2> QED
    BY <2>1, <2>2, <2>3, <2>4 DEF Sections!Next, Sections!EnterSection
<1> QED
  BY <1>1, <1>2

(* A body that ends is the atomic exit, a call cancelled before its body a  *)
(* stutter.                                                                 *)
LEMMA ReleaseRefines ==
  ASSUME IInv, NEW c \in Callers, ReleaseAll(c)
  PROVE  [Sections!Next]_openSections
<1>1. CASE pc[c] = "body"
  <2>1. openSections[c] # {}
    BY <1>1 DEF openSections, IInv, StageInv
  <2>2. openSections' = [openSections EXCEPT ![c] = {}]
    BY DEF openSections, ReleaseAll, IInv, TypeOK
  <2> QED
    BY <2>1, <2>2 DEF Sections!Next, Sections!LeaveSection
<1>2. CASE pc[c] # "body"
  BY <1>2 DEF openSections, ReleaseAll, IInv, TypeOK
<1> QED
  BY <1>1, <1>2

(* Every step maps to a step of AtomicSections or to a stutter. *)
LEMMA StepRefines == IInv /\ IInv' /\ [Next]_vars => [Sections!Next]_openSections
<1> SUFFICES ASSUME IInv, IInv', [Next]_vars
             PROVE  [Sections!Next]_openSections
  OBVIOUS
<1>1. ASSUME NEW c \in Callers, NEW S \in Requests, Enter(c, S)
      PROVE  UNCHANGED openSections
  BY <1>1 DEF Enter, openSections, IInv, TypeOK
<1>2. ASSUME NEW c \in Callers, EnsureLock(c)
      PROVE  UNCHANGED openSections
  BY <1>2 DEF EnsureLock, openSections, IInv, TypeOK
<1>3. ASSUME NEW c \in Callers, Queue(c)
      PROVE  UNCHANGED openSections
  BY <1>3 DEF Queue, openSections, IInv, TypeOK
<1>4. ASSUME NEW c \in Callers, AcquireFree(c) \/ Resume(c)
      PROVE  [Sections!Next]_openSections
  BY <1>4, TakeRefines DEF AcquireFree, Resume
<1>5. ASSUME NEW c \in Callers, Leave(c) \/ CancelFetch(c) \/ CancelWait(c)
      PROVE  [Sections!Next]_openSections
  BY <1>5, ReleaseRefines DEF Leave, CancelFetch, CancelWait
<1>6. CASE UNCHANGED vars
  BY <1>6 DEF vars, openSections
<1> QED
  BY <1>1, <1>2, <1>3, <1>4, <1>5, <1>6 DEF Next, Progress

(* Locking the ids one by one, queueing and cancelling cannot be told from  *)
(* one atomic entry into a section and one exit from it.                    *)
THEOREM LockManagerRefinesSections == Spec => ImplementsSections
<1>1. Init => Sections!Init
  BY DEF Init, Sections!Init, openSections
<1> QED
  BY <1>1, InvariantHolds, StepRefines, PTL DEF Spec, ImplementsSections, Sections!Spec
=============================================================================
