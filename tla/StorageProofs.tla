----------------------------- MODULE StorageProofs -----------------------------
(***************************************************************************)
(* Proofs about Storage.tla, for any owners and tasks, any sections of the *)
(* services, any files to migrate and any bounds that satisfy the          *)
(* assumptions of Storage and of the modules it extends.                   *)
(*                                                                         *)
(* The inductive invariant IInv says where every client stands.  A call it *)
(* has to make is one of the upserts of the repositories with its last n   *)
(* statements left, to the next version of its aggregate (to the version   *)
(* of the file for the migrator); what it sees of a table is what is       *)
(* committed, nothing, or the new version, as Midway tells from n.  What a *)
(* section has read under its locks is what is committed, since no other   *)
(* section holds these locks and the migrator is not at work; what the     *)
(* snapshot has read without locks is not newer than that, and children    *)
(* are read after their parents.  Every aggregate is whole, and until the  *)
(* migrator succeeds is either not there or as the files have it.          *)
(***************************************************************************)
EXTENDS StorageProperties, FiniteSetTheorems, SequenceTheorems, TLAPS

(* A database without a broken key. *)
AnyRow == [table : TableNames, of : Owners, val : Nat \ {0}]
Well(R) ==
    /\ R \subseteq AnyRow /\ IsFiniteSet(R)
    /\ \A r, s \in R : SameKey(r, s) => r = s
    /\ \A r \in R : HasParent(R, r)

(* The tables of the schema, which hang from others and from which. *)
LEMMA Schema ==
    /\ ChildTables = {"long_positions", "short_positions", "activity_buckets",
                      "voice_unique_channels", "price_history", "fund_investors"}
    /\ Parent["long_positions"] = "users" /\ Parent["short_positions"] = "users"
    /\ Parent["activity_buckets"] = "users"
    /\ Parent["voice_unique_channels"] = "activity_buckets"
    /\ Parent["price_history"] = "stocks" /\ Parent["fund_investors"] = "hedge_funds"
    /\ TableNames = ChildTables \cup {"users", "stocks", "hedge_funds", "fund_penalties",
                                      "trade_cooldowns"}
BY DEF ChildTables, Parent, TableNames

(* What a table hangs from is another table. *)
LEMMA ParentNamed == \A t \in ChildTables : Parent[t] \in TableNames /\ Parent[t] # t
BY Schema

(* A SELECT answers a number, 0 when there is no row. *)
LEMMA FoundNone ==
    ASSUME NEW R, Well(R), NEW t \in TableNames, NEW o \in Owners
    PROVE  /\ Found(R, t, o) \in Nat
           /\ Found(R, t, o) = 0 <=> RowsIn(R, t, o) = {}
<1>1. IsFiniteSet(RowsIn(R, t, o))
  BY FS_Subset DEF Well, RowsIn
<1>2. CASE t = "price_history"
  BY <1>1, <1>2, FS_CardinalityType, FS_EmptySet DEF Found
<1>3. CASE t # "price_history" /\ RowsIn(R, t, o) = {}
  BY <1>3 DEF Found
<1>4. CASE t # "price_history" /\ RowsIn(R, t, o) # {}
  <2>1. (CHOOSE r \in RowsIn(R, t, o) : TRUE) \in RowsIn(R, t, o)
    BY <1>4
  <2>2. (CHOOSE r \in RowsIn(R, t, o) : TRUE).val \in Nat \ {0}
    BY <2>1 DEF RowsIn, Well, AnyRow
  <2> QED BY <1>4, <2>2 DEF Found
<1> QED BY <1>2, <1>3, <1>4

(* Where a table has one row for an owner, a SELECT answers its value. *)
LEMMA FoundThe ==
    ASSUME NEW R, Well(R), NEW r \in R, r.table # "price_history"
    PROVE  Found(R, r.table, r.of) = r.val
<1>1. r \in RowsIn(R, r.table, r.of)
  BY DEF RowsIn
<1>2. \A s \in RowsIn(R, r.table, r.of) : s = r
  BY DEF RowsIn, Well, SameKey
<1>3. RowsIn(R, r.table, r.of) = {r}
  BY <1>1, <1>2
<1> QED BY <1>3 DEF Found

(* What is found depends on the rows of the owner in the table only. *)
LEMMA FoundSame ==
    ASSUME NEW R, NEW Q, NEW t, NEW o, RowsIn(Q, t, o) = RowsIn(R, t, o)
    PROVE  Found(Q, t, o) = Found(R, t, o)
BY DEF Found

(* Where the parent has no row, the child has none. *)
LEMMA ParentsFound ==
    ASSUME NEW R, Well(R), NEW t \in ChildTables, NEW o \in Owners, Found(R, Parent[t], o) = 0
    PROVE  Found(R, t, o) = 0
<1>1. t \in TableNames /\ Parent[t] \in TableNames
  BY ParentNamed DEF TableNames
<1>2. RowsIn(R, Parent[t], o) = {}
  BY <1>1, FoundNone
<1>3. RowsIn(R, t, o) = {}
  BY <1>2 DEF Well, HasParent, RowsIn
<1> QED BY <1>1, <1>3, FoundNone

-----------------------------------------------------------------------------
(* What the statements do, to the rows and to what is found. *)
Becomes(R, Q, o, tables, v) ==
    \A u \in Owners, s \in TableNames :
        Found(Q, s, u) = IF u = o /\ s \in tables THEN v ELSE Found(R, s, u)

(* A merge is always allowed, and a SELECT of its table then answers the    *)
(* value.                                                                   *)
LEMMA Merged ==
    ASSUME NEW R, Well(R), NEW t \in TableNames \ ChildTables, NEW o \in Owners,
           NEW v \in Nat \ {0}, NEW Q, Q = Effect(R, Merge(t, o, v))
    PROVE  Allowed(R, Merge(t, o, v)) /\ Well(Q) /\ Becomes(R, Q, o, {t}, v)
<1> DEFINE new == Row(t, o, v)
           old == {r \in R : r.table # t \/ r.of # o}
<1>1. Q = old \cup {new}
  BY DEF Effect, Merge, NewRows
<1>2. Allowed(R, Merge(t, o, v))
  BY DEF Allowed, Merge, NewRows, HasParent, Row
<1>3. new \in AnyRow /\ new.table = t /\ new.of = o /\ new.val = v
  BY DEF Row, AnyRow
<1> HIDE DEF new
<1>4. \A u \in Owners, s \in TableNames : s # t \/ u # o => RowsIn(Q, s, u) = RowsIn(R, s, u)
  BY <1>1, <1>3 DEF RowsIn
<1>5. Well(Q)
  <2>1. Q \subseteq AnyRow
    BY <1>1, <1>3 DEF Well
  <2>2. IsFiniteSet(Q)
    BY <1>1, FS_Subset, FS_Union, FS_Singleton DEF Well
  <2>3. \A r, s \in Q : SameKey(r, s) => r = s
    <3>1. t # "price_history"
      BY Schema
    <3>2. \A r \in old : ~SameKey(r, new) /\ ~SameKey(new, r)
      BY <1>3, <3>1 DEF SameKey
    <3>3. \A r, s \in old : SameKey(r, s) => r = s
      BY DEF Well
    <3> HIDE DEF old
    <3> QED BY <1>1, <3>2, <3>3
  <2>4. \A r \in Q : HasParent(Q, r)
    <3> SUFFICES ASSUME NEW r \in Q, r.table \in ChildTables
                 PROVE  RowsIn(Q, Parent[r.table], r.of) # {}
      BY DEF HasParent
    <3>1. r \in R /\ r.of \in Owners
      BY <1>1, <1>3 DEF Well, AnyRow
    <3>2. PICK p \in R : p.table = Parent[r.table] /\ p.of = r.of
      BY <3>1 DEF Well, HasParent, RowsIn
    <3>3. CASE p.table = t /\ p.of = o
      BY <1>1, <1>3, <3>2, <3>3 DEF RowsIn
    <3>4. CASE ~(p.table = t /\ p.of = o)
      BY <1>1, <3>2, <3>4 DEF RowsIn
    <3> QED BY <3>3, <3>4
  <2> QED BY <2>1, <2>2, <2>3, <2>4 DEF Well
<1>6. Found(Q, t, o) = v
  BY <1>1, <1>3, <1>5, FoundThe, Schema
<1> QED
  BY <1>2, <1>4, <1>5, <1>6, FoundSame DEF Becomes

(* A delete is always allowed, and takes the rows that hang from it along. *)
LEMMA Deleted ==
    ASSUME NEW R, Well(R), NEW t \in ChildTables, NEW o \in Owners,
           NEW Q, Q = Effect(R, DeleteFrom(t, o))
    PROVE  /\ Allowed(R, DeleteFrom(t, o)) /\ Well(Q)
           /\ Becomes(R, Q, o, {t} \cup {s \in ChildTables : Parent[s] = t}, 0)
<1> DEFINE gone == RowsIn(R, t, o)
           children == Orphans(R, gone)
<1>1. Q = R \ (gone \cup children \cup Orphans(R, children))
  BY DEF Effect, DeleteFrom, Without
<1>2. Allowed(R, DeleteFrom(t, o))
  BY DEF Allowed, DeleteFrom
<1>3. \A r \in R : r \in children <=> /\ r.table \in ChildTables /\ Parent[r.table] = t
                                      /\ r.of = o /\ gone # {}
  BY DEF Orphans, RowsIn
<1>4. Orphans(R, children) = {}
  <2>1. \A r \in children : r.table = "voice_unique_channels"
    BY <1>3, Schema DEF Orphans
  <2> QED BY <2>1, Schema DEF Orphans
<1>5. \A r \in R : r.table \in ChildTables /\ Parent[r.table] = t /\ r.of = o => gone # {}
  BY DEF Well, HasParent
<1>6. \A r \in R : r \in Q <=> ~(r.of = o /\ (r.table = t \/ (r.table \in ChildTables /\ Parent[r.table] = t)))
  BY <1>1, <1>3, <1>4, <1>5 DEF RowsIn
<1>7. Q \subseteq R
  BY <1>1
<1> HIDE DEF gone, children
<1>8. Well(Q)
  <2>1. Q \subseteq AnyRow /\ IsFiniteSet(Q) /\ \A r, s \in Q : SameKey(r, s) => r = s
    BY <1>7, FS_Subset DEF Well
  <2>2. ASSUME NEW r \in Q, r.table \in ChildTables
        PROVE  RowsIn(Q, Parent[r.table], r.of) # {}
    <3>1. PICK p \in R : p.table = Parent[r.table] /\ p.of = r.of
      BY <1>7, <2>2 DEF Well, HasParent, RowsIn
    <3>2. p \in Q
      <4>1. r.of = o => r.table # t /\ Parent[r.table] # t
        BY <1>6, <1>7, <2>2
      <4>2. r.of = o /\ Parent[r.table] \in ChildTables => Parent[Parent[r.table]] # t
        BY <1>6, <1>7, <2>2, <4>1, Schema
      <4> QED BY <1>6, <3>1, <4>1, <4>2
    <3> QED BY <3>1, <3>2 DEF RowsIn
  <2> QED BY <2>1, <2>2 DEF Well, HasParent
<1>9. ASSUME NEW u \in Owners, NEW s \in TableNames
      PROVE  Found(Q, s, u) = IF u = o /\ (s = t \/ (s \in ChildTables /\ Parent[s] = t))
                                   THEN 0 ELSE Found(R, s, u)
  <2>1. CASE u = o /\ (s = t \/ (s \in ChildTables /\ Parent[s] = t))
    <3>1. RowsIn(Q, s, u) = {}
      BY <1>6, <1>7, <2>1 DEF RowsIn
    <3> QED BY <2>1, <3>1, <1>8, FoundNone
  <2>2. CASE ~(u = o /\ (s = t \/ (s \in ChildTables /\ Parent[s] = t)))
    <3>1. RowsIn(Q, s, u) = RowsIn(R, s, u)
      BY <1>6, <1>7, <2>2 DEF RowsIn
    <3> QED BY <2>2, <3>1, FoundSame
  <2> QED BY <2>1, <2>2
<1> QED
  BY <1>2, <1>8, <1>9 DEF Becomes

(* A set of numbers that is not empty has a least one: induction, as the     *)
(* proofs below need it.                                                    *)
LEMMA LeastOf ==
    ASSUME NEW B, B \subseteq Nat, B # {}
    PROVE  \E m \in B : \A k \in B : m <= k
<1>1. PICK m \in B : \A k \in B : ~(<<k, m>> \in OpToRel(<, Nat))
  BY WFMin, NatLessThanWellFounded
<1>2. \A k \in B : ~(k < m)
  BY <1>1 DEF OpToRel
<1> QED
  BY <1>2

(* The image of a finite set is finite. *)
LEMMA ImageFinite ==
    ASSUME NEW S, IsFiniteSet(S), NEW f, f = [x \in S |-> f[x]]
    PROVE  IsFiniteSet({f[x] : x \in S})
<1>1. f \in Surjection(S, {f[x] : x \in S})
  BY DEF Surjection
<1> QED BY <1>1, FS_Surjection

(* The union of two finite sets is finite. *)
LEMMA UnionFinite ==
    ASSUME NEW S, NEW T, IsFiniteSet(S), IsFiniteSet(T)
    PROVE  IsFiniteSet(S \cup T)
BY FS_Union, Zenon

(* A finite set of numbers that is not empty has a greatest one. *)
LEMMA GreatestOf ==
    ASSUME NEW S, IsFiniteSet(S), S \subseteq Nat, S # {}
    PROVE  \E x \in S : \A y \in S : x >= y
<1> DEFINE Topped(T) == \E x \in T : \A y \in T : x >= y
           B == {n \in Nat : \E T \in SUBSET S : T # {} /\ ~Topped(T) /\ Cardinality(T) = n}
<1> SUFFICES ASSUME ~Topped(S) PROVE FALSE
  OBVIOUS
<1>1. B # {}
  BY FS_CardinalityType
<1>2. PICK m \in B : \A k \in B : m <= k
  <2> HIDE DEF B
  <2>1. B \subseteq Nat
    BY DEF B
  <2> QED BY <1>1, <2>1, LeastOf
<1>3. PICK T \in SUBSET S : T # {} /\ ~Topped(T) /\ Cardinality(T) = m
  BY <1>2
<1>4. PICK x \in T : TRUE
  BY <1>3
<1>5. IsFiniteSet(T) /\ IsFiniteSet(T \ {x}) /\ Cardinality(T \ {x}) = m - 1 /\ m - 1 \in Nat
  <2>1. IsFiniteSet(T)
    BY FS_Subset
  <2>2. IsFiniteSet(T \ {x}) /\ Cardinality(T \ {x}) = Cardinality(T) - 1
    BY <2>1, <1>4, FS_RemoveElement
  <2> QED BY <2>1, <2>2, <1>3, FS_CardinalityType
<1>6. T \ {x} = {} \/ Topped(T \ {x})
  <2>1. m - 1 \notin B
    BY <1>2, <1>5
  <2>2. T \ {x} \in SUBSET S
    BY <1>3
  <2> HIDE DEF Topped
  <2> QED BY <2>1, <2>2, <1>5 DEF B
<1>7. CASE T \ {x} = {}
  BY <1>3, <1>4, <1>7
<1>8. CASE Topped(T \ {x})
  <2>1. PICK y \in T \ {x} : \A z \in T \ {x} : y >= z
    BY <1>8
  <2> QED BY <1>3, <1>4, <2>1
<1> QED
  BY <1>6, <1>7, <1>8

(* An insert into tables that were empty, whose parents stand, is allowed. *)
LEMMA Added ==
    ASSUME NEW R, Well(R), NEW ts \in SUBSET (ChildTables \ {"price_history"}),
           NEW o \in Owners, NEW v \in Nat \ {0}, NEW Q, Q = Effect(R, AddAll(ts, o, v)),
           \A t \in ts : /\ Found(R, t, o) = 0
                         /\ Parent[t] \in ts \/ Found(R, Parent[t], o) # 0
    PROVE  Allowed(R, AddAll(ts, o, v)) /\ Well(Q) /\ Becomes(R, Q, o, ts, v)
<1> DEFINE new == {Row(t, o, v) : t \in ts}
<1>1. Q = R \cup new /\ (Allowed(R, AddAll(ts, o, v)) <=> Insertable(R, new))
  BY DEF Effect, AddAll, NewRows, Allowed
<1>2. \A r \in new : r.table \in ts /\ r.of = o /\ r.val = v /\ r \in AnyRow
  BY DEF Row, AnyRow, TableNames
<1>3. \A t \in ts : \E r \in new : r.table = t /\ r.of = o /\ r.val = v
  <2>1. \A t \in ts : /\ Row(t, o, v) \in new
                      /\ Row(t, o, v).table = t /\ Row(t, o, v).of = o /\ Row(t, o, v).val = v
    BY DEF Row
  <2> QED BY <2>1
<1>4. IsFiniteSet(new)
  <2>1. IsFiniteSet(ts)
    <3>1. \A S, x : IsFiniteSet(S) => IsFiniteSet(S \cup {x})
      BY FS_AddElement, Zenon
    <3> DEFINE T == ((((({} \cup {"long_positions"}) \cup {"short_positions"})
                      \cup {"activity_buckets"}) \cup {"voice_unique_channels"})
                      \cup {"fund_investors"})
    <3>3. IsFiniteSet(T)
      BY <3>1, FS_EmptySet, Zenon
    <3>4. ts \subseteq T
      BY Schema
    <3> HIDE DEF T
    <3> QED BY <3>3, <3>4, FS_Subset
  <2> DEFINE f == [t \in ts |-> Row(t, o, v)]
  <2>2. new = {f[t] : t \in ts} /\ f = [t \in ts |-> f[t]]
    OBVIOUS
  <2> HIDE DEF f, new
  <2>3. IsFiniteSet({f[t] : t \in ts})
    BY <2>1, <2>2, ImageFinite
  <2> QED BY <2>2, <2>3
<1> HIDE DEF new
<1>5. \A t \in ts, r \in R : ~(r.table = t /\ r.of = o)
  <2>1. \A t \in ts : RowsIn(R, t, o) = {}
    BY FoundNone DEF TableNames
  <2> QED BY <2>1 DEF RowsIn
<1>6. \A r \in R \cup new : HasParent(R \cup new, r)
  <2>1. \A r \in R : HasParent(R \cup new, r)
    BY DEF Well, HasParent, RowsIn
  <2>2. ASSUME NEW r \in new PROVE RowsIn(R \cup new, Parent[r.table], r.of) # {}
    <3>1. r.table \in ts /\ r.of = o /\ Parent[r.table] \in TableNames
      BY <1>2, ParentNamed
    <3>2. CASE Parent[r.table] \in ts
      BY <3>1, <3>2, <1>3 DEF RowsIn
    <3>3. CASE Found(R, Parent[r.table], o) # 0
      <4>1. RowsIn(R, Parent[r.table], o) # {}
        BY <3>1, <3>3, FoundNone
      <4> QED BY <3>1, <4>1 DEF RowsIn
    <3> QED BY <3>1, <3>2, <3>3
  <2> QED BY <2>1, <2>2 DEF HasParent
<1>7. Insertable(R, new)
  BY <1>2, <1>5, <1>6 DEF Insertable, SameKey
<1>8. Well(Q)
  <2>1. Q \subseteq AnyRow /\ IsFiniteSet(Q)
    BY <1>1, <1>2, <1>4, UnionFinite DEF Well
  <2>2. \A r, s \in new : SameKey(r, s) => r = s
    <3>1. \A r \in new : r = [table |-> r.table, of |-> o, val |-> v]
      BY <1>2 DEF AnyRow
    <3> QED BY <3>1 DEF SameKey
  <2>3. \A r, s \in Q : SameKey(r, s) => r = s
    BY <1>1, <1>2, <1>5, <2>2 DEF Well, SameKey
  <2> QED BY <2>1, <2>3, <1>1, <1>6 DEF Well
<1>9. ASSUME NEW u \in Owners, NEW s \in TableNames
      PROVE  Found(Q, s, u) = IF u = o /\ s \in ts THEN v ELSE Found(R, s, u)
  <2>1. CASE u = o /\ s \in ts
    <3>1. PICK r \in new : r.table = s /\ r.of = o /\ r.val = v
      BY <1>3, <2>1
    <3> QED BY <2>1, <3>1, <1>1, <1>8, FoundThe
  <2>2. CASE ~(u = o /\ s \in ts)
    <3>1. RowsIn(Q, s, u) = RowsIn(R, s, u)
      BY <1>1, <1>2, <2>2 DEF RowsIn
    <3> QED BY <2>2, <3>1, FoundSame
  <2> QED BY <2>1, <2>2
<1> QED
  BY <1>1, <1>7, <1>8, <1>9 DEF Becomes

(* The next id of a price point is one that no point has. *)
LEMMA FreshId ==
    ASSUME NEW R, Well(R)
    PROVE  NextId(R) \in Nat \ {0} /\ \A r \in R : r.table = "price_history" => r.val < NextId(R)
<1> DEFINE Points == {r \in R : r.table = "price_history"}
           Ids == {r.val : r \in Points}
<1>1. IsFiniteSet(Points)
  BY FS_Subset DEF Well
<1>2. IsFiniteSet({0} \cup Ids)
  <2> DEFINE f == [r \in Points |-> r.val]
  <2>1. Ids = {f[r] : r \in Points} /\ f = [r \in Points |-> f[r]]
    OBVIOUS
  <2> HIDE DEF f, Points
  <2>2. IsFiniteSet({f[r] : r \in Points})
    BY <1>1, <2>1, ImageFinite
  <2> HIDE DEF Ids
  <2>3. IsFiniteSet(Ids) /\ IsFiniteSet({0})
    BY <2>1, <2>2, FS_Singleton
  <2> QED BY <2>3, UnionFinite
<1>3. \A r \in Points : r.val \in Nat
  BY DEF Well, AnyRow
<1>4. {0} \cup Ids \subseteq Nat
  BY <1>3
<1>5. NextId(R) = Max({0} \cup Ids) + 1
  BY DEF NextId
<1> HIDE DEF Ids
<1>6. Max({0} \cup Ids) \in {0} \cup Ids /\ \A y \in {0} \cup Ids : Max({0} \cup Ids) >= y
  <2>1. \E x \in {0} \cup Ids : \A y \in {0} \cup Ids : x >= y
    BY <1>2, <1>4, GreatestOf
  <2> QED BY <2>1 DEF Max
<1>7. \A r \in R : r.table = "price_history" => r.val \in Ids
  BY DEF Ids
<1> QED
  BY <1>4, <1>5, <1>6, <1>7

(* Price points can be added to a stock that is there, and their number     *)
(* grows by as many.                                                        *)
LEMMA PointsAdded ==
    ASSUME NEW R, Well(R), NEW o \in Owners, NEW n \in Nat \ {0}, Found(R, "stocks", o) # 0,
           NEW Q, Q = Effect(R, AddPoints(o, n))
    PROVE  /\ Allowed(R, AddPoints(o, n)) /\ Well(Q)
           /\ Becomes(R, Q, o, {"price_history"}, Found(R, "price_history", o) + n)
<1> DEFINE f == [i \in 0..n - 1 |-> Row("price_history", o, NextId(R) + i)]
           new == {f[i] : i \in 0..n - 1}
<1>1. Q = R \cup new /\ (Allowed(R, AddPoints(o, n)) <=> Insertable(R, new))
  BY DEF Effect, AddPoints, NewRows, Allowed
<1>2. NextId(R) \in Nat \ {0} /\ \A r \in R : r.table = "price_history" => r.val < NextId(R)
  BY FreshId
<1>3. \A r \in new : /\ r.table = "price_history" /\ r.of = o /\ r \in AnyRow
                     /\ r.val \in Nat /\ r.val >= NextId(R)
  BY <1>2, Schema DEF Row, AnyRow
<1>4. IsFiniteSet(new) /\ Cardinality(new) = n
  <2>1. f \in Bijection(0..n - 1, new)
    <3>1. \A i, j \in 0..n - 1 : f[i] = f[j] => i = j
      BY <1>2 DEF Row
    <3>2. f \in [0..n - 1 -> new]
      OBVIOUS
    <3> QED BY <3>1, <3>2 DEF Bijection, Injection, Surjection, IsInjective
  <2>2. IsFiniteSet(0..n - 1) /\ Cardinality(0..n - 1) = n
    BY FS_Interval
  <2> QED BY <2>1, <2>2, FS_Bijection DEF ExistsBijection
<1> HIDE DEF new, f
<1>5. \A r \in new : r \notin R /\ \A s \in R : ~SameKey(r, s) /\ ~SameKey(s, r)
  BY <1>2, <1>3 DEF SameKey, Well, AnyRow
<1>6. RowsIn(R, "stocks", o) # {}
  BY FoundNone, Schema
<1>7. \A r \in R \cup new : HasParent(R \cup new, r)
  BY <1>3, <1>6, Schema DEF Well, HasParent, RowsIn
<1>8. Insertable(R, new)
  BY <1>5, <1>7 DEF Insertable
<1>9. Well(Q)
  <2>1. Q \subseteq AnyRow /\ IsFiniteSet(Q)
    BY <1>1, <1>3, <1>4, UnionFinite DEF Well
  <2>2. \A r, s \in new : SameKey(r, s) => r = s
    <3>1. \A r \in new : r = [table |-> "price_history", of |-> o, val |-> r.val]
      BY <1>3 DEF AnyRow
    <3> QED BY <3>1 DEF SameKey
  <2>3. \A r, s \in Q : SameKey(r, s) => r = s
    BY <1>1, <1>5, <2>2 DEF Well
  <2> QED BY <2>1, <2>3, <1>1, <1>7 DEF Well
<1>10. Found(Q, "price_history", o) = Found(R, "price_history", o) + n
  <2>1. RowsIn(Q, "price_history", o) = RowsIn(R, "price_history", o) \cup new
    BY <1>1, <1>3 DEF RowsIn
  <2>2. RowsIn(R, "price_history", o) \cap new = {} /\ IsFiniteSet(RowsIn(R, "price_history", o))
    BY <1>5, FS_Subset DEF RowsIn, Well
  <2>3. /\ Cardinality(RowsIn(R, "price_history", o)) \in Nat
        /\ Cardinality(RowsIn(R, "price_history", o) \cap new) = 0
    BY <2>2, FS_CardinalityType, FS_EmptySet
  <2>4. Cardinality(RowsIn(R, "price_history", o) \cup new) = Cardinality(RowsIn(R, "price_history", o)) + n
    <3>1. \A S, T : IsFiniteSet(S) /\ IsFiniteSet(T) =>
             Cardinality(S \cup T) = Cardinality(S) + Cardinality(T) - Cardinality(S \cap T)
      BY FS_Union, Zenon
    <3>2. Cardinality(RowsIn(R, "price_history", o) \cup new) = Cardinality(RowsIn(R, "price_history", o))
            + Cardinality(new) - Cardinality(RowsIn(R, "price_history", o) \cap new)
      BY <2>2, <1>4, <3>1, Zenon
    <3> QED BY <2>3, <1>4, <3>2
  <2> QED BY <2>1, <2>4 DEF Found
<1>11. ASSUME NEW u \in Owners, NEW s \in TableNames, ~(u = o /\ s = "price_history")
       PROVE  Found(Q, s, u) = Found(R, s, u)
  <2>1. RowsIn(Q, s, u) = RowsIn(R, s, u)
    BY <1>1, <1>3, <1>11 DEF RowsIn
  <2> QED BY <2>1, FoundSame
<1> QED
  BY <1>1, <1>8, <1>9, <1>10, <1>11 DEF Becomes

-----------------------------------------------------------------------------
(* A repository call as the statements it has left, counted from its end:   *)
(* the last is the end of the call.                                         *)
KindOf(table) ==
    CASE table = "hedge_funds" \/ table = "fund_investors" -> "fund"
      [] table = "stocks" -> "stock"
      [] table = "price_history" -> "history"
      [] table = "fund_penalties" -> "penalty"
      [] table = "trade_cooldowns" -> "cooldown"
      [] OTHER -> "user"

(* How many statements the upsert of an aggregate has *)
Length(c, x) ==
    CASE x[1] = "user" -> 7
      [] x[1] = "fund" -> 4
      [] x[1] = "history" -> IF c = Migrator THEN 3 ELSE 2
      [] OTHER -> 2

(* The file of the migrated data that a record is in *)
FileOf(x) == CASE x[1] = "user" -> "users" [] x[1] = "fund" -> "funds"
               [] x[1] = "stock" -> "prices" [] OTHER -> "penalties"

(* The statement that comes when n are left *)
StatementAt(c, x, v, n) ==
    CASE n = 1 -> EndCall
      [] n = 7 /\ x[1] = "user" -> Merge("users", x[2], v)
      [] n = 6 /\ x[1] = "user" -> DeleteFrom("voice_unique_channels", x[2])
      [] n = 5 /\ x[1] = "user" -> DeleteFrom("activity_buckets", x[2])
      [] n = 4 /\ x[1] = "user" -> DeleteFrom("long_positions", x[2])
      [] n = 3 /\ x[1] = "user" -> DeleteFrom("short_positions", x[2])
      [] n = 2 /\ x[1] = "user" -> AddAll(UserChildren, x[2], v)
      [] n = 4 /\ x[1] = "fund" -> Merge("hedge_funds", x[2], v)
      [] n = 3 /\ x[1] = "fund" -> DeleteFrom("fund_investors", x[2])
      [] n = 2 /\ x[1] = "fund" -> AddAll({"fund_investors"}, x[2], v)
      [] n = 3 /\ x[1] = "history" -> DeleteFrom("price_history", x[2])
      [] n = 2 /\ x[1] = "history" -> AddPoints(x[2], IF c = Migrator THEN v ELSE 1)
      [] n = 2 /\ x[1] = "stock" -> Merge("stocks", x[2], v)
      [] n = 2 /\ x[1] = "penalty" -> Merge("fund_penalties", x[2], v)
      [] n = 2 /\ x[1] = "cooldown" -> Merge("trade_cooldowns", x[2], v)
      [] OTHER -> Parse(FileOf(x), x[2])

(* What a SELECT of the writer finds of a table when n are left: what was   *)
(* there, nothing between the delete and the insert, or the new value.      *)
NewAt(table) == CASE table = "users" -> 6 [] table = "hedge_funds" -> 3 [] OTHER -> 1
GoneAt(c, table) ==
    CASE table = "voice_unique_channels" -> 5
      [] table = "activity_buckets" -> 4
      [] table = "long_positions" -> 3
      [] table = "short_positions" -> 2
      [] table = "fund_investors" -> 2
      [] table = "price_history" /\ c = Migrator -> 2
      [] OTHER -> 0

(* A table that held old is at v in the end, and may be empty before that. *)
Midway(c, table, old, v, n) ==
    IF n <= NewAt(table) THEN v ELSE IF n <= GoneAt(c, table) THEN 0 ELSE old

(* The tables an aggregate is kept in *)
TablesOf(x) == {t \in TableNames : KindOf(t) = x[1]}

(* The tables of each kind of aggregate. *)
LEMMA KindsOf ==
    /\ \A o : TablesOf(<<"user", o>>) = {"users", "long_positions", "short_positions",
                                         "activity_buckets", "voice_unique_channels"}
    /\ \A o : TablesOf(<<"fund", o>>) = {"hedge_funds", "fund_investors"}
    /\ \A o : TablesOf(<<"stock", o>>) = {"stocks"}
    /\ \A o : TablesOf(<<"history", o>>) = {"price_history"}
    /\ \A o : TablesOf(<<"penalty", o>>) = {"fund_penalties"}
    /\ \A o : TablesOf(<<"cooldown", o>>) = {"trade_cooldowns"}
BY Schema DEF TablesOf, KindOf

(* The table that tells the version of an aggregate. *)
LEMMA MainTables ==
    ASSUME NEW x \in Stored
    PROVE  /\ MainTable(x) \in TablesOf(x) /\ MainTable(x) \in TableNames
           /\ MainTable(x) = CASE x[1] = "user" -> "users" [] x[1] = "fund" -> "hedge_funds"
                               [] x[1] = "stock" -> "stocks" [] x[1] = "history" -> "price_history"
                               [] x[1] = "penalty" -> "fund_penalties"
                               [] x[1] = "cooldown" -> "trade_cooldowns"
BY Schema DEF Stored, MainTable, GetTables, TablesOf, KindOf

(* A statement brings its aggregate one step on, is allowed there and       *)
(* leaves all others alone.                                                 *)
Brings(c, P, Q, s, x, v, n, old) ==
    /\ Allowed(P, s) /\ Well(Q)
    /\ \A t \in TablesOf(x) : Found(Q, t, x[2]) = Midway(c, t, old[t], v, n - 1)
    /\ \A t \in TableNames, u \in Owners :
           <<KindOf(t), u>> # x => Found(Q, t, u) = Found(P, t, u)

(* Each statement of a user's upsert brings the user one step on. *)
LEMMA UserStatement ==
    ASSUME NEW c, NEW P, Well(P), NEW o \in Owners, NEW x, x = <<"user", o>>, NEW v \in Nat \ {0},
           NEW n \in 2..7, NEW old,
           \A t \in TablesOf(x) : Found(P, t, o) = Midway(c, t, old[t], v, n),
           NEW s, s = StatementAt(c, x, v, n), NEW Q, Q = Effect(P, s)
    PROVE  Brings(c, P, Q, s, x, v, n, old)
<1>0. TablesOf(x) = {"users", "long_positions", "short_positions",
                     "activity_buckets", "voice_unique_channels"}
  BY KindsOf
<1>a. \A t \in TableNames, u \in Owners : <<KindOf(t), u>> # x <=> u # o \/ t \notin TablesOf(x)
  BY DEF TablesOf
<1>1. CASE n = 7
  <2>1. s = Merge("users", o, v) /\ "users" \in TableNames \ ChildTables
    BY <1>1, Schema DEF StatementAt
  <2>2. Allowed(P, s) /\ Well(Q) /\ Becomes(P, Q, o, {"users"}, v)
    BY <2>1, Merged
  <2> QED BY <1>0, <1>a, <1>1, <2>2, Schema DEF Becomes, Brings, Midway, NewAt, GoneAt
<1>2. CASE n = 2
  <2>1. s = AddAll(UserChildren, o, v) /\ UserChildren \in SUBSET (ChildTables \ {"price_history"})
    BY <1>2, Schema DEF StatementAt, UserChildren
  <2>2. \A t \in UserChildren : Found(P, t, o) = 0 /\ (Parent[t] \in UserChildren \/ Found(P, Parent[t], o) # 0)
    BY <1>0, <1>2, Schema DEF UserChildren, Midway, NewAt, GoneAt
  <2>3. Allowed(P, s) /\ Well(Q) /\ Becomes(P, Q, o, UserChildren, v)
    BY <2>1, <2>2, Added
  <2> QED BY <1>0, <1>a, <1>2, <2>3, Schema DEF Becomes, Brings, Midway, NewAt, GoneAt, UserChildren
<1>3. ASSUME NEW d \in UserChildren, s = DeleteFrom(d, o), n \in 3..6,
             d = CASE n = 6 -> "voice_unique_channels" [] n = 5 -> "activity_buckets"
                   [] n = 4 -> "long_positions" [] n = 3 -> "short_positions"
      PROVE  Brings(c, P, Q, s, x, v, n, old)
  <2>1. d \in ChildTables
    BY Schema DEF UserChildren
  <2>2. /\ Allowed(P, s) /\ Well(Q)
        /\ Becomes(P, Q, o, {d} \cup {t \in ChildTables : Parent[t] = d}, 0)
    BY <1>3, <2>1, Deleted
  <2>3. \A t \in ChildTables : Parent[t] = d => t = "voice_unique_channels" /\ d = "activity_buckets"
    BY Schema DEF UserChildren
  <2>4. \A t \in TablesOf(x) : Found(Q, t, x[2]) = Midway(c, t, old[t], v, n - 1)
    <3> DEFINE G == {d} \cup {t \in ChildTables : Parent[t] = d}
    <3>1. \A t \in TablesOf(x) : t \in TableNames /\ Found(Q, t, o) = IF t \in G THEN 0 ELSE Found(P, t, o)
      BY <2>2 DEF Becomes, TablesOf
    <3>2. \A t \in TablesOf(x) : t \in G <=> t = d \/ (t = "voice_unique_channels" /\ d = "activity_buckets")
      BY <2>1, <2>3, Schema
    <3> HIDE DEF G
    <3> SUFFICES ASSUME NEW t \in TablesOf(x)
                 PROVE  Found(Q, t, o) = Midway(c, t, old[t], v, n - 1)
      OBVIOUS
    <3>3. Found(P, t, o) = Midway(c, t, old[t], v, n)
      OBVIOUS
    <3>4. Found(Q, t, o) = IF t = d \/ (t = "voice_unique_channels" /\ d = "activity_buckets")
                           THEN 0 ELSE Midway(c, t, old[t], v, n)
      BY <3>1, <3>2, <3>3, Zenon
    <3>5. t \in {"users", "long_positions", "short_positions", "activity_buckets", "voice_unique_channels"}
      BY <1>0
    <3>6. CASE n = 6
      BY <1>3, <3>4, <3>5, <3>6 DEF Midway, NewAt, GoneAt
    <3>7. CASE n = 5
      BY <1>3, <3>4, <3>5, <3>7 DEF Midway, NewAt, GoneAt
    <3>8. CASE n = 4
      BY <1>3, <3>4, <3>5, <3>8 DEF Midway, NewAt, GoneAt
    <3>9. CASE n = 3
      BY <1>3, <3>4, <3>5, <3>9 DEF Midway, NewAt, GoneAt
    <3> QED BY <1>3, <3>6, <3>7, <3>8, <3>9
  <2>5. \A t \in TableNames, u \in Owners : <<KindOf(t), u>> # x => Found(Q, t, u) = Found(P, t, u)
    BY <1>0, <1>a, <2>2, <2>3 DEF Becomes, UserChildren
  <2> QED BY <2>2, <2>4, <2>5 DEF Brings
<1>4. CASE n = 6
  BY <1>3, <1>4 DEF StatementAt, UserChildren
<1>5. CASE n = 5
  BY <1>3, <1>5 DEF StatementAt, UserChildren
<1>6. CASE n = 4
  BY <1>3, <1>6 DEF StatementAt, UserChildren
<1>7. CASE n = 3
  BY <1>3, <1>7 DEF StatementAt, UserChildren
<1> QED BY <1>1, <1>2, <1>4, <1>5, <1>6, <1>7

(* Each statement of a fund's upsert brings the fund one step on. *)
LEMMA FundStatement ==
    ASSUME NEW c, NEW P, Well(P), NEW o \in Owners, NEW x, x = <<"fund", o>>, NEW v \in Nat \ {0},
           NEW n \in 2..4, NEW old,
           \A t \in TablesOf(x) : Found(P, t, o) = Midway(c, t, old[t], v, n),
           NEW s, s = StatementAt(c, x, v, n), NEW Q, Q = Effect(P, s)
    PROVE  Brings(c, P, Q, s, x, v, n, old)
<1>0. TablesOf(x) = {"hedge_funds", "fund_investors"}
  BY KindsOf
<1>a. \A t \in TableNames, u \in Owners : <<KindOf(t), u>> # x <=> u # o \/ t \notin TablesOf(x)
  BY DEF TablesOf
<1>1. CASE n = 4
  <2>1. s = Merge("hedge_funds", o, v) /\ "hedge_funds" \in TableNames \ ChildTables
    BY <1>1, Schema DEF StatementAt
  <2>2. Allowed(P, s) /\ Well(Q) /\ Becomes(P, Q, o, {"hedge_funds"}, v)
    BY <2>1, Merged
  <2> QED BY <1>0, <1>a, <1>1, <2>2, Schema DEF Becomes, Brings, Midway, NewAt, GoneAt
<1>2. CASE n = 3
  <2>1. s = DeleteFrom("fund_investors", o) /\ "fund_investors" \in ChildTables
    BY <1>2, Schema DEF StatementAt
  <2>2. /\ Allowed(P, s) /\ Well(Q)
        /\ Becomes(P, Q, o, {"fund_investors"} \cup {t \in ChildTables : Parent[t] = "fund_investors"}, 0)
    BY <2>1, Deleted
  <2>3. \A t \in ChildTables : Parent[t] # "fund_investors"
    BY Schema
  <2> QED BY <1>0, <1>a, <1>2, <2>2, <2>3, Schema DEF Becomes, Brings, Midway, NewAt, GoneAt
<1>3. CASE n = 2
  <2>1. s = AddAll({"fund_investors"}, o, v) /\ {"fund_investors"} \in SUBSET (ChildTables \ {"price_history"})
    BY <1>3, Schema DEF StatementAt
  <2>2. \A t \in {"fund_investors"} : Found(P, t, o) = 0 /\ (Parent[t] \in {"fund_investors"} \/ Found(P, Parent[t], o) # 0)
    BY <1>0, <1>3, Schema DEF Midway, NewAt, GoneAt
  <2>3. Allowed(P, s) /\ Well(Q) /\ Becomes(P, Q, o, {"fund_investors"}, v)
    BY <2>1, <2>2, Added
  <2> QED BY <1>0, <1>a, <1>3, <2>3, Schema DEF Becomes, Brings, Midway, NewAt, GoneAt
<1> QED BY <1>1, <1>2, <1>3

(* Each statement of a price history brings it one step on, where its stock *)
(* is there.                                                                *)
LEMMA HistoryStatement ==
    ASSUME NEW c, NEW P, Well(P), NEW o \in Owners, NEW x, x = <<"history", o>>,
           NEW v \in Nat \ {0}, NEW n \in 2..Length(c, x), NEW old,
           \A t \in TablesOf(x) : Found(P, t, o) = Midway(c, t, old[t], v, n),
           Found(P, "stocks", o) # 0, c # Migrator => v = old["price_history"] + 1,
           old["price_history"] \in Nat,
           NEW s, s = StatementAt(c, x, v, n), NEW Q, Q = Effect(P, s)
    PROVE  Brings(c, P, Q, s, x, v, n, old)
<1>0. TablesOf(x) = {"price_history"} /\ Length(c, x) = IF c = Migrator THEN 3 ELSE 2
  BY KindsOf DEF Length
<1>a. \A t \in TableNames, u \in Owners : <<KindOf(t), u>> # x <=> u # o \/ t \notin TablesOf(x)
  BY DEF TablesOf
<1>1. CASE n = 3
  <2>1. s = DeleteFrom("price_history", o) /\ "price_history" \in ChildTables /\ c = Migrator
    BY <1>0, <1>1, Schema DEF StatementAt
  <2>2. /\ Allowed(P, s) /\ Well(Q)
        /\ Becomes(P, Q, o, {"price_history"} \cup {t \in ChildTables : Parent[t] = "price_history"}, 0)
    BY <2>1, Deleted
  <2>3. \A t \in ChildTables : Parent[t] # "price_history"
    BY Schema
  <2> QED BY <1>0, <1>a, <1>1, <2>1, <2>2, <2>3, Schema DEF Becomes, Brings, Midway, NewAt, GoneAt
<1>2. CASE n = 2
  <2> DEFINE k == IF c = Migrator THEN v ELSE 1
  <2>1. s = AddPoints(o, k) /\ k \in Nat \ {0}
    BY <1>2 DEF StatementAt
  <2> HIDE DEF k
  <2>2. /\ Allowed(P, s) /\ Well(Q)
        /\ Becomes(P, Q, o, {"price_history"}, Found(P, "price_history", o) + k)
    BY <2>1, PointsAdded
  <2>3. "price_history" \in TableNames
    BY Schema
  <2>4. Found(P, "price_history", o) + k = v
    BY <1>0, <1>2 DEF Midway, NewAt, GoneAt, k
  <2>5. Midway(c, "price_history", old["price_history"], v, n - 1) = v
    BY <1>2 DEF Midway, NewAt
  <2> QED BY <1>0, <1>a, <2>2, <2>3, <2>4, <2>5 DEF Becomes, Brings
<1> QED BY <1>0, <1>1, <1>2

(* A stock, a penalty and a cooldown are one merge. *)
LEMMA SingleStatement ==
    ASSUME NEW c, NEW P, Well(P), NEW o \in Owners, NEW x,
           x \in {<<"stock", o>>, <<"penalty", o>>, <<"cooldown", o>>}, NEW v \in Nat \ {0}, NEW old,
           NEW s, s = StatementAt(c, x, v, 2), NEW Q, Q = Effect(P, s)
    PROVE  Brings(c, P, Q, s, x, v, 2, old)
<1> DEFINE m == MainTable(x)
<1>1. /\ s = Merge(m, o, v) /\ m \in TableNames \ ChildTables /\ TablesOf(x) = {m}
      /\ NewAt(m) = 1 /\ x[2] = o
  BY KindsOf, Schema DEF StatementAt, MainTable, GetTables, NewAt
<1>a. \A t \in TableNames, u \in Owners : <<KindOf(t), u>> # x <=> u # o \/ t \notin TablesOf(x)
  BY DEF TablesOf
<1> HIDE DEF m
<1>2. Allowed(P, s) /\ Well(Q) /\ Becomes(P, Q, o, {m}, v)
  BY <1>1, Merged
<1>3. \A t \in TablesOf(x) : Found(Q, t, x[2]) = Midway(c, t, old[t], v, 2 - 1)
  BY <1>1, <1>2 DEF Becomes, Midway
<1> QED BY <1>1, <1>a, <1>2, <1>3 DEF Becomes, Brings

(* Each statement brings its aggregate one step on, whichever it is. *)
LEMMA StatementBrings ==
    ASSUME NEW c, NEW P, Well(P), NEW x \in Stored, NEW v \in Nat \ {0},
           NEW n \in 2..Length(c, x), NEW old,
           \A t \in TablesOf(x) : Found(P, t, x[2]) = Midway(c, t, old[t], v, n),
           x[1] = "history" => /\ Found(P, "stocks", x[2]) # 0 /\ old["price_history"] \in Nat
                               /\ c # Migrator => v = old["price_history"] + 1,
           NEW s, s = StatementAt(c, x, v, n), NEW Q, Q = Effect(P, s)
    PROVE  Brings(c, P, Q, s, x, v, n, old)
<1>0. x[2] \in Owners /\ x = <<x[1], x[2]>> /\ x[1] \in {"user", "fund", "stock", "history", "penalty", "cooldown"}
  BY DEF Stored
<1>1. CASE x[1] = "user"
  <2>1. n \in 2..7
    BY <1>1 DEF Length
  <2> QED BY <1>0, <1>1, <2>1, UserStatement
<1>2. CASE x[1] = "fund"
  <2>1. n \in 2..4
    BY <1>2 DEF Length
  <2> QED BY <1>0, <1>2, <2>1, FundStatement
<1>3. CASE x[1] = "history"
  BY <1>0, <1>3, HistoryStatement
<1>4. CASE x[1] \in {"stock", "penalty", "cooldown"}
  <2>1. n = 2
    BY <1>4 DEF Length
  <2> QED BY <1>0, <1>4, <2>1, SingleStatement
<1> QED BY <1>0, <1>1, <1>2, <1>3, <1>4

(* The statements of a call when n are left, in the order they are made *)
StatementsLeft(c, x, v, n) == [k \in 1..n |-> StatementAt(c, x, v, n - k + 1)]

(* The first statement of a call with n left, and what is left after it. *)
LEMMA LeftUnfolds ==
    ASSUME NEW c, NEW x, NEW v, NEW n \in Nat \ {0}, NEW s, s = StatementsLeft(c, x, v, n)
    PROVE  /\ Len(s) = n /\ s # <<>> /\ Head(s) = StatementAt(c, x, v, n)
           /\ Tail(s) = StatementsLeft(c, x, v, n - 1)
BY DEF StatementsLeft

(* What a concatenation is at each of its places *)
Join(X, s, t, q) ==
    /\ q \in Seq(X) /\ Len(q) = Len(s) + Len(t)
    /\ \A i \in 1..Len(s) : q[i] = s[i]
    /\ \A i \in 1..Len(t) : q[Len(s) + i] = t[i]

(* Two sequences put together, place by place. *)
LEMMA Joined == \A X, s, t : s \in Seq(X) /\ t \in Seq(X) => Join(X, s, t, s \o t)
BY DEF Join

(* The seven statements of a user, written out. *)
LEMMA FiveJoined ==
    ASSUME NEW a, NEW b, NEW d, NEW e, NEW f, NEW g, NEW h
    PROVE  <<a>> \o <<b, d, e, f>> \o <<g, h>> = <<a, b, d, e, f, g, h>>
<1> DEFINE X == {a, b, d, e, f, g, h}
           p == <<a>> \o <<b, d, e, f>>
           q == p \o <<g, h>>
<1>1. <<a>> \in Seq(X) /\ <<b, d, e, f>> \in Seq(X) /\ <<g, h>> \in Seq(X)
  OBVIOUS
<1>2. /\ p \in Seq(X) /\ Len(p) = 1 + 4 /\ \A i \in 1..1 : p[i] = <<a>>[i]
      /\ \A i \in 1..4 : p[1 + i] = <<b, d, e, f>>[i]
  <2> DEFINE s == <<a>>  t == <<b, d, e, f>>
  <2>1. Len(s) = 1 /\ Len(t) = 4 /\ s \in Seq(X) /\ t \in Seq(X) /\ p = s \o t
    BY <1>1
  <2> HIDE DEF X, s, t, p
  <2>2. Join(X, s, t, p)
    BY <2>1, Joined, Zenon
  <2> QED BY <2>1, <2>2 DEF Join, s, t
<1>3. p[1] = a /\ p[1 + 1] = b /\ p[1 + 2] = d /\ p[1 + 3] = e /\ p[1 + 4] = f
  BY <1>2
<1> HIDE DEF p
<1>4. /\ q \in Seq(X) /\ Len(q) = Len(p) + 2 /\ \A i \in 1..Len(p) : q[i] = p[i]
      /\ \A i \in 1..2 : q[Len(p) + i] = <<g, h>>[i]
  <2> DEFINE t == <<g, h>>
  <2>1. Len(t) = 2 /\ t \in Seq(X) /\ q = p \o t
    BY <1>1
  <2> HIDE DEF X, t, q
  <2>2. Join(X, p, t, q)
    BY <1>2, <2>1, Joined, Zenon
  <2> QED BY <2>1, <2>2 DEF Join, t
<1> HIDE DEF q, X
<1>5. Len(p) = 5
  BY <1>2
<1>6. q[1] = a /\ q[2] = b /\ q[3] = d /\ q[4] = e /\ q[5] = f /\ q[6] = g /\ q[7] = h
  BY <1>3, <1>4, <1>5
<1>7. Len(q) = 7
  BY <1>4, <1>5
<1>8. q = <<a, b, d, e, f, g, h>>
  <2> DEFINE r == <<a, b, d, e, f, g, h>>
  <2>1. r \in Seq(X) /\ Len(r) = 7
    BY DEF X
  <2>2. \A i \in 1..7 : q[i] = r[i]
    BY <1>6
  <2> HIDE DEF r
  <2>3. q = r
    BY <1>4, <1>7, <2>1, <2>2, SeqEqual
  <2> QED BY <2>3 DEF r
<1> QED BY <1>8 DEF q, p

(* The upsert of the repositories is the list of statements counted from    *)
(* the end.                                                                 *)
LEMMA UpsertLeft ==
    ASSUME NEW c, c # Migrator, NEW x \in Stored, NEW v
    PROVE  Upsert(x, v) = StatementsLeft(c, x, v, Length(c, x))
<1> DEFINE o == x[2]
<1>1. CASE x[1] = "user"
  <2>1. Upsert(x, v) = UserUpsert(o, v) /\ Length(c, x) = 7
    BY <1>1 DEF Upsert, Length
  <2>2. UserUpsert(o, v) =
          <<Merge("users", o, v), DeleteFrom("voice_unique_channels", o),
            DeleteFrom("activity_buckets", o), DeleteFrom("long_positions", o),
            DeleteFrom("short_positions", o), AddAll(UserChildren, o, v), EndCall>>
    BY FiveJoined DEF UserUpsert, DeleteChildren
  <2>3. StatementsLeft(c, x, v, 7) =
          <<Merge("users", o, v), DeleteFrom("voice_unique_channels", o),
            DeleteFrom("activity_buckets", o), DeleteFrom("long_positions", o),
            DeleteFrom("short_positions", o), AddAll(UserChildren, o, v), EndCall>>
    BY <1>1 DEF StatementsLeft, StatementAt
  <2> QED BY <2>1, <2>2, <2>3
<1>2. CASE x[1] = "fund"
  BY <1>2 DEF Upsert, Length, FundUpsert, StatementsLeft, StatementAt
<1>3. CASE x[1] = "history"
  BY <1>3 DEF Upsert, Length, AppendHistory, StatementsLeft, StatementAt
<1>4. CASE x[1] = "stock"
  BY <1>4 DEF Upsert, Length, StockUpsert, StatementsLeft, StatementAt
<1>5. CASE x[1] = "penalty"
  BY <1>5 DEF Upsert, Length, PenaltyUpsert, StatementsLeft, StatementAt
<1>6. CASE x[1] = "cooldown"
  BY <1>6 DEF Upsert, Length, CooldownUpsert, StatementsLeft, StatementAt
<1> QED BY <1>1, <1>2, <1>3, <1>4, <1>5, <1>6 DEF Stored

-----------------------------------------------------------------------------
(* The recursive functions of the model are what they are written to be:    *)
(* FlattenSeq joins sequences, Only leaves elements out.                    *)
Flattened(seqs, g, i) == IF i = 1 THEN seqs[i] ELSE g[i - 1] \o seqs[i]
Flattening(seqs, g, n) == g = [i \in 1..n |-> Flattened(seqs, g, i)]

(* There is a function that flattens a list of lists from the left. *)
LEMMA FlatteningExists ==
    ASSUME NEW seqs, NEW n \in Nat
    PROVE  \E g : Flattening(seqs, g, n)
<1> DEFINE Bad == {m \in Nat : ~ \E g : Flattening(seqs, g, m)}
<1> SUFFICES ASSUME Bad # {} PROVE FALSE
  OBVIOUS
<1>1. PICK m \in Bad : \A k \in Bad : m <= k
  <2> HIDE DEF Bad
  <2>1. Bad \subseteq Nat
    BY DEF Bad
  <2> QED BY <2>1, LeastOf
<1>2. CASE m = 0
  <2>1. Flattening(seqs, [i \in 1..0 |-> 0], 0)
    BY DEF Flattening
  <2> QED BY <1>2, <2>1
<1>3. CASE m # 0
  <2>1. m \in Nat /\ m - 1 \in Nat /\ ~(m <= m - 1)
    BY <1>3
  <2>2. PICK g : Flattening(seqs, g, m - 1)
    BY <1>1, <2>1
  <2> DEFINE h == [i \in 1..m |-> IF i = m THEN Flattened(seqs, g, m) ELSE g[i]]
  <2>3. ASSUME NEW i \in 1..m PROVE h[i] = Flattened(seqs, h, i)
    <3>1. i # 1 => i - 1 \in 1..(m - 1) /\ i - 1 \in 1..m /\ i - 1 # m
      BY <2>1
    <3>2. i # 1 => h[i - 1] = g[i - 1]
      BY <3>1
    <3>3. i # m => i \in 1..(m - 1)
      BY <2>1
    <3>4. i # m => g[i] = Flattened(seqs, g, i)
      BY <2>2, <3>3 DEF Flattening
    <3>5. h[i] = Flattened(seqs, g, i)
      BY <3>4
    <3> HIDE DEF h
    <3> QED BY <3>2, <3>5 DEF Flattened
  <2>4. h = [i \in 1..m |-> Flattened(seqs, h, i)]
    <3>1. h = [i \in 1..m |-> h[i]]
      OBVIOUS
    <3> HIDE DEF h
    <3> QED BY <2>3, <3>1
  <2>5. Flattening(seqs, h, m)
    BY <2>4, Zenon DEF Flattening
  <2> HIDE DEF h
  <2> QED BY <2>5
<1> QED BY <1>2, <1>3

(* The library's FlattenSeq is that function at the last list. *)
LEMMA FlattenSeqIs ==
    ASSUME NEW n \in Nat \ {0}, NEW seqs, Len(seqs) = n
    PROVE  \E g : Flattening(seqs, g, n) /\ FlattenSeq(seqs) = g[n]
<1> DEFINE g == CHOOSE f : Flattening(seqs, f, n)
<1>1. Flattening(seqs, g, n)
  BY FlatteningExists
<1>2. FlattenSeq(seqs) = g[n]
  BY DEF FlattenSeq, Flattening, Flattened
<1> QED BY <1>1, <1>2

(* What holds of the parts and carries over to joined sequences *)
LEMMA FlattenIn ==
    ASSUME NEW S, NEW n \in Nat, NEW seqs, seqs = [i \in 1..n |-> seqs[i]],
           \A i \in 1..n : seqs[i] \in S, <<>> \in S, \A p, q \in S : p \o q \in S
    PROVE  FlattenSeq(seqs) \in S
<1>0. Len(seqs) = n
  OBVIOUS
<1>1. CASE n = 0
  <2>1. seqs = <<>>
    BY <1>1
  <2> QED BY <1>0, <1>1, <2>1 DEF FlattenSeq
<1>2. CASE n # 0
  <2>1. PICK g : Flattening(seqs, g, n) /\ FlattenSeq(seqs) = g[n]
    BY <1>0, <1>2, FlattenSeqIs
  <2> DEFINE Bad == {i \in 1..n : g[i] \notin S}
  <2>2. ASSUME Bad # {} PROVE FALSE
    <3>1. PICK m \in Bad : \A k \in Bad : m <= k
      <4>1. Bad \subseteq Nat
        OBVIOUS
      <4> HIDE DEF Bad
      <4> QED BY <2>2, <4>1, LeastOf
    <3>2. g[m] = Flattened(seqs, g, m)
      BY <2>1, <3>1 DEF Flattening
    <3>3. m # 1 => m - 1 \in 1..n /\ ~(m <= m - 1)
      BY <3>1
    <3>4. m # 1 => g[m - 1] \in S
      BY <3>1, <3>3
    <3>5. seqs[m] \in S /\ g[m] \notin S
      BY <3>1
    <3> HIDE DEF Bad
    <3> QED BY <3>2, <3>4, <3>5 DEF Flattened
  <2> QED BY <1>2, <2>1, <2>2
<1> QED BY <1>1, <1>2

(* Three lists, one after the other *)
Chain(a, b, d) == (a \o b) \o d

(* FlattenSeq of three lists. *)
LEMMA FlattenThree ==
    ASSUME NEW a, NEW b, NEW d
    PROVE  FlattenSeq(<<a, b, d>>) = Chain(a, b, d)
<1> DEFINE seqs == <<a, b, d>>
<1>1. Len(seqs) = 3 /\ seqs[1] = a /\ seqs[2] = b /\ seqs[3] = d
  OBVIOUS
<1> HIDE DEF seqs
<1>2. \E g : Flattening(seqs, g, 3) /\ FlattenSeq(seqs) = g[3]
  <2>1. 3 \in Nat \ {0}
    OBVIOUS
  <2> QED BY <1>1, <2>1, FlattenSeqIs, Zenon
<1>3. PICK g : Flattening(seqs, g, 3) /\ FlattenSeq(seqs) = g[3]
  BY <1>2, Zenon
<1>4. \A i \in 1..3 : g[i] = Flattened(seqs, g, i)
  BY <1>3 DEF Flattening
<1>5. g[1] = a
  <2>1. g[1] = Flattened(seqs, g, 1)
    BY <1>4
  <2> QED BY <1>1, <2>1 DEF Flattened
<1>6. g[2] = g[1] \o b
  <2>1. g[2] = Flattened(seqs, g, 2)
    BY <1>4
  <2> QED BY <1>1, <2>1 DEF Flattened
<1>7. g[3] = g[2] \o d
  <2>1. g[3] = Flattened(seqs, g, 3)
    BY <1>4
  <2> QED BY <1>1, <2>1 DEF Flattened
<1> QED BY <1>3, <1>5, <1>6, <1>7 DEF seqs, Chain

-----------------------------------------------------------------------------
(* The inductive invariant.  Its parts about one client are operators of    *)
(* values: D is what is committed, P what the client sees, mine whether it  *)
(* holds the transaction, and j, st, sl, sn, cs, w are its job, stage,      *)
(* selects, seen, calls and whole.                                          *)
Goal(c, D, x) == IF c = Migrator THEN SourceVersion(x) ELSE Version(D, x) + 1
Full(c, x) == IF c = Migrator /\ x[1] # "history" THEN Length(c, x) + 1 ELSE Length(c, x)
OfCalls(cs) == {cs[i].of : i \in DOMAIN cs}

(* A sequence, whatever its elements are *)
Listed(s) == Len(s) \in Nat /\ s = [i \in 1..Len(s) |-> s[i]]

(* Where a client stands in its stages *)
Settled(c, m, j, st, sl, sn, cs, w, mine) ==
    /\ st \in {"idle", "reading", "writing"}
    /\ st = "idle" => j = Idle /\ sl = <<>> /\ sn = <<>>
    /\ st # "writing" => cs = <<>> /\ w = {} /\ ~mine
    /\ c = Migrator => j = Idle /\ sl = <<>> /\ sn = <<>> /\ w = {} /\ st # "reading" /\ (st # "idle" => m)
    /\ c # Migrator /\ st # "idle" => ~m /\ j \in Work

(* What a section has read and has still to read *)
ReadsParentsFirst(sl, sn) ==
    \A i \in 1..Len(sl) : sl[i][1] \in ChildTables =>
        LET p == <<Parent[sl[i][1]], sl[i][2]>> IN p \in DOMAIN sn \/ \E k \in 1..(i - 1) : sl[k] = p
ReadsLocked(D, locks, sn) ==
    \A key \in DOMAIN sn : key[2] \in locks => sn[key] = Found(D, key[1], key[2])
ReadsMixed(D, locks, sn) ==
    \A key \in DOMAIN sn : key[2] \notin locks =>
        /\ sn[key] \in Nat /\ sn[key] <= Found(D, key[1], key[2])
        /\ key[1] \in ChildTables \ {"price_history"} =>
               LET p == <<Parent[key[1]], key[2]>> IN p \in DOMAIN sn /\ sn[key] >= sn[p]
ParentsReadOnce(locks, sl, sn) ==
    \A k \in 1..Len(sl), t \in ChildTables, o \in Owners \ locks : sl[k] = <<Parent[t], o>> =>
        <<t, o>> \notin DOMAIN sn /\ \A i \in 1..(k - 1) : sl[i] # <<t, o>>
Reads(D, j, st, sl, sn) ==
    /\ Listed(sl)
    /\ \A i \in 1..Len(sl) : sl[i] \in Keys
    /\ DOMAIN sn \subseteq Keys
    /\ ReadsParentsFirst(sl, sn)
    /\ st = "reading" => ReadsLocked(D, j.locks, sn) /\ ReadsMixed(D, j.locks, sn)
                         /\ ParentsReadOnce(j.locks, sl, sn)

(* The calls a client has to make, and what its transaction holds *)
Stands(c, D, k, n) ==
    /\ k.of \in Stored /\ k = Call(k.of, StatementsLeft(c, k.of, Goal(c, D, k.of), n))
    /\ n \in 1..Full(c, k.of)
    /\ c = Migrator => k.of \in SourceAggregates
Queued(c, D, cs) ==
    /\ Listed(cs)
    /\ \A i \in 1..Len(cs) : Stands(c, D, cs[i], Len(cs[i].stmts))
                             /\ (i # 1 => Len(cs[i].stmts) = Full(c, cs[i].of))
Planned(c, j, cs, w) ==
    c # Migrator => /\ w \subseteq Members(j) /\ OfCalls(cs) \subseteq w
                    /\ \A i, k \in 1..Len(cs) : cs[i].of = cs[k].of => i = k
StocksFirst(P, cs) ==
    \A i \in 1..Len(cs) : cs[i].of[1] = "history" =>
        \/ Found(P, "stocks", cs[i].of[2]) # 0
        \/ \E k \in 1..(i - 1) : cs[k].of = <<"stock", cs[i].of[2]>>
Changed(j, cs, w) == IF j.uow THEN w \ OfCalls(cs) ELSE {}
StatementsOf(j, cs, w, x) ==
    IF cs # <<>> /\ x = cs[1].of THEN Len(cs[1].stmts)
    ELSE IF x \in Changed(j, cs, w) THEN 0 ELSE 10
View(c, D, P, j, cs, w) ==
    \A x \in Stored : \A t \in TablesOf(x) :
        Found(P, t, x[2]) = Midway(c, t, Found(D, t, x[2]), Goal(c, D, x), StatementsOf(j, cs, w, x))
Untouched(c, j, cs, w) ==
    Changed(j, cs, w) = {} /\ (cs # <<>> => Len(cs[1].stmts) >= Length(c, cs[1].of))
Transacts(c, D, P, mine, j, cs, w) ==
    IF mine THEN /\ Well(P) /\ View(c, D, P, j, cs, w)
                 /\ ~j.uow => cs # <<>> /\ Len(cs[1].stmts) < Length(c, cs[1].of)
    ELSE P = D /\ Untouched(c, j, cs, w)

Calls(c, D, P, mine, j, cs, w) ==
    /\ Queued(c, D, cs) /\ Planned(c, j, cs, w) /\ StocksFirst(P, cs)
    /\ Transacts(c, D, P, mine, j, cs, w)

Fits(c, D, P, mine, m, j, st, sl, sn, cs, w) ==
    /\ Settled(c, m, j, st, sl, sn, cs, w, mine)
    /\ Reads(D, j, st, sl, sn)
    /\ Calls(c, D, P, mine, j, cs, w)

ClientFine(c) ==
    Fits(c, db, RowsSeenBy(c), writer = c, migrating, job[c], stage[c], selects[c], seen[c],
         calls[c], whole[c])

(* No aggregate is half written: all its tables are at one version. *)
AllWhole(D) == \A x \in Stored : \A t \in TablesOf(x) : Found(D, t, x[2]) = Version(D, x)
(* Until the migrator succeeds each aggregate is either not there or as the *)
(* files have it; what it has no call left for is there.                    *)
Migrating(D, m, st, cs) ==
    m => /\ \A x \in Stored : Version(D, x) \in {0, SourceVersion(x)}
         /\ st = "writing" => \A x \in Stored : x \in OfCalls(cs) \/ Version(D, x) = SourceVersion(x)
(* No two sections hold a lock together. *)
Locked == \A t, u \in Tasks : t # u => job[t].locks \cap job[u].locks = {}

IInv ==
    /\ job = [c \in Clients |-> job[c]] /\ stage = [c \in Clients |-> stage[c]]
    /\ selects = [c \in Clients |-> selects[c]] /\ seen = [c \in Clients |-> seen[c]]
    /\ calls = [c \in Clients |-> calls[c]] /\ whole = [c \in Clients |-> whole[c]]
    /\ writer \in Clients \cup {Nobody} /\ (writer = Nobody => pending = {})
    /\ corrupt \subseteq Corrupt /\ migrating \in BOOLEAN
    /\ started \in 0..MaxSections /\ failures \in 0..MaxFailures
    /\ Well(db) /\ AllWhole(db) /\ Locked
    /\ Migrating(db, migrating, stage[Migrator], calls[Migrator])
    /\ \A c \in Clients : ClientFine(c)

-----------------------------------------------------------------------------
(* A call starts with what was there and ends with the new value. *)
LEMMA MidwayEnds ==
    ASSUME NEW c, NEW x \in Stored, NEW t \in TablesOf(x), NEW old, NEW v, NEW n \in Nat
    PROVE  /\ n <= 1 => Midway(c, t, old, v, n) = v
           /\ n >= Length(c, x) => Midway(c, t, old, v, n) = old
<1>1. NewAt(t) \in {1, 3, 6}
  BY DEF NewAt
<1>2. NewAt(t) < Length(c, x) /\ GoneAt(c, t) < Length(c, x) /\ Length(c, x) \in 2..7 /\ GoneAt(c, t) \in 0..5
  <2>1. CASE x[1] = "user"
    <3>1. t \in {"users", "long_positions", "short_positions", "activity_buckets", "voice_unique_channels"}
      BY <2>1, KindsOf DEF Stored
    <3> QED BY <2>1, <3>1 DEF Length, NewAt, GoneAt
  <2>2. CASE x[1] = "fund"
    <3>1. t \in {"hedge_funds", "fund_investors"}
      BY <2>2, KindsOf DEF Stored
    <3> QED BY <2>2, <3>1 DEF Length, NewAt, GoneAt
  <2>3. CASE x[1] = "history"
    <3>1. t = "price_history"
      BY <2>3, KindsOf DEF Stored
    <3> QED BY <2>3, <3>1 DEF Length, NewAt, GoneAt
  <2>4. CASE x[1] \in {"stock", "penalty", "cooldown"}
    <3>1. t \in {"stocks", "fund_penalties", "trade_cooldowns"}
      BY <2>4, KindsOf DEF Stored
    <3> QED BY <2>4, <3>1 DEF Length, NewAt, GoneAt
  <2> QED BY <2>1, <2>2, <2>3, <2>4 DEF Stored
<1> QED BY <1>1, <1>2 DEF Midway

(* At the end of a call a table holds the new value. *)
LEMMA MidwayNew ==
    ASSUME NEW c, NEW t, NEW old, NEW v, NEW n, n = 0 \/ n = 1
    PROVE  Midway(c, t, old, v, n) = v
BY DEF Midway, NewAt

(* How long a call is: the migrator parses its record first. *)
LEMMA Lengths ==
    ASSUME NEW c, NEW x \in Stored
    PROVE  /\ Length(c, x) \in 2..7 /\ Full(c, x) \in Length(c, x)..8
           /\ c # Migrator => Full(c, x) = Length(c, x)
           /\ Full(c, x) # Length(c, x) => c = Migrator /\ x[1] # "history" /\ Full(c, x) = Length(c, x) + 1
BY DEF Length, Full, Stored

(* The last statement ends the call, the migrator parses before the first. *)
LEMMA StatementKinds ==
    ASSUME NEW c, NEW x \in Stored, NEW v, NEW n \in 1..Full(c, x), NEW s, s = StatementAt(c, x, v, n)
    PROVE  /\ s = EndCall <=> n = 1
           /\ IsDml(s) <=> n \in 2..Length(c, x)
           /\ s.do = "parse" <=> n > Length(c, x)
<1>0. EndCall.do = "end"
  BY DEF EndCall
<1>1. CASE x[1] = "user"
  <2>1. n \in {1, 2, 3, 4, 5, 6, 7, 8} /\ Length(c, x) = 7 /\ (n = 8 => s.do = "parse")
    BY <1>1, Lengths DEF Length, StatementAt, Parse
  <2>2. n = 1 => s = EndCall
    BY DEF StatementAt
  <2>3. n \in 2..7 => s.do \in {"merge", "delete", "add"}
    BY <1>1, <2>1 DEF StatementAt, Merge, DeleteFrom, AddAll
  <2> QED BY <1>0, <2>1, <2>2, <2>3 DEF IsDml
<1>2. CASE x[1] = "fund"
  <2>1. n \in {1, 2, 3, 4, 5} /\ Length(c, x) = 4 /\ (n = 5 => s.do = "parse")
    BY <1>2, Lengths DEF Length, StatementAt, Parse
  <2>2. n = 1 => s = EndCall
    BY DEF StatementAt
  <2>3. n \in 2..4 => s.do \in {"merge", "delete", "add"}
    BY <1>2, <2>1 DEF StatementAt, Merge, DeleteFrom, AddAll
  <2> QED BY <1>0, <2>1, <2>2, <2>3 DEF IsDml
<1>3. CASE x[1] = "history"
  <2>1. n \in {1, 2, 3} /\ n <= Length(c, x) /\ Length(c, x) \in {2, 3}
    BY <1>3, Lengths DEF Length
  <2>2. n = 1 => s = EndCall
    BY DEF StatementAt
  <2>3. n # 1 => s.do \in {"delete", "points"}
    BY <1>3, <2>1 DEF StatementAt, DeleteFrom, AddPoints
  <2> QED BY <1>0, <2>1, <2>2, <2>3 DEF IsDml
<1>4. CASE x[1] \in {"stock", "penalty", "cooldown"}
  <2>1. n \in {1, 2, 3} /\ Length(c, x) = 2 /\ (n = 3 => s.do = "parse")
    BY <1>4, Lengths DEF Length, StatementAt, Parse
  <2>2. n = 1 => s = EndCall
    BY DEF StatementAt
  <2>3. n = 2 => s.do = "merge"
    BY <1>4, <2>1 DEF StatementAt, Merge
  <2>4. CASE n = 1
    BY <1>0, <2>1, <2>2, <2>4 DEF IsDml
  <2>5. CASE n = 2
    BY <1>0, <2>1, <2>3, <2>5 DEF IsDml
  <2>6. CASE n = 3
    BY <1>0, <2>1, <2>6 DEF IsDml
  <2> QED BY <2>1, <2>4, <2>5, <2>6
<1> QED BY <1>1, <1>2, <1>3, <1>4 DEF Stored

-----------------------------------------------------------------------------
(* The calls that are left after a statement *)
HasRest(cs, x, q, r) ==
    /\ Head(cs) = cs[1] /\ Len(cs) \in Nat \ {0}
    /\ Len(q) = 1 => r = [i \in 1..(Len(cs) - 1) |-> cs[i + 1]]
    /\ Len(q) # 1 => r = [i \in 1..Len(cs) |-> IF i = 1 THEN Call(x, Tail(q)) ELSE cs[i]]

(* What is left of the calls after one statement. *)
LEMMA RestIs ==
    ASSUME NEW cs, Listed(cs), cs # <<>>, NEW x, NEW q, cs[1] = Call(x, q)
    PROVE  HasRest(cs, x, q, Rest(cs))
<1>0. Len(cs) \in Nat /\ cs = [i \in 1..Len(cs) |-> cs[i]]
  BY DEF Listed
<1>1. Len(cs) \in Nat \ {0}
  BY <1>0
<1>2. Head(cs) = cs[1]
  BY <1>0
<1>3. Tail(cs) = [i \in 1..(Len(cs) - 1) |-> cs[i + 1]]
  <2> DEFINE X == {cs[i] : i \in 1..Len(cs)}
             n == Len(cs)
  <2>1. cs \in Seq(X) /\ n \in Nat \ {0}
    BY <1>0, <1>1
  <2> HIDE DEF X
  <2>2. Tail(cs) \in Seq(X) /\ Len(Tail(cs)) = n - 1 /\ \A i \in 1..(n - 1) : Tail(cs)[i] = cs[i + 1]
    BY <2>1
  <2> DEFINE r == Tail(cs)
  <2>3. r \in Seq(X) /\ Len(r) = n - 1 /\ n - 1 \in Nat
    BY <2>1, <2>2
  <2> HIDE DEF r
  <2>4. r = [i \in 1..(n - 1) |-> r[i]]
    BY <2>3
  <2> QED BY <2>2, <2>4 DEF r
<1>4. Head(cs).stmts = q /\ [Head(cs) EXCEPT !.stmts = Tail(@)] = Call(x, Tail(q))
  <2> DEFINE h == Head(cs)
  <2>1. h = [of |-> x, stmts |-> q]
    BY <1>2 DEF Call
  <2> HIDE DEF h
  <2>2. h.stmts = q /\ [h EXCEPT !.stmts = Tail(h.stmts)] = [of |-> x, stmts |-> Tail(h.stmts)]
    <3> DEFINE z == Tail(h.stmts)
    <3> HIDE DEF z
    <3>1. [h EXCEPT !.stmts = z] = [of |-> x, stmts |-> z]
      BY <2>1
    <3> QED BY <2>1, <3>1 DEF z
  <2> QED BY <2>2 DEF Call, h
<1>5. Rest(cs) = IF Len(q) = 1 THEN Tail(cs) ELSE <<Call(x, Tail(q))>> \o Tail(cs)
  BY <1>4 DEF Rest
<1>6. <<Call(x, Tail(q))>> \o Tail(cs)
          = [i \in 1..Len(cs) |-> IF i = 1 THEN Call(x, Tail(q)) ELSE cs[i]]
  <2> DEFINE k == Call(x, Tail(q))
             X == {k} \cup {cs[i] : i \in 1..Len(cs)}
             u == <<k>>
             r == Tail(cs)
             p == u \o r
  <2> HIDE DEF k
  <2>1. u \in Seq(X) /\ Len(u) = 1 /\ u[1] = k
    OBVIOUS
  <2>2. r \in Seq(X) /\ Len(r) = Len(cs) - 1 /\ \A i \in 1..(Len(cs) - 1) : r[i] = cs[i + 1]
    <3> DEFINE n == Len(cs)
    <3>1. n \in Nat \ {0} /\ r = [i \in 1..(n - 1) |-> cs[i + 1]]
      BY <1>1, <1>3
    <3>2. \A i \in 1..(n - 1) : cs[i + 1] \in X
      BY <3>1
    <3> HIDE DEF n, r, X
    <3> QED BY <3>1, <3>2 DEF n
  <2> HIDE DEF u, r, X, p
  <2>3. Join(X, u, r, p)
    BY <2>1, <2>2, Joined, Zenon DEF p
  <2>4. p \in Seq(X) /\ Len(p) = Len(cs)
    BY <1>1, <2>1, <2>2, <2>3 DEF Join
  <2>5. p[1] = k
    BY <2>1, <2>3 DEF Join
  <2>6. ASSUME NEW i \in 2..Len(cs) PROVE p[i] = cs[i]
    <3>1. i - 1 \in 1..Len(r) /\ 1 + (i - 1) = i
      BY <1>1, <2>2
    <3>2. p[Len(u) + (i - 1)] = r[i - 1]
      BY <2>3, <3>1 DEF Join
    <3> QED BY <2>1, <2>2, <3>1, <3>2
  <2>7. p = [i \in 1..Len(cs) |-> p[i]]
    BY <2>4
  <2>8. p = [i \in 1..Len(cs) |-> IF i = 1 THEN k ELSE cs[i]]
    <3>1. \A i \in 1..Len(cs) : p[i] = IF i = 1 THEN k ELSE cs[i]
      BY <1>1, <2>5, <2>6
    <3> QED BY <2>7, <3>1
  <2> QED BY <2>8 DEF p, u, r, k
<1> QED BY <1>1, <1>2, <1>3, <1>5, <1>6 DEF HasRest

(* The first call of c: its aggregate, how many statements it has left, and *)
(* the next of them                                                         *)
HeadOf(c, D, cs, x, n, s) ==
    /\ x = cs[1].of /\ n = Len(cs[1].stmts) /\ s = Head(Head(cs).stmts)
    /\ x \in Stored /\ n \in 1..Full(c, x) /\ s = StatementAt(c, x, Goal(c, D, x), n)
    /\ c = Migrator => x \in SourceAggregates
(* One statement was made, and its call is still the first. *)
Advanced(cs, r) ==
    /\ Len(r) = Len(cs) /\ r # <<>> /\ DOMAIN r = 1..Len(cs)
    /\ \A i \in 1..Len(cs) : r[i].of = cs[i].of
    /\ Len(r[1].stmts) = Len(cs[1].stmts) - 1
(* The first call is over. *)
Dropped(cs, r) ==
    /\ Len(r) = Len(cs) - 1 /\ DOMAIN r = 1..(Len(cs) - 1)
    /\ \A i \in 1..(Len(cs) - 1) : r[i] = cs[i + 1]

(* A call with n statements left is of length n. *)
LEMMA LeftLen ==
    ASSUME NEW c, NEW x, NEW v, NEW n \in Nat
    PROVE  Len(StatementsLeft(c, x, v, n)) = n
BY DEF StatementsLeft

(* The first call stands at one of its statements. *)
LEMMA HeadStands ==
    ASSUME NEW c, NEW D, NEW cs, Queued(c, D, cs), cs # <<>>
    PROVE  Stands(c, D, cs[1], Len(cs[1].stmts))
<1>1. Len(cs) \in Nat \ {0}
  BY DEF Queued, Listed
<1> QED BY <1>1 DEF Queued

(* The aggregate, the place and the statement of the first call. *)
LEMMA HeadCall ==
    ASSUME NEW c, NEW D, NEW cs, Queued(c, D, cs), cs # <<>>
    PROVE  \E x, n, s : HeadOf(c, D, cs, x, n, s)
<1> DEFINE x == cs[1].of
           n == Len(cs[1].stmts)
           q == StatementsLeft(c, x, Goal(c, D, x), n)
<1>1. Len(cs) \in Nat \ {0} /\ cs = [i \in 1..Len(cs) |-> cs[i]]
  BY DEF Queued, Listed
<1>2. Stands(c, D, cs[1], n)
  BY <1>1 DEF Queued
<1>3. x \in Stored /\ cs[1] = Call(x, q) /\ n \in 1..Full(c, x) /\ (c = Migrator => x \in SourceAggregates)
  BY <1>2 DEF Stands
<1>4. n \in Nat \ {0}
  BY <1>3, Lengths
<1>5. Head(cs) = cs[1] /\ cs[1].stmts = q
  <2>1. Head(cs) = cs[1]
    BY <1>1
  <2> QED BY <1>3, <2>1 DEF Call
<1>6. Head(q) = StatementAt(c, x, Goal(c, D, x), n)
  BY <1>4, LeftUnfolds
<1>7. HeadOf(c, D, cs, x, n, Head(Head(cs).stmts))
  BY <1>3, <1>5, <1>6 DEF HeadOf
<1> QED BY <1>7

(* A statement that is not the last leaves its call first, one shorter. *)
LEMMA CallAdvances ==
    ASSUME NEW c, NEW D, NEW cs, Queued(c, D, cs), cs # <<>>, Len(cs[1].stmts) # 1
    PROVE  Queued(c, D, Rest(cs)) /\ Advanced(cs, Rest(cs))
<1> DEFINE x == cs[1].of
           n == Len(cs[1].stmts)
           v == Goal(c, D, x)
           q == StatementsLeft(c, x, v, n)
           r == Rest(cs)
<1>1. Len(cs) \in Nat \ {0} /\ Len(cs) \in Nat /\ cs = [i \in 1..Len(cs) |-> cs[i]] /\ DOMAIN cs = 1..Len(cs)
  BY DEF Queued, Listed
<1>2. /\ x \in Stored /\ cs[1] = Call(x, q) /\ n \in 1..Full(c, x) /\ n # 1
      /\ c = Migrator => x \in SourceAggregates
  BY HeadStands DEF Stands
<1> HIDE DEF x, n, v
<1>3. n \in Nat \ {0} /\ n - 1 \in Nat /\ n - 1 \in 1..Full(c, x)
  BY <1>2, Lengths
<1>4. Len(q) = n
  BY <1>3, LeftLen
<1>5. Tail(q) = StatementsLeft(c, x, v, n - 1)
  BY <1>3, LeftUnfolds
<1> DEFINE k == Call(x, StatementsLeft(c, x, v, n - 1))
<1>6. r = [i \in 1..Len(cs) |-> IF i = 1 THEN k ELSE cs[i]]
  <2> HIDE DEF q
  <2>1. r = [i \in 1..Len(cs) |-> IF i = 1 THEN Call(x, Tail(q)) ELSE cs[i]]
    <3>1. Len(q) # 1
      BY <1>2, <1>4
    <3>2. Listed(cs)
      BY <1>1 DEF Listed
    <3>3. HasRest(cs, x, q, r)
      BY <1>2, <3>2, RestIs
    <3> QED BY <3>1, <3>3 DEF HasRest
  <2> QED BY <1>5, <2>1
<1>7. k.of = x /\ k.stmts = StatementsLeft(c, x, v, n - 1) /\ Len(k.stmts) = n - 1
  BY <1>3, LeftLen DEF Call
<1>8. Stands(c, D, k, Len(k.stmts))
  BY <1>2, <1>3, <1>7 DEF Stands, v
<1> HIDE DEF k, r, q
<1>9. Len(r) = Len(cs) /\ DOMAIN r = 1..Len(cs) /\ r[1] = k /\ (\A i \in 2..Len(cs) : r[i] = cs[i]) /\ r # <<>>
  BY <1>1, <1>6
<1>10. Advanced(cs, r)
  <2>1. \A i \in 1..Len(cs) : r[i].of = cs[i].of
    BY <1>1, <1>7, <1>9 DEF x
  <2> QED BY <1>7, <1>9, <2>1 DEF Advanced, n
<1>11. Queued(c, D, r)
  <2>1. r = [i \in 1..Len(r) |-> r[i]]
    BY <1>6, <1>9
  <2>2. \A i \in 1..Len(r) : Stands(c, D, r[i], Len(r[i].stmts)) /\ (i # 1 => Len(r[i].stmts) = Full(c, r[i].of))
    <3> SUFFICES ASSUME NEW i \in 1..Len(r)
                 PROVE  Stands(c, D, r[i], Len(r[i].stmts)) /\ (i # 1 => Len(r[i].stmts) = Full(c, r[i].of))
      OBVIOUS
    <3>1. CASE i = 1
      BY <1>8, <1>9, <3>1
    <3>2. CASE i # 1
      <4>1. i \in 2..Len(cs) /\ i \in 1..Len(cs) /\ r[i] = cs[i]
        BY <1>1, <1>9, <3>2
      <4> QED BY <3>2, <4>1 DEF Queued
    <3> QED BY <3>1, <3>2
  <2> QED BY <1>1, <1>9, <2>1, <2>2 DEF Queued, Listed
<1> QED BY <1>10, <1>11 DEF r

(* The last statement drops its call. *)
LEMMA CallDropped ==
    ASSUME NEW c, NEW D, NEW cs, Queued(c, D, cs), cs # <<>>, Len(cs[1].stmts) = 1
    PROVE  Dropped(cs, Rest(cs)) /\ Len(cs) \in Nat \ {0} /\ DOMAIN cs = 1..Len(cs)
           /\ Rest(cs) = [i \in 1..(Len(cs) - 1) |-> Rest(cs)[i]]
<1> DEFINE x == cs[1].of
           n == Len(cs[1].stmts)
           v == Goal(c, D, x)
           q == StatementsLeft(c, x, v, n)
           r == Rest(cs)
<1>1. Len(cs) \in Nat \ {0} /\ Len(cs) \in Nat /\ cs = [i \in 1..Len(cs) |-> cs[i]] /\ DOMAIN cs = 1..Len(cs)
  BY DEF Queued, Listed
<1>2. cs[1] = Call(x, q)
  <2>1. Stands(c, D, cs[1], n)
    BY HeadStands
  <2> QED BY <2>1 DEF Stands
<1>3. Len(q) = 1
  <2>1. n = 1 /\ 1 \in Nat
    OBVIOUS
  <2> HIDE DEF n, x, v
  <2>2. Len(StatementsLeft(c, x, v, 1)) = 1
    BY <2>1, LeftLen, Zenon
  <2> QED BY <2>1, <2>2
<1>4. r = [i \in 1..(Len(cs) - 1) |-> cs[i + 1]]
  <2>1. Listed(cs)
    BY <1>1 DEF Listed
  <2> HIDE DEF q, x
  <2>2. HasRest(cs, x, q, r)
    BY <1>2, <2>1, RestIs
  <2> QED BY <1>3, <2>2 DEF HasRest
<1>5. Len(cs) - 1 \in Nat
  BY <1>1
<1> HIDE DEF r
<1>6. Len(r) = Len(cs) - 1 /\ DOMAIN r = 1..(Len(cs) - 1) /\ \A i \in 1..(Len(cs) - 1) : r[i] = cs[i + 1]
  BY <1>4, <1>5
<1>7. Dropped(cs, r) /\ r = [i \in 1..(Len(cs) - 1) |-> r[i]]
  BY <1>4, <1>6 DEF Dropped
<1> QED BY <1>1, <1>7 DEF r

(* A version is a number, and an aggregate is a kind and an owner. *)
LEMMA VersionNat ==
    ASSUME NEW D, Well(D), NEW x \in Stored
    PROVE  Version(D, x) \in Nat /\ x[2] \in Owners /\ x = <<x[1], x[2]>>
<1>1. MainTable(x) \in TableNames /\ x[2] \in Owners /\ x = <<x[1], x[2]>>
  BY MainTables DEF Stored
<1> QED BY <1>1, FoundNone DEF Version

(* What a call writes is never 0, the version of what is not there. *)
LEMMA GoalPositive ==
    ASSUME NEW c, NEW D, Well(D), NEW x \in Stored, c = Migrator => x \in SourceAggregates
    PROVE  Goal(c, D, x) \in Nat \ {0}
BY VersionNat, SourceAssumption DEF Goal, SourceVersion

(* The kind of a table of x and the owner of x are x. *)
LEMMA TableOwner ==
    ASSUME NEW x \in Stored, NEW t \in TablesOf(x)
    PROVE  t \in TableNames /\ x[2] \in Owners /\ <<KindOf(t), x[2]>> = x
BY DEF Stored, TablesOf

(* A client sees its aggregates midway, whether it holds the transaction or *)
(* not.                                                                     *)
LEMMA ViewHolds ==
    ASSUME NEW c, NEW D, Well(D), NEW P, NEW mine, NEW j, NEW cs, NEW w,
           Calls(c, D, P, mine, j, cs, w)
    PROVE  Well(P) /\ View(c, D, P, j, cs, w)
<1>1. CASE mine
  BY <1>1 DEF Calls, Transacts
<1>2. CASE ~mine
  <2>1. P = D /\ Changed(j, cs, w) = {} /\ (cs # <<>> => Len(cs[1].stmts) >= Length(c, cs[1].of))
    BY <1>2 DEF Calls, Transacts, Untouched
  <2> SUFFICES ASSUME NEW x \in Stored, NEW t \in TablesOf(x)
               PROVE  Midway(c, t, Found(D, t, x[2]), Goal(c, D, x), StatementsOf(j, cs, w, x)) = Found(D, t, x[2])
    BY <2>1 DEF View
  <2>0. \A a, b, n : n \in Nat /\ n >= Length(c, x) => Midway(c, t, a, b, n) = a
    BY MidwayEnds, Zenon
  <2>a. 10 \in Nat /\ 10 >= Length(c, x)
    BY Lengths
  <2> DEFINE old == Found(D, t, x[2])
             v == Goal(c, D, x)
  <2> HIDE DEF old, v
  <2>2. CASE cs # <<>> /\ x = cs[1].of
    <3>1. \E y, n, s : HeadOf(c, D, cs, y, n, s)
      BY <2>2, HeadCall DEF Calls
    <3>2. Len(cs[1].stmts) \in Nat /\ Len(cs[1].stmts) >= Length(c, x)
      <4>1. Len(cs[1].stmts) \in 1..Full(c, x)
        BY <2>2, <3>1 DEF HeadOf
      <4> QED BY <2>1, <2>2, <4>1, Lengths
    <3>3. Midway(c, t, old, v, Len(cs[1].stmts)) = old
      BY <2>0, <3>2, Zenon
    <3> QED BY <2>2, <3>3 DEF StatementsOf, old, v
  <2>3. CASE ~(cs # <<>> /\ x = cs[1].of)
    <3>1. Midway(c, t, old, v, 10) = old
      BY <2>0, <2>a, Zenon
    <3> QED BY <2>1, <2>3, <3>1 DEF StatementsOf, old, v
  <2> QED BY <2>2, <2>3
<1> QED BY <1>1, <1>2

(* A statement of a call: allowed, and what the client sees is one on. *)
LEMMA DmlMoves ==
    ASSUME NEW c, NEW D, Well(D), NEW P, NEW mine, NEW j, NEW cs, NEW w,
           Calls(c, D, P, mine, j, cs, w), cs # <<>>,
           NEW s, s = Head(Head(cs).stmts), IsDml(s), NEW Q, Q = Effect(P, s)
    PROVE  /\ Allowed(P, s) /\ Well(Q) /\ Calls(c, D, Q, TRUE, j, Rest(cs), w)
           /\ OfCalls(Rest(cs)) = OfCalls(cs)
<1>1. Queued(c, D, cs) /\ Planned(c, j, cs, w) /\ StocksFirst(P, cs)
  BY DEF Calls
<1>2. PICK x, n, z : HeadOf(c, D, cs, x, n, z)
  BY <1>1, HeadCall
<1> DEFINE v == Goal(c, D, x)
           old == [t \in TableNames |-> Found(D, t, x[2])]
           r == Rest(cs)
<1>3. /\ x = cs[1].of /\ n = Len(cs[1].stmts) /\ s = StatementAt(c, x, v, n) /\ x \in Stored
      /\ n \in 1..Full(c, x) /\ (c = Migrator => x \in SourceAggregates)
  BY <1>2 DEF HeadOf
<1>4. v \in Nat \ {0} /\ n \in 2..Length(c, x)
  BY <1>3, GoalPositive, StatementKinds
<1>5. Well(P) /\ View(c, D, P, j, cs, w)
  BY ViewHolds
<1>6. \A t \in TablesOf(x) : Found(P, t, x[2]) = Midway(c, t, old[t], v, n)
  <2>1. StatementsOf(j, cs, w, x) = n
    BY <1>3 DEF StatementsOf
  <2>2. \A t \in TablesOf(x) : old[t] = Found(D, t, x[2])
    BY DEF TablesOf
  <2> HIDE DEF old
  <2> QED BY <1>3, <1>5, <2>1, <2>2 DEF View
<1>7. x[1] = "history" => /\ Found(P, "stocks", x[2]) # 0 /\ old["price_history"] \in Nat
                          /\ c # Migrator => v = old["price_history"] + 1
  <2> SUFFICES ASSUME x[1] = "history" PROVE /\ Found(P, "stocks", x[2]) # 0 /\ old["price_history"] \in Nat
                                             /\ c # Migrator => v = old["price_history"] + 1
    OBVIOUS
  <2>1. Found(P, "stocks", x[2]) # 0
    <3>1. Len(cs) \in Nat \ {0}
      BY <1>1 DEF Queued, Listed
    <3>2. 1 \in 1..Len(cs) /\ 1..(1 - 1) = {}
      BY <3>1
    <3> QED BY <1>1, <1>3, <3>2 DEF StocksFirst
  <2>2. old["price_history"] = Version(D, x)
    BY Schema DEF Version, MainTable
  <2> QED BY <1>3, <2>1, <2>2, VersionNat DEF Goal
<1> HIDE DEF v, old
<1>8. Brings(c, P, Q, s, x, v, n, old)
  BY <1>3, <1>4, <1>5, <1>6, <1>7, StatementBrings
<1>9. n # 1 /\ Len(cs[1].stmts) # 1 /\ Queued(c, D, r) /\ Advanced(cs, r)
  <2>1. n # 1
    BY <1>4
  <2> QED BY <1>1, <1>3, <2>1, CallAdvances
<1> HIDE DEF r
<1>10. DOMAIN cs = 1..Len(cs) /\ Len(cs) \in Nat \ {0}
  BY <1>1 DEF Queued, Listed
<1>11. /\ Len(r) = Len(cs) /\ r # <<>> /\ DOMAIN r = DOMAIN cs /\ \A i \in 1..Len(cs) : r[i].of = cs[i].of
       /\ Len(r[1].stmts) = n - 1 /\ r[1].of = x
  BY <1>3, <1>9, <1>10 DEF Advanced
<1>12. OfCalls(r) = OfCalls(cs)
  BY <1>10, <1>11 DEF OfCalls
<1>13. View(c, D, Q, j, r, w)
  <2> SUFFICES ASSUME NEW y \in Stored, NEW t \in TablesOf(y)
               PROVE  Found(Q, t, y[2]) = Midway(c, t, Found(D, t, y[2]), Goal(c, D, y), StatementsOf(j, r, w, y))
    BY DEF View
  <2>1. CASE y = x
    <3>1. StatementsOf(j, r, w, y) = n - 1
      BY <1>11, <2>1 DEF StatementsOf
    <3>2. old[t] = Found(D, t, y[2])
      BY <2>1 DEF old, TablesOf
    <3> QED BY <1>8, <2>1, <3>1, <3>2 DEF Brings, v
  <2>2. CASE y # x
    <3>1. StatementsOf(j, r, w, y) = StatementsOf(j, cs, w, y)
      BY <1>3, <1>11, <1>12, <2>2 DEF StatementsOf, Changed
    <3>2. t \in TableNames /\ y[2] \in Owners /\ <<KindOf(t), y[2]>> = y
      BY TableOwner
    <3>3. Found(Q, t, y[2]) = Found(P, t, y[2])
      BY <1>8, <2>2, <3>2 DEF Brings
    <3> QED BY <1>5, <3>1, <3>3 DEF View
  <2> QED BY <2>1, <2>2
<1>14. Planned(c, j, r, w)
  BY <1>1, <1>11, <1>12 DEF Planned
<1>15. \A o \in Owners : Found(P, "stocks", o) # 0 => Found(Q, "stocks", o) # 0
  <2> SUFFICES ASSUME NEW o \in Owners, Found(P, "stocks", o) # 0 PROVE Found(Q, "stocks", o) # 0
    OBVIOUS
  <2>1. "stocks" \in TableNames /\ KindOf("stocks") = "stock"
    BY Schema DEF KindOf
  <2>2. CASE x = <<"stock", o>>
    <3>1. "stocks" \in TablesOf(x) /\ x[2] = o
      BY <2>2, KindsOf
    <3>2. n = 2
      BY <1>4, <2>2 DEF Length
    <3>3. Found(Q, "stocks", o) = Midway(c, "stocks", old["stocks"], v, n - 1)
      BY <1>8, <3>1 DEF Brings
    <3> QED BY <1>4, <3>2, <3>3 DEF Midway, NewAt
  <2>3. CASE x # <<"stock", o>>
    BY <1>8, <2>1, <2>3 DEF Brings
  <2> QED BY <2>2, <2>3
<1>16. StocksFirst(Q, r)
  <2> SUFFICES ASSUME NEW i \in 1..Len(cs), cs[i].of[1] = "history"
               PROVE  \/ Found(Q, "stocks", cs[i].of[2]) # 0
                      \/ \E k \in 1..(i - 1) : r[k].of = <<"stock", cs[i].of[2]>>
    BY <1>11 DEF StocksFirst
  <2>1. cs[i].of \in Stored
    BY <1>1, <1>10 DEF Queued, Stands
  <2>2. CASE Found(P, "stocks", cs[i].of[2]) # 0
    BY <1>15, <2>1, <2>2 DEF Stored
  <2>3. CASE Found(P, "stocks", cs[i].of[2]) = 0
    <3>1. PICK k \in 1..(i - 1) : cs[k].of = <<"stock", cs[i].of[2]>>
      BY <1>1, <2>3 DEF StocksFirst
    <3>2. k \in 1..Len(cs)
      BY <1>10
    <3> QED BY <1>11, <3>1, <3>2
  <2> QED BY <2>2, <2>3
<1>17. Len(r[1].stmts) < Length(c, r[1].of)
  <2>1. Length(c, x) \in 2..7
    BY <1>3, Lengths
  <2>2. n - 1 < Length(c, x)
    BY <1>4, <2>1
  <2> QED BY <1>11, <2>2
<1> QED BY <1>8, <1>9, <1>11, <1>12, <1>13, <1>14, <1>16, <1>17 DEF Calls, Transacts, Brings, r

(* A record that was parsed *)
LEMMA ParseMoves ==
    ASSUME NEW c, NEW D, NEW P, NEW mine, NEW j, NEW cs, NEW w,
           Calls(c, D, P, mine, j, cs, w), cs # <<>>,
           NEW s, s = Head(Head(cs).stmts), s.do = "parse"
    PROVE  Calls(c, D, P, mine, j, Rest(cs), w) /\ OfCalls(Rest(cs)) = OfCalls(cs) /\ c = Migrator
           /\ (mine => j.uow)
<1>1. Queued(c, D, cs) /\ Planned(c, j, cs, w) /\ StocksFirst(P, cs) /\ Transacts(c, D, P, mine, j, cs, w)
  BY DEF Calls
<1>2. PICK x, n, z : HeadOf(c, D, cs, x, n, z)
  BY <1>1, HeadCall
<1> DEFINE v == Goal(c, D, x)
           r == Rest(cs)
<1>3. /\ x = cs[1].of /\ n = Len(cs[1].stmts) /\ s = StatementAt(c, x, v, n) /\ x \in Stored
      /\ n \in 1..Full(c, x)
  BY <1>2 DEF HeadOf
<1>4. n \in Nat /\ n > Length(c, x) /\ c = Migrator /\ n # 1 /\ n - 1 \in Nat /\ n - 1 >= Length(c, x)
  <2>1. n > Length(c, x)
    BY <1>3, StatementKinds
  <2>2. /\ Length(c, x) \in 2..7 /\ Full(c, x) \in Length(c, x)..8
        /\ (Full(c, x) # Length(c, x) => c = Migrator /\ Full(c, x) = Length(c, x) + 1)
    BY <1>3, Lengths
  <2>3. n \in 1..Full(c, x)
    BY <1>3
  <2> HIDE DEF v, r
  <2> QED BY <2>1, <2>2, <2>3
<1>5. Queued(c, D, r) /\ Advanced(cs, r)
  BY <1>1, <1>3, <1>4, CallAdvances
<1> HIDE DEF r
<1>6. DOMAIN cs = 1..Len(cs) /\ Len(cs) \in Nat \ {0}
  BY <1>1 DEF Queued, Listed
<1>7. /\ Len(r) = Len(cs) /\ r # <<>> /\ DOMAIN r = DOMAIN cs /\ \A i \in 1..Len(cs) : r[i].of = cs[i].of
      /\ Len(r[1].stmts) = n - 1 /\ r[1].of = x
  BY <1>3, <1>5, <1>6 DEF Advanced
<1>8. OfCalls(r) = OfCalls(cs)
  BY <1>6, <1>7 DEF OfCalls
<1>9. StocksFirst(P, r)
  <2> SUFFICES ASSUME NEW i \in 1..Len(cs), cs[i].of[1] = "history"
               PROVE  \/ Found(P, "stocks", cs[i].of[2]) # 0
                      \/ \E k \in 1..(i - 1) : r[k].of = <<"stock", cs[i].of[2]>>
    BY <1>7 DEF StocksFirst
  <2>1. CASE Found(P, "stocks", cs[i].of[2]) = 0
    <3>1. PICK k \in 1..(i - 1) : cs[k].of = <<"stock", cs[i].of[2]>>
      BY <1>1, <2>1 DEF StocksFirst
    <3>2. k \in 1..Len(cs)
      BY <1>6
    <3> QED BY <1>7, <3>1, <3>2
  <2> QED BY <2>1
<1>10. View(c, D, P, j, cs, w) => View(c, D, P, j, r, w)
  <2> SUFFICES ASSUME View(c, D, P, j, cs, w), NEW y \in Stored, NEW t \in TablesOf(y)
               PROVE  Found(P, t, y[2]) = Midway(c, t, Found(D, t, y[2]), Goal(c, D, y), StatementsOf(j, r, w, y))
    BY DEF View
  <2>1. Found(P, t, y[2]) = Midway(c, t, Found(D, t, y[2]), Goal(c, D, y), StatementsOf(j, cs, w, y))
    BY DEF View
  <2>2. CASE y = x
    <3>1. StatementsOf(j, r, w, y) = n - 1 /\ StatementsOf(j, cs, w, y) = n
      BY <1>3, <1>7, <2>2 DEF StatementsOf
    <3>2. \A a, b, m : m \in Nat /\ m >= Length(c, y) => Midway(c, t, a, b, m) = a
      BY MidwayEnds, Zenon
    <3>3. n >= Length(c, x)
      <4>1. Length(c, x) \in 2..7
        BY <1>3, Lengths
      <4> QED BY <1>4, <4>1
    <3>4. \A a, b : Midway(c, t, a, b, n) = a /\ Midway(c, t, a, b, n - 1) = a
      BY <1>4, <2>2, <3>2, <3>3, Zenon
    <3> QED BY <2>1, <3>1, <3>4, Zenon
  <2>3. CASE y # x
    <3>1. StatementsOf(j, r, w, y) = StatementsOf(j, cs, w, y)
      BY <1>3, <1>7, <1>8, <2>3 DEF StatementsOf, Changed
    <3> QED BY <2>1, <3>1
  <2> QED BY <2>2, <2>3
<1>13. mine => j.uow
  <2> SUFFICES ASSUME mine, ~j.uow PROVE FALSE
    OBVIOUS
  <2>1. n < Length(c, x)
    BY <1>1, <1>3 DEF Transacts
  <2>2. Length(c, x) \in 2..7
    BY <1>3, Lengths
  <2> QED BY <1>4, <2>1, <2>2
<1>11. Transacts(c, D, P, mine, j, r, w)
  BY <1>1, <1>4, <1>7, <1>8, <1>10, <1>13 DEF Transacts, Untouched, Changed
<1>12. Planned(c, j, r, w)
  BY <1>4 DEF Planned
<1> QED BY <1>4, <1>5, <1>8, <1>9, <1>11, <1>12, <1>13 DEF Calls, r

(* What is committed when the calls for X have ended *)
Commits(c, D, Q, X) ==
    /\ Well(Q) /\ X \subseteq Stored /\ (c = Migrator => X \subseteq SourceAggregates)
    /\ \A y \in Stored : \A t \in TablesOf(y) :
           Found(Q, t, y[2]) = IF y \in X THEN Goal(c, D, y) ELSE Found(D, t, y[2])

(* The versions after a commit. *)
LEMMA CommittedVersions ==
    ASSUME NEW c, NEW D, NEW Q, NEW X, Commits(c, D, Q, X), NEW y \in Stored
    PROVE  Version(Q, y) = IF y \in X THEN Goal(c, D, y) ELSE Version(D, y)
BY MainTables DEF Commits, Version

(* A commit leaves every aggregate whole. *)
LEMMA CommittedWhole ==
    ASSUME NEW c, NEW D, AllWhole(D), NEW Q, NEW X, Commits(c, D, Q, X)
    PROVE  AllWhole(Q)
<1> SUFFICES ASSUME NEW y \in Stored, NEW t \in TablesOf(y) PROVE Found(Q, t, y[2]) = Version(Q, y)
  BY DEF AllWhole
<1>1. Version(Q, y) = IF y \in X THEN Goal(c, D, y) ELSE Version(D, y)
  BY CommittedVersions
<1>2. Found(Q, t, y[2]) = IF y \in X THEN Goal(c, D, y) ELSE Found(D, t, y[2])
  BY DEF Commits
<1>3. Found(D, t, y[2]) = Version(D, y)
  BY DEF AllWhole
<1> QED BY <1>1, <1>2, <1>3

(* The calls that are left stand as they did when their versions do not     *)
(* change.                                                                  *)
LEMMA DroppedQueued ==
    ASSUME NEW c, NEW D, NEW cs, Queued(c, D, cs), NEW r, Dropped(cs, r), Len(cs) \in Nat \ {0},
           r = [i \in 1..(Len(cs) - 1) |-> r[i]], NEW E,
           \A i \in 1..Len(r) : Goal(c, E, r[i].of) = Goal(c, D, r[i].of)
    PROVE  Queued(c, E, r) /\ (r # <<>> => Len(r[1].stmts) = Full(c, r[1].of) /\ r[1].of \in Stored)
<1>1. Len(r) = Len(cs) - 1 /\ Len(r) \in Nat /\ r = [i \in 1..Len(r) |-> r[i]]
  BY DEF Dropped
<1>2. ASSUME NEW i \in 1..Len(r)
      PROVE  Stands(c, E, r[i], Len(r[i].stmts)) /\ Len(r[i].stmts) = Full(c, r[i].of) /\ r[i].of \in Stored
  <2>1. r[i] = cs[i + 1] /\ i + 1 \in 1..Len(cs) /\ i + 1 # 1
    BY <1>1 DEF Dropped
  <2>2. Stands(c, D, r[i], Len(r[i].stmts)) /\ Len(r[i].stmts) = Full(c, r[i].of)
    BY <2>1 DEF Queued
  <2> QED BY <2>2 DEF Stands
<1>3. r # <<>> => 1 \in 1..Len(r)
  BY <1>1
<1> QED BY <1>1, <1>2, <1>3 DEF Queued, Listed

(* A client that has written a stock finds it. *)
LEMMA FoundNew ==
    ASSUME NEW c, NEW D, Well(D), NEW P, NEW j, NEW cs, NEW w, View(c, D, P, j, cs, w),
           NEW o \in Owners, NEW n, n = 0 \/ n = 1, StatementsOf(j, cs, w, <<"stock", o>>) = n,
           c = Migrator => <<"stock", o>> \in SourceAggregates
    PROVE  Found(P, "stocks", o) # 0
<1> DEFINE x == <<"stock", o>>
<1>1. x \in Stored /\ "stocks" \in TablesOf(x) /\ x[2] = o
  BY KindsOf DEF Stored
<1> HIDE DEF x
<1>2. Found(P, "stocks", o) = Midway(c, "stocks", Found(D, "stocks", o), Goal(c, D, x), n)
  BY <1>1 DEF View, x
<1>3. Goal(c, D, x) \in Nat \ {0}
  BY <1>1, GoalPositive DEF x
<1>4. \A a, b : Midway(c, "stocks", a, b, n) = b
  BY MidwayNew
<1>5. Found(P, "stocks", o) = Goal(c, D, x)
  BY <1>2, <1>4, Zenon
<1> QED BY <1>3, <1>5

(* A call that ends: in a unit of work nothing is committed yet, without    *)
(* one its aggregate is.                                                    *)
LEMMA CallEnds ==
    ASSUME NEW c, NEW D, Well(D), NEW P, NEW mine, NEW j, NEW cs, NEW w,
           Calls(c, D, P, mine, j, cs, w), cs # <<>>, Head(Head(cs).stmts) = EndCall,
           c = Migrator => ~j.uow
    PROVE  /\ mine /\ Len(cs[1].stmts) = 1 /\ Dropped(cs, Rest(cs)) /\ cs[1].of \in Stored
           /\ j.uow => Calls(c, D, P, mine, j, Rest(cs), w)
           /\ ~j.uow => /\ Commits(c, D, P, {cs[1].of})
                        /\ Calls(c, P, P, FALSE, j, Rest(cs), w)
<1>1. Queued(c, D, cs) /\ Planned(c, j, cs, w) /\ StocksFirst(P, cs) /\ Transacts(c, D, P, mine, j, cs, w)
  BY DEF Calls
<1>2. PICK x, n, z : HeadOf(c, D, cs, x, n, z)
  BY <1>1, HeadCall
<1> DEFINE v == Goal(c, D, x)
           r == Rest(cs)
<1>3. /\ x = cs[1].of /\ n = Len(cs[1].stmts) /\ EndCall = StatementAt(c, x, v, n) /\ x \in Stored
      /\ n \in 1..Full(c, x) /\ (c = Migrator => x \in SourceAggregates)
  BY <1>2 DEF HeadOf
<1>4. n = 1
  <2> DEFINE e == EndCall
  <2>1. e = StatementAt(c, x, v, n) /\ x \in Stored /\ n \in 1..Full(c, x)
    BY <1>3
  <2> HIDE DEF v, e
  <2>2. e = EndCall <=> n = 1
    BY <2>1, StatementKinds
  <2> QED BY <2>2 DEF e
<1>5. Dropped(cs, r) /\ Len(cs) \in Nat \ {0} /\ DOMAIN cs = 1..Len(cs) /\ r = [i \in 1..(Len(cs) - 1) |-> r[i]]
  BY <1>1, <1>3, <1>4, CallDropped
<1> HIDE DEF r, v
<1>6. Len(r) = Len(cs) - 1 /\ DOMAIN r = 1..Len(r) /\ Len(r) \in Nat /\ \A i \in 1..Len(r) : r[i] = cs[i + 1] /\ i + 1 \in 1..Len(cs)
  BY <1>5 DEF Dropped
<1>7. mine
  <2>1. Length(c, x) \in 2..7
    BY <1>3, Lengths
  <2>2. ~mine => n >= Length(c, x)
    BY <1>1, <1>3 DEF Transacts, Untouched
  <2>3. ~(1 >= Length(c, x))
    BY <2>1
  <2> QED BY <1>4, <2>2, <2>3
<1>8. Well(P) /\ View(c, D, P, j, cs, w)
  BY ViewHolds
<1>9. OfCalls(cs) = OfCalls(r) \cup {x}
  <2>1. \A i \in DOMAIN cs : i = 1 \/ (i - 1 \in DOMAIN r /\ r[i - 1] = cs[i])
    <3> SUFFICES ASSUME NEW i \in 1..Len(cs), i # 1 PROVE i - 1 \in 1..Len(r) /\ r[i - 1] = cs[i]
      BY <1>5, <1>6
    <3>1. i - 1 \in 1..Len(r) /\ (i - 1) + 1 = i
      BY <1>5, <1>6
    <3> QED BY <1>6, <3>1
  <2>2. 1 \in DOMAIN cs
    BY <1>5
  <2>3. \A y : y \in OfCalls(cs) => y \in OfCalls(r) \/ y = x
    BY <1>3, <2>1 DEF OfCalls
  <2>4. x \in OfCalls(cs)
    BY <1>3, <2>2 DEF OfCalls
  <2>5. \A y \in OfCalls(r) : y \in OfCalls(cs)
    <3> SUFFICES ASSUME NEW i \in 1..Len(r) PROVE r[i].of \in OfCalls(cs)
      BY <1>6 DEF OfCalls
    <3>1. r[i].of = cs[i + 1].of /\ i + 1 \in DOMAIN cs
      BY <1>5, <1>6
    <3> QED BY <3>1 DEF OfCalls
  <2> QED BY <2>3, <2>4, <2>5
<1>10. c # Migrator => x \notin OfCalls(r)
  <2> SUFFICES ASSUME c # Migrator, NEW i \in 1..Len(r), r[i].of = x PROVE FALSE
    BY <1>6 DEF OfCalls
  <2>1. cs[i + 1].of = cs[1].of /\ i + 1 \in 1..Len(cs) /\ 1 \in 1..Len(cs) /\ i + 1 # 1
    <3>1. i + 1 \in 1..Len(cs) /\ 1 \in 1..Len(cs) /\ i + 1 # 1
      BY <1>5, <1>6
    <3> QED BY <1>3, <1>6, <3>1
  <2> QED BY <1>1, <2>1 DEF Planned
<1>11. Planned(c, j, r, w)
  <2> SUFFICES ASSUME c # Migrator PROVE Planned(c, j, r, w)
    BY DEF Planned
  <2>1. w \subseteq Members(j) /\ OfCalls(cs) \subseteq w /\ \A i, k \in 1..Len(cs) : cs[i].of = cs[k].of => i = k
    BY <1>1 DEF Planned
  <2>2. ASSUME NEW i \in 1..Len(r), NEW k \in 1..Len(r), r[i].of = r[k].of PROVE i = k
    <3>1. i + 1 \in 1..Len(cs) /\ k + 1 \in 1..Len(cs) /\ cs[i + 1].of = cs[k + 1].of
      BY <1>6, <2>2
    <3>2. i + 1 = k + 1
      BY <2>1, <3>1
    <3> QED BY <3>2
  <2> QED BY <1>9, <2>1, <2>2 DEF Planned
<1>12. StocksFirst(P, r)
  <2> SUFFICES ASSUME NEW i \in 1..Len(r), r[i].of[1] = "history"
               PROVE  \/ Found(P, "stocks", r[i].of[2]) # 0
                      \/ \E k \in 1..(i - 1) : r[k].of = <<"stock", r[i].of[2]>>
    BY DEF StocksFirst
  <2>1. r[i] = cs[i + 1] /\ i + 1 \in 1..Len(cs)
    BY <1>6
  <2>2. CASE Found(P, "stocks", r[i].of[2]) = 0
    <3>1. PICK k \in 1..i : cs[k].of = <<"stock", r[i].of[2]>>
      <4>1. (i + 1) - 1 = i
        OBVIOUS
      <4> QED BY <1>1, <2>1, <2>2, <4>1 DEF StocksFirst
    <3>2. r[i].of[2] \in Owners
      <4>1. Stands(c, D, cs[i + 1], Len(cs[i + 1].stmts))
        BY <1>1, <2>1 DEF Queued
      <4> QED BY <2>1, <4>1 DEF Stands, Stored
    <3>3. CASE k = 1
      <4>1. x = <<"stock", r[i].of[2]>>
        BY <1>3, <3>1, <3>3
      <4>2. StatementsOf(j, cs, w, x) = 1
        BY <1>3, <1>4 DEF StatementsOf
      <4> QED BY <1>3, <1>8, <3>2, <4>1, <4>2, FoundNew
    <3>4. CASE k # 1
      <4>1. k - 1 \in 1..Len(r) /\ k - 1 \in 1..(i - 1) /\ (k - 1) + 1 = k
        BY <3>4
      <4>2. r[k - 1] = cs[k]
        BY <1>6, <4>1
      <4> QED BY <3>1, <4>1, <4>2
    <3> QED BY <3>3, <3>4
  <2> QED BY <2>2
<1>13. ASSUME j.uow PROVE Calls(c, D, P, mine, j, r, w)
  <2>0. c # Migrator
    BY <1>13
  <2>1. Queued(c, D, r) /\ (r # <<>> => Len(r[1].stmts) = Full(c, r[1].of) /\ r[1].of \in Stored)
    BY <1>1, <1>5, DroppedQueued
  <2>2. x \in Changed(j, r, w) /\ \A y : y # x => (y \in Changed(j, r, w) <=> y \in Changed(j, cs, w))
    BY <1>1, <1>9, <1>10, <1>13, <2>0 DEF Changed, Planned
  <2>3. View(c, D, P, j, r, w)
    <3> SUFFICES ASSUME NEW y \in Stored, NEW t \in TablesOf(y)
                 PROVE  Found(P, t, y[2]) = Midway(c, t, Found(D, t, y[2]), Goal(c, D, y), StatementsOf(j, r, w, y))
      BY DEF View
    <3>1. Found(P, t, y[2]) = Midway(c, t, Found(D, t, y[2]), Goal(c, D, y), StatementsOf(j, cs, w, y))
      BY <1>8 DEF View
    <3>2. \A a, b, m : m \in Nat /\ m >= Length(c, y) => Midway(c, t, a, b, m) = a
      BY MidwayEnds, Zenon
    <3>3. \A a, b : Midway(c, t, a, b, 0) = b /\ Midway(c, t, a, b, 1) = b
      BY MidwayNew
    <3>4. r # <<>> => 1 \in DOMAIN r /\ r[1].of \in OfCalls(r)
      BY <1>6 DEF OfCalls
    <3>5. CASE y = x
      <4>1. StatementsOf(j, cs, w, y) = 1 /\ StatementsOf(j, r, w, y) = 0
        BY <1>3, <1>4, <1>10, <2>0, <2>2, <3>4, <3>5 DEF StatementsOf
      <4> DEFINE a == Found(D, t, y[2])
                 b == Goal(c, D, y)
      <4>2. Midway(c, t, a, b, 0) = b /\ Midway(c, t, a, b, 1) = b
        BY <3>3
      <4>3. Found(P, t, y[2]) = Midway(c, t, a, b, 1)
        BY <3>1, <4>1
      <4> HIDE DEF a, b
      <4> QED BY <4>1, <4>2, <4>3 DEF a, b
    <3>6. CASE y # x /\ r # <<>> /\ y = r[1].of
      <4>1. y \notin Changed(j, cs, w)
        BY <1>9, <3>4, <3>6 DEF Changed
      <4>2. StatementsOf(j, cs, w, y) = 10 /\ StatementsOf(j, r, w, y) = Full(c, y)
        BY <1>3, <2>1, <3>6, <4>1 DEF StatementsOf
      <4>3. 10 \in Nat /\ 10 >= Length(c, y) /\ Full(c, y) \in Nat /\ Full(c, y) >= Length(c, y)
        BY Lengths
      <4> QED BY <3>1, <3>2, <4>2, <4>3, Zenon
    <3>7. CASE y # x /\ ~(r # <<>> /\ y = r[1].of)
      <4>1. StatementsOf(j, cs, w, y) = StatementsOf(j, r, w, y)
        BY <1>3, <2>2, <3>7 DEF StatementsOf
      <4> QED BY <3>1, <4>1
    <3> QED BY <3>5, <3>6, <3>7
  <2> QED BY <1>7, <1>8, <1>11, <1>12, <1>13, <2>1, <2>3 DEF Calls, Transacts
<1>14. ASSUME ~j.uow PROVE Commits(c, D, P, {x}) /\ Calls(c, P, P, FALSE, j, r, w)
  <2>1. ASSUME NEW y \in Stored, NEW t \in TablesOf(y)
        PROVE  Found(P, t, y[2]) = IF y \in {x} THEN Goal(c, D, y) ELSE Found(D, t, y[2])
    <3>1. Found(P, t, y[2]) = Midway(c, t, Found(D, t, y[2]), Goal(c, D, y), StatementsOf(j, cs, w, y))
      BY <1>8 DEF View
    <3>2. \A a, b, m : m \in Nat /\ m >= Length(c, y) => Midway(c, t, a, b, m) = a
      BY MidwayEnds, Zenon
    <3>3. \A a, b : Midway(c, t, a, b, 0) = b /\ Midway(c, t, a, b, 1) = b
      BY MidwayNew
    <3>4. CASE y = x
      <4>1. StatementsOf(j, cs, w, y) = 1
        BY <1>3, <1>4, <1>7, <1>14, <1>1, <3>4 DEF StatementsOf, Transacts
      <4>3. Found(P, t, y[2]) = Goal(c, D, y)
        BY <3>1, <3>3, <4>1, Zenon
      <4> QED BY <3>4, <4>3
    <3>5. CASE y # x
      <4>1. StatementsOf(j, cs, w, y) = 10
        BY <1>3, <1>14, <3>5 DEF StatementsOf, Changed
      <4>2. 10 \in Nat /\ 10 >= Length(c, y)
        BY Lengths
      <4>3. Found(P, t, y[2]) = Found(D, t, y[2])
        BY <3>1, <3>2, <4>1, <4>2, Zenon
      <4> QED BY <3>5, <4>3
    <3> QED BY <3>4, <3>5
  <2>2. Commits(c, D, P, {x})
    BY <1>3, <1>8, <2>1 DEF Commits
  <2>3. \A i \in 1..Len(r) : Goal(c, P, r[i].of) = Goal(c, D, r[i].of)
    <3> SUFFICES ASSUME NEW i \in 1..Len(r), c # Migrator PROVE Goal(c, P, r[i].of) = Goal(c, D, r[i].of)
      BY DEF Goal
    <3>1. r[i].of \in Stored
      <4>1. Stands(c, D, cs[i + 1], Len(cs[i + 1].stmts))
        BY <1>1, <1>6 DEF Queued
      <4> QED BY <1>6, <4>1 DEF Stands
    <3>2. r[i].of \notin {x}
      BY <1>6, <1>10 DEF OfCalls
    <3>3. Version(P, r[i].of) = Version(D, r[i].of)
      BY <2>2, <3>1, <3>2, CommittedVersions
    <3> QED BY <3>3 DEF Goal
  <2>4. Queued(c, P, r) /\ (r # <<>> => Len(r[1].stmts) = Full(c, r[1].of) /\ r[1].of \in Stored)
    BY <1>1, <1>5, <2>3, DroppedQueued
  <2>5. Untouched(c, j, r, w)
    <3>1. ASSUME r # <<>> PROVE Len(r[1].stmts) >= Length(c, r[1].of)
      <4>1. /\ Len(r[1].stmts) = Full(c, r[1].of) /\ Length(c, r[1].of) \in 2..7
            /\ Full(c, r[1].of) \in Length(c, r[1].of)..8
        BY <2>4, <3>1, Lengths
      <4> QED BY <4>1
    <3> QED BY <1>14, <3>1 DEF Untouched, Changed
  <2> QED BY <1>11, <1>12, <2>2, <2>4, <2>5 DEF Calls, Transacts
<1> QED BY <1>3, <1>4, <1>5, <1>7, <1>13, <1>14 DEF r

-----------------------------------------------------------------------------
(* What is common to the sections *)
SetsFine(s) ==
    /\ Listed(s.sets)
    /\ \A i \in 1..Len(s.sets) : s.sets[i] \in Stored /\ s.sets[i][2] \in s.locks
    /\ \A i, k \in 1..Len(s.sets) : s.sets[i] = s.sets[k] => i = k
SparesFine(s) ==
    /\ \A i \in 1..Len(s.sets) : s.sets[i][1] = "history" =>
           \E k \in 1..(i - 1) : s.sets[k] = <<"stock", s.sets[i][2]>>
    /\ s.uow \in BOOLEAN /\ (~s.uow => s.spare = {{}})
GetsFine(s) ==
    /\ Listed(s.gets)
    /\ \A i \in 1..Len(s.gets) : s.gets[i] \in Stored /\ s.gets[i][1] # "history"
    /\ \/ \A i \in 1..Len(s.gets) : s.gets[i][2] \in s.locks
       \/ \E a, b \in Owners : s.gets = <<<<"user", a>>, <<"stock", b>>, <<"fund", a>>>>
Fine(s) == SetsFine(s) /\ SparesFine(s) /\ GetsFine(s)

(* A trade keeps what is common to the sections. *)
LEMMA TradeFine ==
    ASSUME NEW a \in Owners, NEW b \in Owners, a # b, NEW s, s = TradeSection(a, b)
    PROVE  Fine(s)
<1> USE DEF TradeSection, Section, NoImpact
<1>1. /\ s.sets = <<<<"user", b>>, <<"user", a>>, <<"stock", b>>, <<"history", b>>>>
      /\ s.locks = {a, b} /\ s.uow = TRUE
  OBVIOUS
<1>2. Listed(s.sets) /\ Len(s.sets) = 4
  BY <1>1 DEF Listed
<1>3. SetsFine(s)
  <2>1. \A i \in 1..4 : s.sets[i] \in Stored /\ s.sets[i][2] \in s.locks
    BY <1>1 DEF Stored
  <2>2. \A i, k \in 1..4 : s.sets[i] = s.sets[k] => i = k
    BY <1>1
  <2> QED BY <1>2, <2>1, <2>2 DEF SetsFine
<1>4. SparesFine(s)
  <2>1. \A i \in 1..4 : s.sets[i][1] = "history" =>
            i = 4 /\ s.sets[i] = <<"history", b>> /\ s.sets[3] = <<"stock", b>>
    BY <1>1
  <2>2. \A i \in 1..4 : s.sets[i][1] = "history" => 3 \in 1..(i - 1) /\ s.sets[i][2] = b
    BY <2>1
  <2> QED BY <1>1, <1>2, <2>1, <2>2 DEF SparesFine
<1>5. GetsFine(s)
  <2>1. s.gets = <<<<"user", b>>, <<"user", a>>, <<"stock", b>>>>
    OBVIOUS
  <2>2. Listed(s.gets) /\ Len(s.gets) = 3
    BY <2>1 DEF Listed
  <2>3. s.locks # {}
    BY <1>1
  <2>4. \A i \in 1..3 : s.gets[i] \in Stored /\ s.gets[i][1] # "history" /\ s.gets[i][2] \in s.locks
    BY <1>1, <2>1 DEF Stored
  <2> HIDE DEF TradeSection
  <2> QED BY <2>2, <2>3, <2>4 DEF GetsFine
<1> QED BY <1>3, <1>4, <1>5 DEF Fine

(* So does opening or covering a short, *)
LEMMA ShortFine ==
    ASSUME NEW a \in Owners, NEW b \in Owners, a # b, NEW s, s = ShortSection(a, b)
    PROVE  Fine(s)
<1> USE DEF ShortSection, Section, NoImpact
<1>1. /\ s.sets = <<<<"user", b>>, <<"user", a>>, <<"fund", a>>, <<"stock", b>>, <<"history", b>>, <<"cooldown", a>>>>
      /\ s.locks = {a, b} /\ s.uow = TRUE
  OBVIOUS
<1>2. Listed(s.sets) /\ Len(s.sets) = 6
  BY <1>1 DEF Listed
<1>3. SetsFine(s)
  <2>1. \A i \in 1..6 : s.sets[i] \in Stored /\ s.sets[i][2] \in s.locks
    BY <1>1 DEF Stored
  <2>2. \A i, k \in 1..6 : s.sets[i] = s.sets[k] => i = k
    BY <1>1
  <2> QED BY <1>2, <2>1, <2>2 DEF SetsFine
<1>4. SparesFine(s)
  <2>1. \A i \in 1..6 : s.sets[i][1] = "history" =>
            i = 5 /\ s.sets[i] = <<"history", b>> /\ s.sets[4] = <<"stock", b>>
    BY <1>1
  <2>2. \A i \in 1..6 : s.sets[i][1] = "history" => 4 \in 1..(i - 1) /\ s.sets[i][2] = b
    BY <2>1
  <2> QED BY <1>1, <1>2, <2>1, <2>2 DEF SparesFine
<1>5. GetsFine(s)
  <2>1. s.gets = <<<<"cooldown", a>>, <<"user", b>>, <<"user", a>>, <<"stock", b>>, <<"fund", a>>>>
    OBVIOUS
  <2>2. Listed(s.gets) /\ Len(s.gets) = 5
    BY <2>1 DEF Listed
  <2>3. s.locks # {}
    BY <1>1
  <2>4. \A i \in 1..5 : s.gets[i] \in Stored /\ s.gets[i][1] # "history" /\ s.gets[i][2] \in s.locks
    BY <1>1, <2>1 DEF Stored
  <2> HIDE DEF ShortSection
  <2> QED BY <2>2, <2>3, <2>4 DEF GetsFine
<1> QED BY <1>3, <1>4, <1>5 DEF Fine

(* a withdrawal from a fund, *)
LEMMA WithdrawFine ==
    ASSUME NEW a \in Owners, NEW s, s = WithdrawSection(a)
    PROVE  Fine(s)
<1> USE DEF WithdrawSection, Section, NoImpact
<1>1. /\ s.sets = <<<<"fund", a>>, <<"user", a>>, <<"penalty", a>>>>
      /\ s.locks = {a} /\ s.uow = TRUE
  OBVIOUS
<1>2. Listed(s.sets) /\ Len(s.sets) = 3
  BY <1>1 DEF Listed
<1>3. SetsFine(s)
  <2>1. \A i \in 1..3 : s.sets[i] \in Stored /\ s.sets[i][2] \in s.locks
    BY <1>1 DEF Stored
  <2>2. \A i, k \in 1..3 : s.sets[i] = s.sets[k] => i = k
    BY <1>1
  <2> QED BY <1>2, <2>1, <2>2 DEF SetsFine
<1>4. SparesFine(s)
  <2>1. \A i \in 1..Len(s.sets) : s.sets[i][1] # "history"
    BY <1>1
  <2> QED BY <1>1, <2>1 DEF SparesFine
<1>5. GetsFine(s)
  <2>1. s.gets = <<<<"fund", a>>, <<"user", a>>>>
    OBVIOUS
  <2>2. Listed(s.gets) /\ Len(s.gets) = 2
    BY <2>1 DEF Listed
  <2>3. s.locks # {}
    BY <1>1
  <2>4. \A i \in 1..2 : s.gets[i] \in Stored /\ s.gets[i][1] # "history" /\ s.gets[i][2] \in s.locks
    BY <1>1, <2>1 DEF Stored
  <2> HIDE DEF WithdrawSection
  <2> QED BY <2>2, <2>3, <2>4 DEF GetsFine
<1> QED BY <1>3, <1>4, <1>5 DEF Fine

(* a transfer, *)
LEMMA SendFine ==
    ASSUME NEW a \in Owners, a # EventsWallet, NEW s, s = SendSection(a)
    PROVE  Fine(s)
<1> USE DEF SendSection, Section, NoImpact
<1>1. /\ s.sets = <<<<"fund", a>>, <<"fund", EventsWallet>>>>
      /\ s.locks = {a, EventsWallet} /\ s.uow = TRUE
  OBVIOUS
<1>2. Listed(s.sets) /\ Len(s.sets) = 2
  BY <1>1 DEF Listed
<1>3. SetsFine(s)
  <2>1. \A i \in 1..2 : s.sets[i] \in Stored /\ s.sets[i][2] \in s.locks
    BY <1>1, WorkAssumption DEF Stored
  <2>2. \A i, k \in 1..2 : s.sets[i] = s.sets[k] => i = k
    BY <1>1
  <2> QED BY <1>2, <2>1, <2>2 DEF SetsFine
<1>4. SparesFine(s)
  <2>1. \A i \in 1..Len(s.sets) : s.sets[i][1] # "history"
    BY <1>1
  <2> QED BY <1>1, <2>1 DEF SparesFine
<1>5. GetsFine(s)
  <2>1. s.gets = <<<<"fund", a>>, <<"fund", EventsWallet>>>>
    OBVIOUS
  <2>2. Listed(s.gets) /\ Len(s.gets) = 2
    BY <2>1 DEF Listed
  <2>3. s.locks # {}
    BY <1>1
  <2>4. \A i \in 1..2 : s.gets[i] \in Stored /\ s.gets[i][1] # "history" /\ s.gets[i][2] \in s.locks
    BY <1>1, <2>1, WorkAssumption DEF Stored
  <2> HIDE DEF SendSection
  <2> QED BY <2>2, <2>3, <2>4 DEF GetsFine
<1> QED BY <1>3, <1>4, <1>5 DEF Fine

(* an investment into a fund, *)
LEMMA InvestFine ==
    ASSUME NEW a \in Owners, NEW b \in Owners, a # b, NEW s, s = InvestSection(a, b)
    PROVE  Fine(s)
<1> USE DEF InvestSection, Section, NoImpact
<1>1. /\ s.sets = <<<<"user", a>>, <<"fund", b>>>>
      /\ s.locks = {a, b} /\ s.uow = TRUE
  OBVIOUS
<1>2. Listed(s.sets) /\ Len(s.sets) = 2
  BY <1>1 DEF Listed
<1>3. SetsFine(s)
  <2>1. \A i \in 1..2 : s.sets[i] \in Stored /\ s.sets[i][2] \in s.locks
    BY <1>1 DEF Stored
  <2>2. \A i, k \in 1..2 : s.sets[i] = s.sets[k] => i = k
    BY <1>1
  <2> QED BY <1>2, <2>1, <2>2 DEF SetsFine
<1>4. SparesFine(s)
  <2>1. \A i \in 1..Len(s.sets) : s.sets[i][1] # "history"
    BY <1>1
  <2> QED BY <1>1, <2>1 DEF SparesFine
<1>5. GetsFine(s)
  <2>1. s.gets = <<<<"fund", b>>, <<"user", a>>>>
    OBVIOUS
  <2>2. Listed(s.gets) /\ Len(s.gets) = 2
    BY <2>1 DEF Listed
  <2>3. s.locks # {}
    BY <1>1
  <2>4. \A i \in 1..2 : s.gets[i] \in Stored /\ s.gets[i][1] # "history" /\ s.gets[i][2] \in s.locks
    BY <1>1, <2>1 DEF Stored
  <2> HIDE DEF InvestSection
  <2> QED BY <2>2, <2>3, <2>4 DEF GetsFine
<1> QED BY <1>3, <1>4, <1>5 DEF Fine

(* an operation on the fund of one member, *)
LEMMA FundFine ==
    ASSUME NEW a \in Owners, NEW s, s = FundSection(a)
    PROVE  Fine(s)
<1> USE DEF FundSection, Section, NoImpact
<1>1. /\ s.sets = <<<<"fund", a>>>>
      /\ s.locks = {a} /\ s.uow = FALSE /\ s.spare = {{}}
  OBVIOUS
<1>2. Listed(s.sets) /\ Len(s.sets) = 1
  BY <1>1 DEF Listed
<1>3. SetsFine(s)
  <2>1. \A i \in 1..1 : s.sets[i] \in Stored /\ s.sets[i][2] \in s.locks
    BY <1>1 DEF Stored
  <2>2. \A i, k \in 1..1 : s.sets[i] = s.sets[k] => i = k
    BY <1>1
  <2> QED BY <1>2, <2>1, <2>2 DEF SetsFine
<1>4. SparesFine(s)
  <2>1. \A i \in 1..Len(s.sets) : s.sets[i][1] # "history"
    BY <1>1
  <2> QED BY <1>1, <2>1 DEF SparesFine
<1>5. GetsFine(s)
  <2>1. s.gets = <<<<"fund", a>>>>
    OBVIOUS
  <2>2. Listed(s.gets) /\ Len(s.gets) = 1
    BY <2>1 DEF Listed
  <2>3. s.locks # {}
    BY <1>1
  <2>4. \A i \in 1..1 : s.gets[i] \in Stored /\ s.gets[i][1] # "history" /\ s.gets[i][2] \in s.locks
    BY <1>1, <2>1 DEF Stored
  <2> HIDE DEF FundSection
  <2> QED BY <2>2, <2>3, <2>4 DEF GetsFine
<1> QED BY <1>3, <1>4, <1>5 DEF Fine

(* an operation on the account of one member, *)
LEMMA AccountFine ==
    ASSUME NEW a \in Owners, NEW s, s = AccountSection(a)
    PROVE  Fine(s)
<1> USE DEF AccountSection, Section, NoImpact
<1>1. /\ s.sets = <<<<"user", a>>>>
      /\ s.locks = {a} /\ s.uow = FALSE /\ s.spare = {{}}
  OBVIOUS
<1>2. Listed(s.sets) /\ Len(s.sets) = 1
  BY <1>1 DEF Listed
<1>3. SetsFine(s)
  <2>1. \A i \in 1..1 : s.sets[i] \in Stored /\ s.sets[i][2] \in s.locks
    BY <1>1 DEF Stored
  <2>2. \A i, k \in 1..1 : s.sets[i] = s.sets[k] => i = k
    BY <1>1
  <2> QED BY <1>2, <2>1, <2>2 DEF SetsFine
<1>4. SparesFine(s)
  <2>1. \A i \in 1..Len(s.sets) : s.sets[i][1] # "history"
    BY <1>1
  <2> QED BY <1>1, <2>1 DEF SparesFine
<1>5. GetsFine(s)
  <2>1. s.gets = <<<<"user", a>>>>
    OBVIOUS
  <2>2. Listed(s.gets) /\ Len(s.gets) = 1
    BY <2>1 DEF Listed
  <2>3. s.locks # {}
    BY <1>1
  <2>4. \A i \in 1..1 : s.gets[i] \in Stored /\ s.gets[i][1] # "history" /\ s.gets[i][2] \in s.locks
    BY <1>1, <2>1 DEF Stored
  <2> HIDE DEF AccountSection
  <2> QED BY <2>2, <2>3, <2>4 DEF GetsFine
<1> QED BY <1>3, <1>4, <1>5 DEF Fine

(* a tick of the price of one stock, *)
LEMMA PriceFine ==
    ASSUME NEW b \in Owners, NEW s, s = PriceSection(b)
    PROVE  Fine(s)
<1> USE DEF PriceSection, Section, NoImpact
<1>1. /\ s.sets = <<<<"stock", b>>, <<"history", b>>>>
      /\ s.locks = {b} /\ s.uow = FALSE /\ s.spare = {{}}
  OBVIOUS
<1>2. Listed(s.sets) /\ Len(s.sets) = 2
  BY <1>1 DEF Listed
<1>3. SetsFine(s)
  <2>1. \A i \in 1..2 : s.sets[i] \in Stored /\ s.sets[i][2] \in s.locks
    BY <1>1 DEF Stored
  <2>2. \A i, k \in 1..2 : s.sets[i] = s.sets[k] => i = k
    BY <1>1
  <2> QED BY <1>2, <2>1, <2>2 DEF SetsFine
<1>4. SparesFine(s)
  <2>1. \A i \in 1..2 : s.sets[i][1] = "history" =>
            i = 2 /\ s.sets[i] = <<"history", b>> /\ s.sets[1] = <<"stock", b>>
    BY <1>1
  <2>2. \A i \in 1..2 : s.sets[i][1] = "history" => 1 \in 1..(i - 1) /\ s.sets[i][2] = b
    BY <2>1
  <2> QED BY <1>1, <1>2, <2>1, <2>2 DEF SparesFine
<1>5. GetsFine(s)
  <2>1. s.gets = <<<<"stock", b>>>>
    OBVIOUS
  <2>2. Listed(s.gets) /\ Len(s.gets) = 1
    BY <2>1 DEF Listed
  <2>3. s.locks # {}
    BY <1>1
  <2>4. \A i \in 1..1 : s.gets[i] \in Stored /\ s.gets[i][1] # "history" /\ s.gets[i][2] \in s.locks
    BY <1>1, <2>1 DEF Stored
  <2> HIDE DEF PriceSection
  <2> QED BY <2>2, <2>3, <2>4 DEF GetsFine
<1> QED BY <1>3, <1>4, <1>5 DEF Fine

(* the capture of the net worth of one member, *)
LEMMA CaptureFine ==
    ASSUME NEW a \in Owners, NEW b \in Owners, NEW s, s = CaptureSection(a, b)
    PROVE  Fine(s)
<1> USE DEF CaptureSection, Section, NoImpact
<1>1. /\ s.sets = <<<<"user", a>>>>
      /\ s.locks = {a} /\ s.uow = FALSE /\ s.spare = {{}}
  OBVIOUS
<1>2. Listed(s.sets) /\ Len(s.sets) = 1
  BY <1>1 DEF Listed
<1>3. SetsFine(s)
  <2>1. \A i \in 1..1 : s.sets[i] \in Stored /\ s.sets[i][2] \in s.locks
    BY <1>1 DEF Stored
  <2>2. \A i, k \in 1..1 : s.sets[i] = s.sets[k] => i = k
    BY <1>1
  <2> QED BY <1>2, <2>1, <2>2 DEF SetsFine
<1>4. SparesFine(s)
  <2>1. \A i \in 1..Len(s.sets) : s.sets[i][1] # "history"
    BY <1>1
  <2> QED BY <1>1, <2>1 DEF SparesFine
<1>5. GetsFine(s)
  <2>1. s.gets = <<<<"user", a>>, <<"stock", b>>, <<"fund", a>>>>
    OBVIOUS
  <2>2. Listed(s.gets) /\ Len(s.gets) = 3
    BY <2>1 DEF Listed
  <2>3. \E x, y \in Owners : s.gets = <<<<"user", x>>, <<"stock", y>>, <<"fund", x>>>>
    BY <2>1
  <2>4. \A i \in 1..3 : s.gets[i] \in Stored /\ s.gets[i][1] # "history"
    BY <2>1 DEF Stored
  <2> HIDE DEF CaptureSection
  <2> QED BY <2>2, <2>3, <2>4 DEF GetsFine
<1> QED BY <1>3, <1>4, <1>5 DEF Fine

(* and the portfolio that is read without locks. *)
LEMMA SnapshotFine ==
    ASSUME NEW a \in Owners, NEW b \in Owners, NEW s, s = SnapshotSection(a, b)
    PROVE  Fine(s)
<1> USE DEF SnapshotSection, Section, NoImpact
<1>1. s.sets = <<>> /\ Len(s.sets) = 0 /\ s.locks = {} /\ s.uow = FALSE /\ s.spare = {{}}
  OBVIOUS
<1>3. SetsFine(s)
  BY <1>1 DEF SetsFine, Listed
<1>4. SparesFine(s)
  <2>1. \A i \in 1..Len(s.sets) : s.sets[i][1] # "history"
    BY <1>1
  <2> QED BY <1>1, <2>1 DEF SparesFine
<1>5. GetsFine(s)
  <2>1. s.gets = <<<<"user", a>>, <<"stock", b>>, <<"fund", a>>>>
    OBVIOUS
  <2>2. Listed(s.gets) /\ Len(s.gets) = 3
    BY <2>1 DEF Listed
  <2>3. \E x, y \in Owners : s.gets = <<<<"user", x>>, <<"stock", y>>, <<"fund", x>>>>
    BY <2>1
  <2>4. \A i \in 1..3 : s.gets[i] \in Stored /\ s.gets[i][1] # "history" /\ s.locks = {}
    BY <1>1, <2>1 DEF Stored
  <2> HIDE DEF SnapshotSection
  <2> QED BY <2>2, <2>3, <2>4 DEF GetsFine
<1> QED BY <1>3, <1>4, <1>5 DEF Fine

(* Every section keeps what is common to them. *)
LEMMA WorkFine == \A s \in Work : Fine(s)
<1> SUFFICES ASSUME NEW s \in Work PROVE Fine(s)
  OBVIOUS
<1>1. PICK a \in Owners \ {EventsWallet} : s \in UNION {SectionsOf(a, b) : b \in Owners \ {a}}
  BY WorkAssumption DEF ServiceSections
<1>2. PICK b \in Owners \ {a} : s \in SectionsOf(a, b)
  BY <1>1
<1>3. a \in Owners /\ b \in Owners /\ a # b /\ a # EventsWallet
  OBVIOUS
<1>4. \/ s = TradeSection(a, b) \/ s = ShortSection(a, b) \/ s = WithdrawSection(a)
      \/ s = SendSection(a) \/ s = InvestSection(a, b) \/ s = FundSection(b)
      \/ s = AccountSection(b) \/ s = PriceSection(b) \/ s = CaptureSection(a, b)
      \/ s = SnapshotSection(a, b)
  BY <1>2 DEF SectionsOf
<1> QED BY <1>3, <1>4, TradeFine, ShortFine, WithdrawFine, SendFine, InvestFine, FundFine,
           AccountFine, PriceFine, CaptureFine, SnapshotFine

-----------------------------------------------------------------------------
(* A unit of work whose calls were all made holds all its writes. *)
LEMMA UnitEnds ==
    ASSUME NEW c, c # Migrator, NEW D, Well(D), NEW P, NEW mine, NEW j, j.uow,
           NEW w, w \subseteq Stored, Calls(c, D, P, mine, j, <<>>, w)
    PROVE  Commits(c, D, P, w)
<1>1. Changed(j, <<>>, w) = w /\ \A y : StatementsOf(j, <<>>, w, y) = IF y \in w THEN 0 ELSE 10
  BY DEF Changed, OfCalls, StatementsOf
<1>2. Well(P) /\ View(c, D, P, j, <<>>, w)
  BY ViewHolds
<1>3. ASSUME NEW y \in Stored, NEW t \in TablesOf(y)
      PROVE  Found(P, t, y[2]) = IF y \in w THEN Goal(c, D, y) ELSE Found(D, t, y[2])
  <2> DEFINE a == Found(D, t, y[2])
             b == Goal(c, D, y)
  <2>1. Found(P, t, y[2]) = Midway(c, t, a, b, StatementsOf(j, <<>>, w, y))
    BY <1>2 DEF View
  <2>2. \A q, r, m : m \in Nat /\ m >= Length(c, y) => Midway(c, t, q, r, m) = q
    BY MidwayEnds, Zenon
  <2>3. \A q, r : Midway(c, t, q, r, 0) = r
    BY MidwayNew
  <2>4. 10 \in Nat /\ 10 >= Length(c, y)
    BY Lengths
  <2> HIDE DEF a, b
  <2>5. Midway(c, t, a, b, 10) = a /\ Midway(c, t, a, b, 0) = b
    BY <2>2, <2>3, <2>4, Zenon
  <2>6. CASE y \in w
    <3>1. StatementsOf(j, <<>>, w, y) = 0
      BY <1>1, <2>6
    <3> QED BY <2>1, <2>5, <2>6, <3>1 DEF a, b
  <2>7. CASE y \notin w
    <3>1. StatementsOf(j, <<>>, w, y) = 10
      BY <1>1, <2>7
    <3> QED BY <2>1, <2>5, <2>7, <3>1 DEF a, b
  <2> QED BY <2>6, <2>7
<1> QED BY <1>2, <1>3 DEF Commits

(* To change nothing is to commit nothing. *)
LEMMA NothingCommitted == \A c, D : Well(D) => Commits(c, D, D, {})
BY DEF Commits

(* The other clients, when something is committed *)
LEMMA CallsStay ==
    ASSUME NEW c, NEW D, Well(D), NEW Q, NEW X, Commits(c, D, Q, X),
           NEW d, NEW j, NEW cs, NEW w, Calls(d, D, D, FALSE, j, cs, w),
           cs # <<>> => d # Migrator, w \cap X = {}
    PROVE  Calls(d, Q, Q, FALSE, j, cs, w)
<1>1. Queued(d, D, cs) /\ Planned(d, j, cs, w) /\ StocksFirst(D, cs) /\ Untouched(d, j, cs, w)
  BY DEF Calls, Transacts
<1>2. Listed(cs) /\ DOMAIN cs = 1..Len(cs) /\ (cs = <<>> => Len(cs) = 0)
  BY <1>1 DEF Queued, Listed
<1>3. ASSUME NEW i \in 1..Len(cs)
      PROVE  /\ cs[i].of \in Stored /\ d # Migrator /\ Goal(d, Q, cs[i].of) = Goal(d, D, cs[i].of)
             /\ Stands(d, Q, cs[i], Len(cs[i].stmts))
  <2>1. Stands(d, D, cs[i], Len(cs[i].stmts)) /\ d # Migrator
    BY <1>1, <1>2 DEF Queued
  <2>2. cs[i].of \in Stored /\ cs[i].of \in w
    BY <1>1, <1>2, <2>1 DEF Planned, OfCalls, Stands
  <2>3. Version(Q, cs[i].of) = Version(D, cs[i].of)
    BY <2>2, CommittedVersions
  <2>4. Goal(d, Q, cs[i].of) = Goal(d, D, cs[i].of)
    BY <2>1, <2>3 DEF Goal
  <2> QED BY <2>1, <2>2, <2>4 DEF Stands
<1>4. Queued(d, Q, cs)
  BY <1>1, <1>2, <1>3 DEF Queued
<1>5. StocksFirst(Q, cs)
  <2> SUFFICES ASSUME NEW i \in 1..Len(cs), cs[i].of[1] = "history", Found(D, "stocks", cs[i].of[2]) # 0
               PROVE  Found(Q, "stocks", cs[i].of[2]) # 0
    BY <1>1 DEF StocksFirst
  <2> DEFINE o == cs[i].of[2]
             y == <<"stock", o>>
  <2>1. y \in Stored /\ "stocks" \in TablesOf(y) /\ y[2] = o
    BY <1>3, KindsOf DEF Stored
  <2>2. Found(Q, "stocks", o) = IF y \in X THEN Goal(c, D, y) ELSE Found(D, "stocks", o)
    BY <2>1 DEF Commits
  <2>3. y \in X => Goal(c, D, y) \in Nat \ {0}
    BY <2>1, GoalPositive DEF Commits
  <2> QED BY <2>2, <2>3
<1> QED BY <1>1, <1>4, <1>5 DEF Calls, Transacts

(* Every table of every owner is of one aggregate. *)
LEMMA EveryTable ==
    ASSUME NEW t \in TableNames, NEW o \in Owners
    PROVE  <<KindOf(t), o>> \in Stored /\ t \in TablesOf(<<KindOf(t), o>>)
BY Schema DEF KindOf, Stored, TablesOf

(* A commit of a section never brings a version down. *)
LEMMA CommitGrows ==
    ASSUME NEW c, c # Migrator, NEW D, Well(D), AllWhole(D), NEW Q, NEW X, Commits(c, D, Q, X),
           NEW t \in TableNames, NEW o \in Owners
    PROVE  Found(Q, t, o) \in Nat /\ Found(D, t, o) \in Nat /\ Found(Q, t, o) >= Found(D, t, o)
<1> DEFINE y == <<KindOf(t), o>>
<1>1. y \in Stored /\ t \in TablesOf(y) /\ y[2] = o
  BY EveryTable
<1> HIDE DEF y
<1>2. Found(Q, t, o) = IF y \in X THEN Goal(c, D, y) ELSE Found(D, t, o)
  BY <1>1 DEF Commits
<1>3. Found(D, t, o) = Version(D, y) /\ Goal(c, D, y) = Version(D, y) + 1
  BY <1>1 DEF AllWhole, Goal
<1>4. Found(D, t, o) \in Nat
  BY FoundNone
<1> QED BY <1>2, <1>3, <1>4

(* What a client has read stays current, or mixed forward, when another     *)
(* commits what it does not lock.                                           *)
LEMMA ReadsStay ==
    ASSUME NEW c, NEW D, Well(D), AllWhole(D), NEW Q, NEW X, Commits(c, D, Q, X),
           NEW j, NEW st, NEW sl, NEW sn, Reads(D, j, st, sl, sn),
           c = Migrator => sn = <<>>, \A x \in X : x[2] \notin j.locks
    PROVE  Reads(Q, j, st, sl, sn)
<1>1. ASSUME st = "reading" PROVE ReadsLocked(Q, j.locks, sn)
  <2>1. ReadsLocked(D, j.locks, sn) /\ DOMAIN sn \subseteq Keys
    BY <1>1 DEF Reads
  <2> SUFFICES ASSUME NEW key \in DOMAIN sn, key[2] \in j.locks
               PROVE  Found(Q, key[1], key[2]) = Found(D, key[1], key[2])
    BY <2>1 DEF ReadsLocked
  <2>2. key[1] \in TableNames /\ key[2] \in Owners /\ key[2] \in j.locks
    BY <2>1 DEF Keys
  <2> DEFINE y == <<KindOf(key[1]), key[2]>>
  <2>3. y \in Stored /\ key[1] \in TablesOf(y) /\ y[2] = key[2]
    BY <2>2, EveryTable
  <2> HIDE DEF y
  <2>4. y \notin X
    BY <2>2, <2>3
  <2> QED BY <2>3, <2>4 DEF Commits
<1>2. ASSUME st = "reading" PROVE ReadsMixed(Q, j.locks, sn) /\ ParentsReadOnce(j.locks, sl, sn)
  <2>1. ReadsMixed(D, j.locks, sn) /\ ParentsReadOnce(j.locks, sl, sn) /\ DOMAIN sn \subseteq Keys
    BY <1>2 DEF Reads
  <2>2. ASSUME NEW key \in DOMAIN sn, key[2] \notin j.locks
        PROVE  sn[key] <= Found(Q, key[1], key[2])
    <3>1. key[1] \in TableNames /\ key[2] \in Owners
      BY <2>1 DEF Keys
    <3>2. sn[key] \in Nat /\ sn[key] <= Found(D, key[1], key[2])
      BY <2>1, <2>2 DEF ReadsMixed
    <3>3. c # Migrator
      <4>1. DOMAIN <<>> = {}
        OBVIOUS
      <4> QED BY <2>2, <4>1
    <3>4. /\ Found(Q, key[1], key[2]) \in Nat /\ Found(D, key[1], key[2]) \in Nat
          /\ Found(Q, key[1], key[2]) >= Found(D, key[1], key[2])
      BY <3>1, <3>3, CommitGrows
    <3> QED BY <3>2, <3>4
  <2> QED BY <2>1, <2>2 DEF ReadsMixed
<1> QED BY <1>1, <1>2 DEF Reads

-----------------------------------------------------------------------------
(* The SELECTs of a section *)
Readable(L) ==
    {q \in Seq(Keys) : \A i \in 1..Len(q) :
        /\ q[i][2] \in L
        /\ q[i][1] \in ChildTables => \E k \in 1..(i - 1) : q[k] = <<Parent[q[i][1]], q[i][2]>>}

(* Two lists of SELECTs that read parents first, one after the other. *)
LEMMA ReadableJoined ==
    ASSUME NEW L, NEW p \in Readable(L), NEW q \in Readable(L)
    PROVE  p \o q \in Readable(L)
<1> DEFINE r == p \o q
           m == Len(p)
           n == Len(q)
<1>1. p \in Seq(Keys) /\ q \in Seq(Keys) /\ m \in Nat /\ n \in Nat
  BY DEF Readable
<1>2. Join(Keys, p, q, r)
  BY <1>1, Joined, Zenon
<1> HIDE DEF r
<1>3. r \in Seq(Keys) /\ Len(r) = m + n /\ (\A i \in 1..m : r[i] = p[i]) /\ \A i \in 1..n : r[m + i] = q[i]
  BY <1>2 DEF Join
<1> HIDE DEF m, n
<1>4. ASSUME NEW i \in 1..(m + n)
      PROVE  /\ r[i][2] \in L
             /\ r[i][1] \in ChildTables => \E k \in 1..(i - 1) : r[k] = <<Parent[r[i][1]], r[i][2]>>
  <2>1. CASE i \in 1..m
    <3>1. r[i] = p[i] /\ i \in 1..Len(p)
      BY <1>3, <2>1 DEF m
    <3>2. /\ p[i][2] \in L
          /\ p[i][1] \in ChildTables => \E k \in 1..(i - 1) : p[k] = <<Parent[p[i][1]], p[i][2]>>
      BY <3>1 DEF Readable
    <3>3. \A k \in 1..(i - 1) : r[k] = p[k]
      BY <1>1, <1>3, <2>1
    <3> QED BY <3>1, <3>2, <3>3
  <2>2. CASE i \notin 1..m
    <3> DEFINE e == i - m
    <3>1. e \in 1..n /\ m + e = i
      BY <1>1, <2>2
    <3> HIDE DEF e
    <3>2. r[i] = q[e] /\ e \in 1..Len(q)
      BY <1>3, <3>1 DEF n
    <3>3. /\ q[e][2] \in L
          /\ q[e][1] \in ChildTables => \E k \in 1..(e - 1) : q[k] = <<Parent[q[e][1]], q[e][2]>>
      BY <3>2 DEF Readable
    <3>4. \A k \in 1..(e - 1) : m + k \in 1..(i - 1) /\ r[m + k] = q[k]
      BY <1>1, <1>3, <3>1
    <3> QED BY <3>2, <3>3, <3>4
  <2> QED BY <2>1, <2>2
<1>5. Len(r) = m + n /\ r \in Seq(Keys)
  BY <1>3
<1> QED BY <1>4, <1>5 DEF Readable, r

(* The SELECTs of one aggregate read parents first. *)
LEMMA GetReadable ==
    ASSUME NEW L, NEW x \in Stored, x[1] # "history", x[2] \in L
    PROVE  Get(x) \in Readable(L)
<1> DEFINE o == x[2]
           q == Get(x)
<1>0. o \in Owners
  BY DEF Stored
<1>1. CASE x[1] = "user"
  <2>1. q = <<<<"users", o>>, <<"long_positions", o>>, <<"short_positions", o>>,
              <<"activity_buckets", o>>, <<"voice_unique_channels", o>>>>
    BY <1>1 DEF Get, GetTables
  <2> HIDE DEF q, o
  <2>2. q \in Seq(Keys) /\ Len(q) = 5
    BY <1>0, <2>1, Schema DEF Keys
  <2>3. \A i \in 1..5 : q[i][2] = o
    BY <2>1
  <2>4. ASSUME NEW i \in 1..5, q[i][1] \in ChildTables
        PROVE  \E k \in 1..(i - 1) : q[k] = <<Parent[q[i][1]], q[i][2]>>
    <3>1. i # 1 /\ (i # 5 => Parent[q[i][1]] = "users") /\ (i = 5 => Parent[q[i][1]] = "activity_buckets")
      BY <2>1, <2>4, Schema
    <3>2. i = 5 => 4 \in 1..(i - 1) /\ q[4] = <<Parent[q[i][1]], q[i][2]>>
      BY <2>1, <2>3, <3>1
    <3>3. i # 5 => 1 \in 1..(i - 1) /\ q[1] = <<Parent[q[i][1]], q[i][2]>>
      BY <2>1, <2>3, <3>1
    <3> QED BY <3>2, <3>3
  <2> QED BY <2>2, <2>3, <2>4 DEF Readable, q, o
<1>2. CASE x[1] = "fund" \/ x[1] = "stock"
  <2> DEFINE p == IF x[1] = "fund" THEN "hedge_funds" ELSE "stocks"
             d == IF x[1] = "fund" THEN "fund_investors" ELSE "price_history"
  <2>1. q = <<<<p, o>>, <<d, o>>>>
    BY <1>2 DEF Get, GetTables
  <2>2. p \in TableNames \ ChildTables /\ d \in ChildTables /\ Parent[d] = p /\ d \in TableNames
    BY <1>2, Schema
  <2> HIDE DEF q, o, p, d
  <2>3. q \in Seq(Keys) /\ Len(q) = 2
    BY <1>0, <2>1, <2>2 DEF Keys
  <2>4. \A i \in 1..2 : q[i][2] = o
    BY <2>1
  <2>5. ASSUME NEW i \in 1..2, q[i][1] \in ChildTables
        PROVE  \E k \in 1..(i - 1) : q[k] = <<Parent[q[i][1]], q[i][2]>>
    <3>1. i = 2 /\ 1 \in 1..(i - 1)
      BY <2>1, <2>2, <2>5
    <3> QED BY <2>1, <2>2, <3>1
  <2> QED BY <2>3, <2>4, <2>5 DEF Readable, q, o
<1>3. CASE x[1] = "penalty" \/ x[1] = "cooldown"
  <2> DEFINE p == IF x[1] = "penalty" THEN "fund_penalties" ELSE "trade_cooldowns"
  <2>1. q = <<<<p, o>>>>
    BY <1>3 DEF Get, GetTables
  <2>2. p \in TableNames \ ChildTables
    BY <1>3, Schema
  <2> HIDE DEF q, o, p
  <2>3. q \in Seq(Keys) /\ Len(q) = 1 /\ \A i \in 1..1 : q[i] = <<p, o>>
    BY <1>0, <2>1, <2>2 DEF Keys
  <2>4. Len(q) = 1 /\ q[1][2] = o /\ q[1][1] = p
    BY <2>3
  <2>5. \A i \in 1..Len(q) : q[i][2] \in L /\ q[i][1] \notin ChildTables
    BY <2>2, <2>4 DEF o
  <2> QED BY <2>3, <2>5 DEF Readable, q
<1>4. x[1] \in {"user", "fund", "stock", "history", "penalty", "cooldown"}
  BY DEF Stored
<1> QED BY <1>1, <1>2, <1>3, <1>4, Zenon

(* The SELECTs of a section *)
SelectsOf(s) == FlattenSeq([i \in DOMAIN s.gets |-> Get(s.gets[i])])

(* The SELECTs of a section read parents first, and only of those whose     *)
(* aggregates it gets.                                                      *)
LEMMA SelectsReadable ==
    ASSUME NEW s, GetsFine(s), NEW L, \A i \in 1..Len(s.gets) : s.gets[i][2] \in L
    PROVE  SelectsOf(s) \in Readable(L)
<1> DEFINE n == Len(s.gets)
           seqs == [i \in DOMAIN s.gets |-> Get(s.gets[i])]
           S == Readable(L)
<1>1. n \in Nat /\ DOMAIN s.gets = 1..n /\ seqs = [i \in 1..n |-> seqs[i]]
  BY DEF GetsFine, Listed
<1>2. \A i \in 1..n : s.gets[i] \in Stored /\ s.gets[i][1] # "history" /\ s.gets[i][2] \in L
  BY DEF GetsFine
<1>3. \A i \in 1..n : seqs[i] \in S
  BY <1>1, <1>2, GetReadable
<1>4. <<>> \in S
  BY DEF Readable
<1>5. \A p, q \in S : p \o q \in S
  BY ReadableJoined
<1> HIDE DEF S, n, seqs
<1>6. FlattenSeq(seqs) \in S
  BY <1>1, <1>3, <1>4, <1>5, FlattenIn
<1> QED BY <1>6 DEF SelectsOf, S, seqs

(* The snapshot reads every table once. *)
LEMMA SnapshotOnce ==
    ASSUME NEW a, NEW b, NEW s, s.gets = <<<<"user", a>>, <<"stock", b>>, <<"fund", a>>>>
    PROVE  \A L : ParentsReadOnce(L, SelectsOf(s), <<>>)
<1> DEFINE A == <<<<"users", a>>, <<"long_positions", a>>, <<"short_positions", a>>,
                  <<"activity_buckets", a>>, <<"voice_unique_channels", a>>>>
           B == <<<<"stocks", b>>, <<"price_history", b>>>>
           C == <<<<"hedge_funds", a>>, <<"fund_investors", a>>>>
           X == {A[i] : i \in 1..5} \cup {B[i] : i \in 1..2} \cup {C[i] : i \in 1..2}
           r == Chain(A, B, C)
<1>1. SelectsOf(s) = r
  <2>1. Get(<<"user", a>>) = A /\ Get(<<"stock", b>>) = B /\ Get(<<"fund", a>>) = C
    BY DEF Get, GetTables
  <2> HIDE DEF A, B, C
  <2>2. [i \in DOMAIN s.gets |-> Get(s.gets[i])] = <<A, B, C>>
    <3>1. DOMAIN s.gets = 1..3 /\ s.gets[1] = <<"user", a>> /\ s.gets[2] = <<"stock", b>> /\ s.gets[3] = <<"fund", a>>
      OBVIOUS
    <3> QED BY <2>1, <3>1
  <2>4. FlattenSeq(<<A, B, C>>) = r
    BY FlattenThree, Zenon
  <2> QED BY <2>2, <2>4 DEF SelectsOf
<1>2. /\ A \in Seq(X) /\ Len(A) = 5 /\ B \in Seq(X) /\ Len(B) = 2 /\ C \in Seq(X) /\ Len(C) = 2
  OBVIOUS
<1>3. /\ A[1] = <<"users", a>> /\ A[2] = <<"long_positions", a>> /\ A[3] = <<"short_positions", a>>
      /\ A[4] = <<"activity_buckets", a>> /\ A[5] = <<"voice_unique_channels", a>>
      /\ B[1] = <<"stocks", b>> /\ B[2] = <<"price_history", b>>
      /\ C[1] = <<"hedge_funds", a>> /\ C[2] = <<"fund_investors", a>>
  OBVIOUS
<1> DEFINE p == A \o B
<1> HIDE DEF A, B, C, X
<1>4. Join(X, A, B, p)
  BY <1>2, Joined, Zenon
<1> HIDE DEF p
<1>5. Join(X, p, C, r)
  <2>1. p \in Seq(X)
    BY <1>4 DEF Join
  <2> QED BY <1>2, <2>1, Joined, Zenon DEF p, Chain
<1> HIDE DEF r
<1>6. /\ Len(p) = 7 /\ p[1] = A[1] /\ p[2] = A[2] /\ p[3] = A[3] /\ p[4] = A[4] /\ p[5] = A[5]
      /\ p[5 + 1] = B[1] /\ p[5 + 2] = B[2]
  BY <1>2, <1>4 DEF Join
<1>7. /\ Len(r) = 9 /\ r[1] = p[1] /\ r[2] = p[2] /\ r[3] = p[3] /\ r[4] = p[4] /\ r[5] = p[5]
      /\ r[6] = p[6] /\ r[7] = p[7] /\ r[7 + 1] = C[1] /\ r[7 + 2] = C[2]
  BY <1>2, <1>5, <1>6 DEF Join
<1>8. /\ r[1] = <<"users", a>> /\ r[2] = <<"long_positions", a>> /\ r[3] = <<"short_positions", a>>
      /\ r[4] = <<"activity_buckets", a>> /\ r[5] = <<"voice_unique_channels", a>>
      /\ r[6] = <<"stocks", b>> /\ r[7] = <<"price_history", b>>
      /\ r[8] = <<"hedge_funds", a>> /\ r[9] = <<"fund_investors", a>>
  BY <1>3, <1>6, <1>7
<1>9. ASSUME NEW k \in 1..9, NEW t \in ChildTables, NEW o, r[k] = <<Parent[t], o>>
      PROVE  \A i \in 1..(k - 1) : r[i] # <<t, o>>
  <2>1. Parent[t] \in {"users", "activity_buckets", "stocks", "hedge_funds"}
    BY Schema
  <2>2. k \in {1, 4, 6, 8}
    BY <1>8, <1>9, <2>1
  <2>3. CASE k = 1
    BY <2>3
  <2>4. CASE k = 4
    <3>1. t = "voice_unique_channels"
      BY <1>8, <1>9, <2>4, Schema
    <3> QED BY <1>8, <2>4, <3>1
  <2>5. CASE k = 6
    <3>1. t = "price_history"
      BY <1>8, <1>9, <2>5, Schema
    <3> QED BY <1>8, <2>5, <3>1
  <2>6. CASE k = 8
    <3>1. t = "fund_investors"
      BY <1>8, <1>9, <2>6, Schema
    <3> QED BY <1>8, <2>6, <3>1
  <2> QED BY <2>2, <2>3, <2>4, <2>5, <2>6
<1>10. DOMAIN <<>> = {}
  OBVIOUS
<1> QED BY <1>1, <1>7, <1>9, <1>10 DEF ParentsReadOnce

(* In a whole database a child table has the version of its parent. *)
LEMMA ChildWhole ==
    ASSUME NEW D, AllWhole(D), NEW t \in ChildTables \ {"price_history"}, NEW o \in Owners
    PROVE  Found(D, t, o) = Found(D, Parent[t], o)
<1> DEFINE x == <<KindOf(t), o>>
<1>1. x \in Stored /\ t \in TablesOf(x) /\ x[2] = o
  BY EveryTable DEF TableNames
<1>2. KindOf(Parent[t]) = KindOf(t) /\ Parent[t] \in TableNames
  BY Schema DEF KindOf
<1>3. Parent[t] \in TablesOf(x)
  BY <1>2 DEF TablesOf
<1> HIDE DEF x
<1> QED BY <1>1, <1>3 DEF AllWhole

(* The tail of a sequence, place by place. *)
LEMMA TailListed ==
    ASSUME NEW s, Listed(s), s # <<>>
    PROVE  /\ Head(s) = s[1] /\ Len(s) \in Nat \ {0} /\ Listed(Tail(s)) /\ Len(Tail(s)) = Len(s) - 1
           /\ \A i \in 1..(Len(s) - 1) : Tail(s)[i] = s[i + 1]
<1> DEFINE X == {s[i] : i \in 1..Len(s)}
           n == Len(s)
           r == Tail(s)
<1>1. s \in Seq(X) /\ n \in Nat \ {0} /\ Head(s) = s[1]
  BY DEF Listed
<1> HIDE DEF X
<1>2. r \in Seq(X) /\ Len(r) = n - 1 /\ n - 1 \in Nat /\ \A i \in 1..(n - 1) : r[i] = s[i + 1]
  BY <1>1
<1> HIDE DEF r
<1>3. Listed(r)
  BY <1>2 DEF Listed
<1> QED BY <1>1, <1>2, <1>3 DEF r

(* What is known when one more SELECT has been answered *)
Answer(D, sn, target) ==
    IF target[1] \in ChildTables /\ sn[<<Parent[target[1]], target[2]>>] = 0 THEN 0
    ELSE Found(D, target[1], target[2])
Answered(sn, target, v) ==
    [key \in DOMAIN sn \cup {target} |-> IF key = target THEN v ELSE sn[key]]

(* One more answer keeps what is known of the reads. *)
LEMMA SelectReads ==
    ASSUME NEW D, Well(D), AllWhole(D), NEW j, NEW sl, NEW sn, Reads(D, j, "reading", sl, sn),
           sl # <<>>, NEW tg, tg = Head(sl), NEW v, v = Answer(D, sn, tg),
           NEW sm, sm = Answered(sn, tg, v)
    PROVE  Reads(D, j, "reading", Tail(sl), sm)
<1> DEFINE t == tg[1]
           o == tg[2]
           p == <<Parent[t], o>>
           r == Tail(sl)
           n == Len(sl)
<1>1. Listed(sl) /\ (\A i \in 1..n : sl[i] \in Keys) /\ DOMAIN sn \subseteq Keys /\ ReadsParentsFirst(sl, sn)
  BY DEF Reads
<1>2. tg = sl[1] /\ n \in Nat \ {0} /\ Listed(r) /\ Len(r) = n - 1 /\ \A i \in 1..(n - 1) : r[i] = sl[i + 1]
  BY <1>1, TailListed
<1> HIDE DEF r, n
<1>3. tg \in Keys /\ 1 \in 1..n
  BY <1>1, <1>2
<1>4. t \in TableNames /\ o \in Owners /\ tg = <<t, o>>
  BY <1>3 DEF Keys
<1>5. /\ DOMAIN sm = DOMAIN sn \cup {tg} /\ sm[tg] = v
      /\ \A key \in DOMAIN sn : key # tg => sm[key] = sn[key]
  BY DEF Answered
<1>6. t \in ChildTables => p \in DOMAIN sn /\ p # tg
  <2> SUFFICES ASSUME t \in ChildTables PROVE p \in DOMAIN sn /\ p # tg
    OBVIOUS
  <2>1. p \in DOMAIN sn \/ \E k \in 1..(1 - 1) : sl[k] = p
    BY <1>1, <1>2, <1>3 DEF ReadsParentsFirst, n
  <2>2. p # tg
    BY <1>4, ParentNamed
  <2> QED BY <2>1, <2>2
<1>7. v = IF t \in ChildTables /\ sn[p] = 0 THEN 0 ELSE Found(D, t, o)
  BY DEF Answer
<1>8. Found(D, t, o) \in Nat
  BY <1>4, FoundNone
<1> HIDE DEF t, o, p
<1>9. ReadsParentsFirst(r, sm)
  <2> SUFFICES ASSUME NEW i \in 1..(n - 1), r[i][1] \in ChildTables, NEW q, q = <<Parent[r[i][1]], r[i][2]>>
               PROVE  q \in DOMAIN sm \/ \E k \in 1..(i - 1) : r[k] = q
    BY <1>2 DEF ReadsParentsFirst
  <2>1. r[i] = sl[i + 1] /\ i + 1 \in 1..n
    BY <1>2
  <2>2. q \in DOMAIN sn \/ \E k \in 1..((i + 1) - 1) : sl[k] = q
    BY <1>1, <2>1 DEF ReadsParentsFirst, n
  <2>3. CASE q \in DOMAIN sn
    BY <1>5, <2>3
  <2>4. CASE \E k \in 1..i : sl[k] = q
    <3>1. PICK k \in 1..i : sl[k] = q
      BY <2>4
    <3>2. CASE k = 1
      BY <1>2, <1>5, <3>1, <3>2
    <3>3. CASE k # 1
      <4>1. k - 1 \in 1..(i - 1) /\ k - 1 \in 1..(n - 1) /\ (k - 1) + 1 = k
        BY <1>2, <3>3
      <4> QED BY <1>2, <3>1, <4>1
    <3> QED BY <3>2, <3>3
  <2> QED BY <2>2, <2>3, <2>4
<1>10. ReadsLocked(D, j.locks, sm)
  <2>1. ReadsLocked(D, j.locks, sn)
    BY DEF Reads
  <2>4. o \in j.locks => v = Found(D, t, o)
    <3> SUFFICES ASSUME o \in j.locks, t \in ChildTables, sn[p] = 0 PROVE Found(D, t, o) = 0
      BY <1>7
    <3>1. sn[p] = Found(D, Parent[t], o)
      BY <1>6, <2>1 DEF ReadsLocked, p
    <3> QED BY <1>4, <3>1, ParentsFound
  <2>5. ASSUME NEW key \in DOMAIN sm, key[2] \in j.locks PROVE sm[key] = Found(D, key[1], key[2])
    <3>1. CASE key = tg
      BY <1>5, <2>4, <2>5, <3>1 DEF t, o
    <3>2. CASE key # tg
      BY <1>5, <2>1, <2>5, <3>2 DEF ReadsLocked
    <3> QED BY <3>1, <3>2
  <2> QED BY <2>5 DEF ReadsLocked
<1>11. ReadsMixed(D, j.locks, sm) /\ ParentsReadOnce(j.locks, r, sm)
  <2>1. ReadsMixed(D, j.locks, sn) /\ ParentsReadOnce(j.locks, sl, sn)
    BY DEF Reads
  <2>2. v \in Nat /\ v <= Found(D, t, o)
    BY <1>7, <1>8
  <2>3. o \notin j.locks /\ t \in ChildTables \ {"price_history"} => v >= sn[p]
    <3> SUFFICES ASSUME o \notin j.locks, t \in ChildTables \ {"price_history"} PROVE v >= sn[p]
      OBVIOUS
    <3>1. sn[p] \in Nat /\ sn[p] <= Found(D, Parent[t], o)
      BY <1>6, <2>1 DEF ReadsMixed, p
    <3>2. Found(D, t, o) = Found(D, Parent[t], o)
      BY <1>4, ChildWhole
    <3> QED BY <1>7, <1>8, <3>1, <3>2
  <2>4. ASSUME NEW key \in DOMAIN sm, key[2] \notin j.locks, NEW q, q = <<Parent[key[1]], key[2]>>
        PROVE  /\ sm[key] \in Nat /\ sm[key] <= Found(D, key[1], key[2])
               /\ key[1] \in ChildTables \ {"price_history"} => q \in DOMAIN sm /\ sm[key] >= sm[q]
    <3>1. CASE key = tg
      <4>1. q = p /\ key[1] = t /\ key[2] = o
        BY <2>4, <3>1 DEF p, t, o
      <4>2. t \in ChildTables => sm[p] = sn[p] /\ p \in DOMAIN sm
        BY <1>5, <1>6
      <4>3. o \notin j.locks
        BY <2>4, <4>1
      <4> QED BY <1>5, <2>2, <2>3, <3>1, <4>1, <4>2, <4>3
    <3>2. CASE key # tg
      <4>1. key \in DOMAIN sn /\ sm[key] = sn[key]
        BY <1>5, <3>2
      <4>2. /\ sn[key] \in Nat /\ sn[key] <= Found(D, key[1], key[2])
            /\ key[1] \in ChildTables \ {"price_history"} => q \in DOMAIN sn /\ sn[key] >= sn[q]
        BY <2>1, <2>4, <4>1 DEF ReadsMixed
      <4>3. key[1] \in ChildTables => q # tg
        <5> SUFFICES ASSUME key[1] \in ChildTables, q = tg PROVE FALSE
          OBVIOUS
        <5>1. key = <<key[1], key[2]>> /\ key[2] \in Owners
          BY <1>1, <4>1 DEF Keys
        <5>2. sl[1] = <<Parent[key[1]], key[2]>> /\ 1 \in 1..Len(sl)
          BY <1>2, <1>3, <2>4 DEF n
        <5>3. <<key[1], key[2]>> \notin DOMAIN sn
          BY <2>1, <2>4, <5>1, <5>2 DEF ParentsReadOnce
        <5> QED BY <4>1, <5>1, <5>3
      <4> QED BY <1>5, <4>1, <4>2, <4>3
    <3> QED BY <3>1, <3>2
  <2>5. ParentsReadOnce(j.locks, r, sm)
    <3> SUFFICES ASSUME NEW k \in 1..(n - 1), NEW u \in ChildTables, NEW z \in Owners \ j.locks, r[k] = <<Parent[u], z>>
                 PROVE  <<u, z>> \notin DOMAIN sm /\ \A i \in 1..(k - 1) : r[i] # <<u, z>>
      BY <1>2 DEF ParentsReadOnce
    <3>1. sl[k + 1] = <<Parent[u], z>> /\ k + 1 \in 1..n
      BY <1>2
    <3>2. <<u, z>> \notin DOMAIN sn /\ \A i \in 1..((k + 1) - 1) : sl[i] # <<u, z>>
      BY <2>1, <3>1 DEF ParentsReadOnce, n
    <3>3. tg # <<u, z>>
      BY <1>2, <3>2
    <3>4. ASSUME NEW i \in 1..(k - 1) PROVE r[i] # <<u, z>>
      <4>1. r[i] = sl[i + 1] /\ i + 1 \in 1..((k + 1) - 1)
        BY <1>2
      <4> QED BY <3>2, <4>1
    <3> QED BY <1>5, <3>2, <3>3, <3>4
  <2> QED BY <2>4, <2>5 DEF ReadsMixed
<1>12. (\A i \in 1..Len(r) : r[i] \in Keys) /\ DOMAIN sm \subseteq Keys
  <2>1. ASSUME NEW i \in 1..(n - 1) PROVE r[i] \in Keys
    <3>1. r[i] = sl[i + 1] /\ i + 1 \in 1..n
      BY <1>2
    <3> QED BY <1>1, <3>1
  <2> QED BY <1>1, <1>2, <1>3, <1>5, <2>1
<1> QED BY <1>2, <1>9, <1>10, <1>11, <1>12 DEF Reads, r

-----------------------------------------------------------------------------
(* What Only keeps, and where it stood *)
Keeping(s, S, n, g) ==
    g = [i \in 0..n |-> IF i = 0 THEN <<>>
                        ELSE IF s[i] \in S THEN Append(g[i - 1], s[i]) ELSE g[i - 1]]

(* There is a function that goes through a sequence and keeps the members   *)
(* of a set.                                                                *)
LEMMA KeepingExists ==
    ASSUME NEW s, NEW S, NEW n \in Nat
    PROVE  \E g : Keeping(s, S, n, g)
<1> DEFINE Bad == {m \in Nat : ~ \E g : Keeping(s, S, m, g)}
<1> SUFFICES ASSUME Bad # {} PROVE FALSE
  OBVIOUS
<1>1. PICK m \in Bad : \A k \in Bad : m <= k
  <2> HIDE DEF Bad
  <2>1. Bad \subseteq Nat
    BY DEF Bad
  <2> QED BY <2>1, LeastOf
<1> DEFINE K(g, i) == IF i = 0 THEN <<>> ELSE IF s[i] \in S THEN Append(g[i - 1], s[i]) ELSE g[i - 1]
<1>2. CASE m = 0
  <2> DEFINE h == [i \in 0..0 |-> <<>>]
  <2>1. h = [i \in 0..0 |-> K(h, i)]
    OBVIOUS
  <2>2. Keeping(s, S, 0, h)
    BY <2>1 DEF Keeping
  <2> QED BY <1>2, <2>2
<1>3. CASE m # 0
  <2>1. m \in Nat /\ m - 1 \in Nat /\ ~(m <= m - 1)
    BY <1>3
  <2>2. PICK g : Keeping(s, S, m - 1, g)
    BY <1>1, <2>1
  <2> DEFINE h == [i \in 0..m |-> IF i = m THEN K(g, m) ELSE g[i]]
  <2>3. ASSUME NEW i \in 0..m PROVE h[i] = K(h, i)
    <3>1. i # 0 => i - 1 \in 0..m /\ i - 1 # m
      BY <2>1
    <3>2. i # 0 => h[i - 1] = g[i - 1]
      BY <3>1
    <3>3. i # m => i \in 0..(m - 1)
      BY <2>1
    <3>4. g = [k \in 0..(m - 1) |-> K(g, k)]
      BY <2>2 DEF Keeping
    <3>5. i # m => g[i] = K(g, i)
      <4> HIDE DEF K
      <4> QED BY <3>3, <3>4
    <3>6. h[i] = K(g, i)
      <4> HIDE DEF K
      <4> QED BY <3>5
    <3> HIDE DEF h
    <3> QED BY <3>2, <3>6
  <2>4. h = [i \in 0..m |-> K(h, i)]
    <3>1. h = [i \in 0..m |-> h[i]]
      OBVIOUS
    <3> HIDE DEF h, K
    <3> QED BY <2>3, <3>1
  <2>5. Keeping(s, S, m, h)
    BY <2>4, Zenon DEF Keeping
  <2> HIDE DEF h
  <2> QED BY <2>5
<1> QED BY <1>2, <1>3

(* e tells at which place of s an element of q stood. *)
Picks(X, s, S, n, q, e) ==
    /\ q \in Seq(X) /\ \A k \in 1..Len(q) : e[k] \in 1..n /\ q[k] = s[e[k]] /\ q[k] \in S
    /\ \A k, l \in 1..Len(q) : k < l => e[k] < e[l]
    /\ \A i \in 1..n : s[i] \in S => \E k \in 1..Len(q) : e[k] = i
    /\ (\A i \in 1..n : s[i] \in S) => Len(q) = n /\ \A i \in 1..n : q[i] = s[i]

(* One more place of the sequence is gone through. *)
LEMMA PickMore ==
    ASSUME NEW X, NEW s, NEW S, NEW n \in Nat, NEW q, NEW e, Picks(X, s, S, n, q, e),
           NEW m, m = n + 1, s[m] \in X, NEW z, z = IF s[m] \in S THEN Append(q, s[m]) ELSE q
    PROVE  \E f : Picks(X, s, S, m, z, f)
<1> DEFINE N == Len(q)
<1>0. q \in Seq(X) /\ N \in Nat
  BY DEF Picks
<1>1. CASE s[m] \notin S
  <2>1. z = q
    BY <1>1
  <2>2. Picks(X, s, S, m, q, e)
    <3>1. \A k \in 1..N : e[k] \in 1..m /\ q[k] = s[e[k]] /\ q[k] \in S
      BY DEF Picks
    <3>2. \A i \in 1..m : s[i] \in S => i \in 1..n
      BY <1>1
    <3>3. ~(\A i \in 1..m : s[i] \in S)
      BY <1>1
    <3> QED BY <1>0, <3>1, <3>2, <3>3 DEF Picks
  <2> QED BY <2>1, <2>2
<1>2. CASE s[m] \in S
  <2> DEFINE f == [k \in 1..(N + 1) |-> IF k = N + 1 THEN m ELSE e[k]]
  <2>1. z \in Seq(X) /\ Len(z) = N + 1 /\ z[N + 1] = s[m] /\ \A k \in 1..N : z[k] = q[k]
    BY <1>0, <1>2
  <2>2. f[N + 1] = m /\ \A k \in 1..N : f[k] = e[k]
    BY <1>0
  <2> HIDE DEF f
  <2>3. \A k \in 1..N : e[k] \in 1..n /\ q[k] = s[e[k]] /\ q[k] \in S
    BY DEF Picks
  <2>4. ASSUME NEW k \in 1..(N + 1) PROVE f[k] \in 1..m /\ z[k] = s[f[k]] /\ z[k] \in S
    <3>1. CASE k = N + 1
      BY <1>2, <2>1, <2>2, <3>1
    <3>2. CASE k # N + 1
      <4>1. k \in 1..N
        BY <1>0, <3>2
      <4> QED BY <2>1, <2>2, <2>3, <4>1
    <3> QED BY <3>1, <3>2
  <2>5. ASSUME NEW k \in 1..(N + 1), NEW l \in 1..(N + 1), k < l PROVE f[k] < f[l]
    <3>1. k \in 1..N /\ f[k] = e[k] /\ e[k] \in 1..n
      BY <1>0, <2>2, <2>3, <2>5
    <3>2. CASE l = N + 1
      BY <2>2, <3>1, <3>2
    <3>3. CASE l # N + 1
      <4>1. l \in 1..N
        BY <1>0, <3>3
      <4> QED BY <2>2, <2>5, <3>1, <4>1 DEF Picks
    <3> QED BY <3>2, <3>3
  <2>6. ASSUME NEW i \in 1..m, s[i] \in S PROVE \E k \in 1..(N + 1) : f[k] = i
    <3>1. CASE i = m
      BY <1>0, <2>2, <3>1
    <3>2. CASE i # m
      <4>1. i \in 1..n
        BY <3>2
      <4>2. PICK k \in 1..N : e[k] = i
        BY <2>6, <4>1 DEF Picks
      <4>3. k \in 1..(N + 1)
        BY <1>0
      <4> QED BY <2>2, <4>2, <4>3
    <3> QED BY <3>1, <3>2
  <2>7. ASSUME \A i \in 1..m : s[i] \in S PROVE N + 1 = m /\ \A i \in 1..m : z[i] = s[i]
    <3>1. \A i \in 1..n : i \in 1..m
      OBVIOUS
    <3>2. N = n /\ \A i \in 1..n : q[i] = s[i]
      BY <2>7, <3>1 DEF Picks
    <3>3. \A i \in 1..m : i = m \/ i \in 1..n
      OBVIOUS
    <3> QED BY <2>1, <3>2, <3>3
  <2>8. Picks(X, s, S, m, z, f)
    <3> HIDE DEF N
    <3> QED BY <2>1, <2>4, <2>5, <2>6, <2>7 DEF Picks
  <2> QED BY <2>8
<1> QED BY <1>1, <1>2

(* Only keeps the members of a set, in the order they stood in. *)
LEMMA OnlyPicks ==
    ASSUME NEW X, NEW S, NEW s, Listed(s), \A i \in 1..Len(s) : s[i] \in X
    PROVE  \E e : Picks(X, s, S, Len(s), Only(s, S), e)
<1> DEFINE n == Len(s)
           g == CHOOSE f : Keeping(s, S, n, f)
<1>1. n \in Nat
  BY DEF Listed
<1>2. Keeping(s, S, n, g)
  BY <1>1, KeepingExists
<1>3. Only(s, S) = g[n]
  BY DEF Only, Keeping
<1> HIDE DEF g, n
<1>4. g[0] = <<>> /\ \A i \in 1..n : g[i] = IF s[i] \in S THEN Append(g[i - 1], s[i]) ELSE g[i - 1]
  <2>1. \A i \in 0..n : g[i] = IF i = 0 THEN <<>> ELSE IF s[i] \in S THEN Append(g[i - 1], s[i]) ELSE g[i - 1]
    BY <1>2 DEF Keeping
  <2> QED BY <1>1, <2>1
<1> DEFINE Bad == {i \in 0..n : ~ \E e : Picks(X, s, S, i, g[i], e)}
<1>5. ASSUME Bad # {} PROVE FALSE
  <2>1. PICK m \in Bad : \A k \in Bad : m <= k
    <3>1. Bad \subseteq Nat
      BY <1>1
    <3> HIDE DEF Bad
    <3> QED BY <1>5, <3>1, LeastOf
  <2>2. CASE m = 0
    <3>1. Picks(X, s, S, 0, <<>>, <<>>)
      BY DEF Picks
    <3> QED BY <1>4, <2>1, <2>2, <3>1
  <2>3. CASE m # 0
    <3>1. m \in 1..n /\ m - 1 \in 0..n /\ ~(m <= m - 1) /\ m - 1 \in Nat /\ m = (m - 1) + 1
      BY <1>1, <2>3
    <3>2. PICK e : Picks(X, s, S, m - 1, g[m - 1], e)
      BY <2>1, <3>1
    <3>3. g[m] = IF s[m] \in S THEN Append(g[m - 1], s[m]) ELSE g[m - 1]
      BY <1>4, <3>1
    <3>4. s[m] \in X
      BY <3>1 DEF n
    <3> DEFINE k == m - 1
    <3> HIDE DEF k
    <3>5. \E f : Picks(X, s, S, m, g[m], f)
      <4>1. k \in Nat /\ m = k + 1 /\ Picks(X, s, S, k, g[k], e) /\ g[m] = IF s[m] \in S THEN Append(g[k], s[m]) ELSE g[k]
        BY <3>1, <3>2, <3>3 DEF k
      <4> QED BY <3>4, <4>1, PickMore
    <3> QED BY <2>1, <3>5
  <2> QED BY <2>2, <2>3
<1>6. \E e : Picks(X, s, S, n, g[n], e)
  BY <1>1, <1>5
<1> QED BY <1>3, <1>6 DEF n

-----------------------------------------------------------------------------
(* The calls that a section decides to make *)
VersionSeen(D, sn, x) ==
    LET key == <<MainTable(x), x[2]>> IN IF key \in DOMAIN sn THEN sn[key] ELSE Version(D, x)
(* What a section writes: what it has to create, and what it changed *)
ToWrite(D, s, sn, unchanged) ==
    Only(s.sets, {x \in Stored : \/ x[1] \in {"user", "stock"} /\ VersionSeen(D, sn, x) = 0
                                 \/ x \notin unchanged})
(* The upserts for it, each to the next version *)
CallsFor(D, sn, q) == [i \in DOMAIN q |-> Call(q[i], Upsert(q[i], VersionSeen(D, sn, q[i]) + 1))]

(* Under its locks a section knows the current version. *)
LEMMA ReadIsCurrent ==
    ASSUME NEW D, NEW j, NEW sl, NEW sn, Reads(D, j, "reading", sl, sn), NEW x \in Stored,
           x[2] \in j.locks
    PROVE  VersionSeen(D, sn, x) = Version(D, x)
BY DEF VersionSeen, Reads, ReadsLocked, Version

(* A decision, written over the values it is made from *)
Decision(D, s, sn, unchanged, q, cs, w) ==
    q = ToWrite(D, s, sn, unchanged) /\ cs = CallsFor(D, sn, q) /\ w = {q[i] : i \in DOMAIN q}
(* What a decision leaves behind: calls that fit the invariant *)
Decided(t, D, s, q, cs, w) ==
    /\ Calls(t, D, D, FALSE, s, cs, w) /\ w \subseteq Members(s) /\ w \subseteq Stored
    /\ Listed(q) /\ Listed(cs) /\ Len(cs) = Len(q) /\ \A i \in 1..Len(q) : cs[i].of = q[i]
    /\ ~s.uow => q = s.sets

(* The calls a section decides to make are upserts to the next version. *)
LEMMA Decides ==
    ASSUME NEW t, t # Migrator, NEW D, Well(D), NEW s \in Work, NEW sn, NEW sl, Reads(D, s, "reading", sl, sn),
           NEW unchanged \in s.spare, NEW q, NEW cs, NEW w, Decision(D, s, sn, unchanged, q, cs, w)
    PROVE  Decided(t, D, s, q, cs, w)
<1> DEFINE S == {x \in Stored : \/ x[1] \in {"user", "stock"} /\ VersionSeen(D, sn, x) = 0
                                \/ x \notin unchanged}
           n == Len(s.sets)
           N == Len(q)
<1>0. q = ToWrite(D, s, sn, unchanged) /\ cs = CallsFor(D, sn, q) /\ w = {q[i] : i \in DOMAIN q}
  BY DEF Decision
<1>1. SetsFine(s) /\ SparesFine(s)
  BY WorkFine DEF Fine
<1>2. Listed(s.sets) /\ n \in Nat /\ DOMAIN s.sets = 1..n /\ s.sets = [i \in 1..n |-> s.sets[i]]
  BY <1>1 DEF SetsFine, Listed
<1>3. PICK e : Picks(Stored, s.sets, S, n, q, e)
  <2>1. \A i \in 1..Len(s.sets) : s.sets[i] \in Stored
    BY <1>1 DEF SetsFine
  <2>2. q = Only(s.sets, S)
    BY <1>0 DEF ToWrite
  <2> HIDE DEF S
  <2> QED BY <1>2, <2>1, <2>2, OnlyPicks
<1> HIDE DEF S, n
<1>4. q \in Seq(Stored) /\ N \in Nat /\ DOMAIN q = 1..N /\ Listed(q)
  BY <1>3 DEF Picks, Listed
<1>5. ASSUME NEW i \in 1..N
      PROVE  /\ e[i] \in 1..n /\ q[i] = s.sets[e[i]] /\ q[i] \in S /\ q[i] \in Stored
             /\ q[i] \in Members(s) /\ q[i][2] \in s.locks
  <2>1. e[i] \in 1..n /\ q[i] = s.sets[e[i]] /\ q[i] \in S
    BY <1>3 DEF Picks
  <2>2. s.sets[e[i]] \in Stored /\ s.sets[e[i]][2] \in s.locks
    BY <1>1, <2>1 DEF SetsFine, n
  <2>3. s.sets[e[i]] \in Members(s)
    BY <1>2, <2>1 DEF Members
  <2> QED BY <2>1, <2>2, <2>3
<1>6. \A i, k \in 1..N : q[i] = q[k] => i = k
  <2> SUFFICES ASSUME NEW i \in 1..N, NEW k \in 1..N, q[i] = q[k], i # k PROVE FALSE
    OBVIOUS
  <2>1. e[i] = e[k]
    BY <1>1, <1>5 DEF SetsFine, n
  <2>2. i < k \/ k < i
    BY <1>4
  <2>3. e[i] < e[k] \/ e[k] < e[i]
    BY <1>3, <2>2 DEF Picks
  <2>4. e[i] \in Nat /\ e[k] \in Nat
    BY <1>2, <1>5
  <2> QED BY <2>1, <2>3, <2>4
<1>7. ASSUME NEW i \in 1..N
      PROVE  cs[i] = Call(q[i], StatementsLeft(t, q[i], Goal(t, D, q[i]), Length(t, q[i])))
  <2>1. cs[i] = Call(q[i], Upsert(q[i], VersionSeen(D, sn, q[i]) + 1))
    BY <1>0, <1>4 DEF CallsFor
  <2>2. VersionSeen(D, sn, q[i]) = Version(D, q[i])
    <3>1. \A x \in Stored : x[2] \in s.locks => VersionSeen(D, sn, x) = Version(D, x)
      BY ReadIsCurrent, Zenon
    <3> QED BY <1>5, <3>1
  <2>3. Goal(t, D, q[i]) = VersionSeen(D, sn, q[i]) + 1
    BY <2>2 DEF Goal
  <2>4. Upsert(q[i], Goal(t, D, q[i])) = StatementsLeft(t, q[i], Goal(t, D, q[i]), Length(t, q[i]))
    BY <1>5, UpsertLeft
  <2> QED BY <2>1, <2>3, <2>4
<1>8. Listed(cs) /\ Len(cs) = N /\ DOMAIN cs = 1..N
  BY <1>0, <1>4 DEF CallsFor, Listed
<1>9. ASSUME NEW i \in 1..N
      PROVE  /\ cs[i].of = q[i] /\ Len(cs[i].stmts) = Length(t, q[i]) /\ Length(t, q[i]) = Full(t, q[i])
             /\ Length(t, q[i]) \in 2..7
  <2>1. Length(t, q[i]) \in 2..7 /\ Length(t, q[i]) = Full(t, q[i])
    BY <1>5, Lengths
  <2>2. Len(StatementsLeft(t, q[i], Goal(t, D, q[i]), Length(t, q[i]))) = Length(t, q[i])
    BY <2>1, LeftLen
  <2> DEFINE z == StatementsLeft(t, q[i], Goal(t, D, q[i]), Length(t, q[i]))
             y == q[i]
  <2>3. cs[i] = [of |-> y, stmts |-> z]
    BY <1>7 DEF Call
  <2>4. Len(z) = Length(t, q[i])
    BY <2>2
  <2> HIDE DEF z, y
  <2>5. cs[i].of = y /\ cs[i].stmts = z
    BY <2>3
  <2> QED BY <2>1, <2>4, <2>5 DEF y
<1>10. Queued(t, D, cs)
  <2>1. ASSUME NEW i \in 1..N
        PROVE  Stands(t, D, cs[i], Len(cs[i].stmts)) /\ Len(cs[i].stmts) = Full(t, cs[i].of)
    <3>1. Full(t, q[i]) \in 1..Full(t, q[i])
      BY <1>9
    <3> QED BY <1>5, <1>7, <1>9, <3>1 DEF Stands
  <2> QED BY <1>8, <2>1 DEF Queued
<1>11. OfCalls(cs) = w /\ w \subseteq Members(s) /\ w \subseteq Stored
  <2>1. OfCalls(cs) = {q[i] : i \in 1..N}
    BY <1>8, <1>9 DEF OfCalls
  <2> QED BY <1>0, <1>4, <1>5, <2>1
<1>12. Planned(t, s, cs, w)
  <2>1. \A i, k \in 1..Len(cs) : cs[i].of = cs[k].of => i = k
    BY <1>6, <1>8, <1>9
  <2> QED BY <1>11, <2>1 DEF Planned
<1>13. StocksFirst(D, cs)
  <2>0. \A i \in 1..N : cs[i].of = q[i]
    BY <1>9
  <2> SUFFICES ASSUME NEW i \in 1..N, q[i][1] = "history", Found(D, "stocks", q[i][2]) = 0
               PROVE  \E k \in 1..(i - 1) : cs[k].of = <<"stock", q[i][2]>>
    <3> USE DEF StocksFirst
    <3> DEFINE M == Len(cs)
    <3>1. M = N
      BY <1>8
    <3> HIDE DEF M, N
    <3> SUFFICES \A i \in 1..M : cs[i].of[1] = "history" =>
                    \/ Found(D, "stocks", cs[i].of[2]) # 0
                    \/ \E k \in 1..(i - 1) : cs[k].of = <<"stock", cs[i].of[2]>>
      BY DEF M
    <3> QED BY <2>0, <3>1
  <2> DEFINE x == <<"stock", q[i][2]>>
  <2>1. PICK m \in 1..(e[i] - 1) : s.sets[m] = x
    <3> DEFINE a == e[i]
    <3>1. a \in 1..Len(s.sets) /\ s.sets[a] = q[i]
      BY <1>5 DEF n
    <3> HIDE DEF a
    <3>2. s.sets[a][1] = "history" /\ s.sets[a][2] = q[i][2]
      BY <3>1
    <3>3. \E m \in 1..(a - 1) : s.sets[m] = <<"stock", s.sets[a][2]>>
      BY <1>1, <3>1, <3>2 DEF SparesFine
    <3> QED BY <3>2, <3>3 DEF a
  <2>2. m \in 1..n /\ m < e[i] /\ e[i] \in Nat
    BY <1>2, <1>5
  <2>3. x \in Stored /\ MainTable(x) = "stocks" /\ x[2] = q[i][2] /\ x[1] = "stock"
    BY <1>5 DEF Stored, MainTable, GetTables
  <2> HIDE DEF x
  <2>4. Version(D, x) = 0
    BY <2>3 DEF Version
  <2>5. VersionSeen(D, sn, x) = 0
    BY <1>5, <2>3, <2>4, ReadIsCurrent
  <2>6. s.sets[m] \in S
    BY <2>1, <2>3, <2>5 DEF S
  <2>7. PICK k \in 1..N : e[k] = m
    BY <1>3, <2>2, <2>6 DEF Picks
  <2>8. q[k] = x
    BY <1>5, <2>1, <2>7
  <2>9. k \in 1..(i - 1)
    <3> SUFFICES ASSUME ~(k < i) PROVE FALSE
      BY <1>4
    <3>1. i = k \/ i < k
      BY <1>4
    <3>2. i = k \/ e[i] < e[k]
      BY <1>3, <3>1 DEF Picks
    <3> QED BY <2>2, <2>7, <3>2
  <2> QED BY <1>9, <2>8, <2>9 DEF x
<1>14. Untouched(t, s, cs, w)
  <2>1. Changed(s, cs, w) = {}
    BY <1>11 DEF Changed
  <2>2. cs # <<>> => 1 \in 1..N
    BY <1>4, <1>8 DEF Listed
  <2> QED BY <1>9, <2>1, <2>2 DEF Untouched
<1>15. ASSUME ~s.uow PROVE q = s.sets
  <2>1. unchanged = {}
    BY <1>1, <1>15 DEF SparesFine
  <2>2. \A i \in 1..n : s.sets[i] \in S
    BY <1>1, <2>1 DEF SetsFine, S, n
  <2>3. N = n /\ \A i \in 1..n : q[i] = s.sets[i]
    BY <1>3, <2>2 DEF Picks
  <2>4. q = [i \in 1..n |-> q[i]]
    BY <1>4, <2>3 DEF Listed
  <2> QED BY <1>2, <2>3, <2>4
<1> QED BY <1>4, <1>8, <1>9, <1>10, <1>11, <1>12, <1>13, <1>14, <1>15 DEF Calls, Transacts, Decided

-----------------------------------------------------------------------------
(* The calls of the migrator: each parses its record and writes what the    *)
(* upsert of its aggregate writes, a history after its stock.               *)
LEMMA OneMoreLeft ==
    ASSUME NEW c, NEW x, NEW v, NEW n \in Nat
    PROVE  <<StatementAt(c, x, v, n + 1)>> \o StatementsLeft(c, x, v, n) = StatementsLeft(c, x, v, n + 1)
<1> DEFINE X == {StatementAt(c, x, v, k) : k \in 1..(n + 1)}
           p == <<StatementAt(c, x, v, n + 1)>>
           s == StatementsLeft(c, x, v, n)
           r == StatementsLeft(c, x, v, n + 1)
           q == p \o s
<1>1. p \in Seq(X) /\ Len(p) = 1 /\ p[1] = StatementAt(c, x, v, n + 1)
  OBVIOUS
<1>2. s \in Seq(X) /\ Len(s) = n /\ \A k \in 1..n : s[k] = StatementAt(c, x, v, n - k + 1)
  <2>1. \A k \in 1..n : n - k + 1 \in 1..(n + 1)
    OBVIOUS
  <2> QED BY <2>1 DEF StatementsLeft
<1>3. r \in Seq(X) /\ Len(r) = n + 1 /\ \A k \in 1..(n + 1) : r[k] = StatementAt(c, x, v, (n + 1) - k + 1)
  <2>1. \A k \in 1..(n + 1) : (n + 1) - k + 1 \in 1..(n + 1)
    OBVIOUS
  <2> QED BY <2>1 DEF StatementsLeft
<1> HIDE DEF X, p, s, r, q
<1>4. Join(X, p, s, q)
  BY <1>1, <1>2, Joined, Zenon DEF q
<1>5. q \in Seq(X) /\ Len(q) = n + 1 /\ q[1] = p[1] /\ \A k \in 1..n : q[1 + k] = s[k]
  BY <1>1, <1>2, <1>4 DEF Join
<1>6. ASSUME NEW k \in 1..(n + 1) PROVE q[k] = r[k]
  <2>1. CASE k = 1
    <3>1. (n + 1) - k + 1 = n + 1
      BY <2>1
    <3> QED BY <1>1, <1>3, <1>5, <2>1, <3>1
  <2>2. CASE k # 1
    <3>1. k - 1 \in 1..n /\ 1 + (k - 1) = k /\ n - (k - 1) + 1 = (n + 1) - k + 1
      BY <2>2
    <3>2. q[1 + (k - 1)] = s[k - 1] /\ s[k - 1] = StatementAt(c, x, v, n - (k - 1) + 1)
      BY <1>2, <1>5, <3>1
    <3> QED BY <1>3, <3>1, <3>2
  <2> QED BY <2>1, <2>2
<1>7. q = r
  BY <1>3, <1>5, <1>6, SeqEqual
<1> QED BY <1>7 DEF q, p, s, r

(* The call of the migrator for one aggregate, all of it left *)
SourceCall(x) ==
    Call(x, StatementsLeft(Migrator, x, IF x[1] = "history" THEN NumPoints ELSE 1, Full(Migrator, x)))

(* A call of the migrator parses its record and makes the upsert. *)
LEMMA ParsedUpsert ==
    ASSUME NEW x \in Stored, x[1] # "history",
           NEW p, p = StatementAt(Migrator, x, 1, Length(Migrator, x) + 1)
    PROVE  Call(x, <<p>> \o Upsert(x, 1)) = SourceCall(x)
<1> DEFINE n == Length(Migrator, x)
<1>1. n \in Nat /\ n = Length(Nobody, x) /\ Full(Migrator, x) = n + 1 /\ Nobody # Migrator
  BY Lengths DEF Length, Full, Nobody, Migrator
<1>2. Upsert(x, 1) = StatementsLeft(Nobody, x, 1, n)
  BY <1>1, UpsertLeft
<1>3. \A k : StatementAt(Nobody, x, 1, k) = StatementAt(Migrator, x, 1, k)
  BY DEF StatementAt
<1>4. StatementsLeft(Nobody, x, 1, n) = StatementsLeft(Migrator, x, 1, n)
  BY <1>3 DEF StatementsLeft
<1> HIDE DEF n
<1>5. <<StatementAt(Migrator, x, 1, n + 1)>> \o StatementsLeft(Migrator, x, 1, n)
          = StatementsLeft(Migrator, x, 1, n + 1)
  BY <1>1, OneMoreLeft
<1>6. <<p>> \o Upsert(x, 1) = StatementsLeft(Migrator, x, 1, Full(Migrator, x))
  BY <1>1, <1>2, <1>4, <1>5 DEF n
<1> QED BY <1>6 DEF SourceCall

(* The calls of the migrator for one owner are calls as counted from the    *)
(* end.                                                                     *)
LEMMA SourceCalls ==
    ASSUME NEW o \in Owners
    PROVE  /\ MigrateUser(o) = <<SourceCall(<<"user", o>>)>>
           /\ MigratePrice(o) = <<SourceCall(<<"stock", o>>), SourceCall(<<"history", o>>)>>
           /\ MigrateFund(o) = <<SourceCall(<<"fund", o>>)>>
           /\ MigratePenalty(o) = <<SourceCall(<<"penalty", o>>)>>
<1> DEFINE P(x) == StatementAt(Migrator, x, 1, Length(Migrator, x) + 1)
<1>0. \A k \in {"user", "stock", "fund", "penalty"} :
          LET x == <<k, o>> IN Call(x, <<P(x)>> \o Upsert(x, 1)) = SourceCall(x)
  <2> TAKE k \in {"user", "stock", "fund", "penalty"}
  <2> DEFINE x == <<k, o>>
  <2>1. x \in Stored /\ x[1] # "history"
    BY DEF Stored
  <2> HIDE DEF x
  <2>2. Call(x, <<P(x)>> \o Upsert(x, 1)) = SourceCall(x)
    BY <2>1, ParsedUpsert
  <2> QED BY <2>2 DEF x
<1>1. /\ P(<<"user", o>>) = Parse("users", o) /\ P(<<"stock", o>>) = Parse("prices", o)
      /\ P(<<"fund", o>>) = Parse("funds", o) /\ P(<<"penalty", o>>) = Parse("penalties", o)
  BY DEF StatementAt, Length, FileOf
<1>2. /\ Upsert(<<"user", o>>, 1) = UserUpsert(o, 1) /\ Upsert(<<"stock", o>>, 1) = StockUpsert(o, 1)
      /\ Upsert(<<"fund", o>>, 1) = FundUpsert(o, 1) /\ Upsert(<<"penalty", o>>, 1) = PenaltyUpsert(o, 1)
  BY DEF Upsert
<1>3. Call(<<"history", o>>, RewriteHistory(o)) = SourceCall(<<"history", o>>)
  BY DEF SourceCall, RewriteHistory, StatementsLeft, StatementAt, Full, Length
<1> HIDE DEF P
<1>4. /\ Call(<<"user", o>>, <<Parse("users", o)>> \o UserUpsert(o, 1)) = SourceCall(<<"user", o>>)
      /\ Call(<<"stock", o>>, <<Parse("prices", o)>> \o StockUpsert(o, 1)) = SourceCall(<<"stock", o>>)
      /\ Call(<<"fund", o>>, <<Parse("funds", o)>> \o FundUpsert(o, 1)) = SourceCall(<<"fund", o>>)
      /\ Call(<<"penalty", o>>, <<Parse("penalties", o)>> \o PenaltyUpsert(o, 1)) = SourceCall(<<"penalty", o>>)
  BY <1>0, <1>1, <1>2, Zenon
<1> QED BY <1>3, <1>4 DEF MigrateUser, MigratePrice, MigrateFund, MigratePenalty

(* Every history comes after its stock. *)
StockedHistory(q) ==
    \A i \in 1..Len(q) : q[i].of[1] = "history" =>
        \E k \in 1..(i - 1) : q[k].of = <<"stock", q[i].of[2]>>
(* Lists of such calls *)
Migrations == {q \in Seq({SourceCall(x) : x \in Stored}) : StockedHistory(q)}

(* Two parts of a migration, one after the other. *)
LEMMA MigrationsJoined ==
    ASSUME NEW p \in Migrations, NEW q \in Migrations
    PROVE  p \o q \in Migrations
<1> DEFINE X == {SourceCall(x) : x \in Stored}
           r == p \o q
           m == Len(p)
           n == Len(q)
<1>1. p \in Seq(X) /\ q \in Seq(X) /\ m \in Nat /\ n \in Nat
  BY DEF Migrations
<1> HIDE DEF X
<1>2. Join(X, p, q, r)
  BY <1>1, Joined, Zenon
<1> HIDE DEF r
<1>3. r \in Seq(X) /\ Len(r) = m + n /\ (\A i \in 1..m : r[i] = p[i]) /\ \A i \in 1..n : r[m + i] = q[i]
  BY <1>2 DEF Join
<1>5. StockedHistory(p) /\ StockedHistory(q)
  BY DEF Migrations
<1> HIDE DEF m, n
<1>4. ASSUME NEW i \in 1..(m + n), r[i].of[1] = "history"
      PROVE  \E k \in 1..(i - 1) : r[k].of = <<"stock", r[i].of[2]>>
  <2>1. CASE i \in 1..m
    <3>1. r[i] = p[i] /\ i \in 1..Len(p)
      BY <1>3, <2>1 DEF m
    <3>2. \E k \in 1..(i - 1) : p[k].of = <<"stock", p[i].of[2]>>
      BY <1>4, <1>5, <3>1 DEF StockedHistory
    <3>3. \A k \in 1..(i - 1) : r[k] = p[k]
      BY <1>1, <1>3, <2>1
    <3> QED BY <3>1, <3>2, <3>3
  <2>2. CASE i \notin 1..m
    <3> DEFINE e == i - m
    <3>1. e \in 1..n /\ m + e = i
      BY <1>1, <2>2
    <3> HIDE DEF e
    <3>2. r[i] = q[e] /\ e \in 1..Len(q)
      BY <1>3, <3>1 DEF n
    <3>3. \E k \in 1..(e - 1) : q[k].of = <<"stock", q[e].of[2]>>
      BY <1>4, <1>5, <3>2 DEF StockedHistory
    <3>4. \A k \in 1..(e - 1) : m + k \in 1..(i - 1) /\ r[m + k] = q[k]
      BY <1>1, <1>3, <3>1
    <3> QED BY <3>2, <3>3, <3>4
  <2> QED BY <2>1, <2>2
<1>6. Len(r) = m + n /\ r \in Seq(X)
  BY <1>3
<1> QED BY <1>4, <1>6 DEF Migrations, StockedHistory, r, X

(* The records of a file are migrated one after the other. *)
LEMMA FileMigrated ==
    ASSUME NEW file \in Seq(Owners), NEW seqs, seqs = [i \in DOMAIN file |-> seqs[i]],
           \A i \in DOMAIN file : seqs[i] \in Migrations
    PROVE  FlattenSeq(seqs) \in Migrations
<1> DEFINE n == Len(file)
           S == Migrations
<1>1. n \in Nat /\ DOMAIN file = 1..n
  OBVIOUS
<1>2. \A i \in 1..n : seqs[i] \in S
  BY <1>1
<1>3. seqs = [i \in 1..n |-> seqs[i]]
  BY <1>1
<1>4. <<>> \in S
  BY DEF Migrations, StockedHistory
<1>5. \A p, q \in S : p \o q \in S
  BY MigrationsJoined
<1> HIDE DEF S, n
<1>6. FlattenSeq(seqs) \in S
  BY <1>1, <1>2, <1>3, <1>4, <1>5, FlattenIn
<1> QED BY <1>6 DEF S

(* The calls for one record write each stock before its history. *)
LEMMA CallsMigrated ==
    ASSUME NEW o \in Owners
    PROVE  /\ MigrateUser(o) \in Migrations /\ MigratePrice(o) \in Migrations
           /\ MigrateFund(o) \in Migrations /\ MigratePenalty(o) \in Migrations
<1> DEFINE X == {SourceCall(x) : x \in Stored}
<1>1. \A x \in Stored : SourceCall(x).of = x /\ SourceCall(x) \in X
  <2> TAKE x \in Stored
  <2> DEFINE z == StatementsLeft(Migrator, x, IF x[1] = "history" THEN NumPoints ELSE 1, Full(Migrator, x))
  <2> HIDE DEF z
  <2>1. Call(x, z).of = x
    BY DEF Call
  <2> QED BY <2>1 DEF SourceCall, z
<1> HIDE DEF X
<1>2. \A k \in {"user", "stock", "fund", "penalty"} : <<SourceCall(<<k, o>>)>> \in Migrations
  <2> TAKE k \in {"user", "stock", "fund", "penalty"}
  <2> DEFINE a == SourceCall(<<k, o>>)
             s == <<a>>
  <2>1. <<k, o>> \in Stored /\ <<k, o>>[1] # "history"
    BY DEF Stored
  <2>2. a \in X /\ a.of[1] # "history"
    BY <1>1, <2>1
  <2> HIDE DEF a
  <2>3. s \in Seq(X) /\ Len(s) = 1 /\ s[1] = a
    BY <2>2
  <2> HIDE DEF s
  <2>4. StockedHistory(s)
    BY <2>2, <2>3 DEF StockedHistory
  <2> QED BY <2>3, <2>4 DEF Migrations, X, s, a
<1>3. <<SourceCall(<<"stock", o>>), SourceCall(<<"history", o>>)>> \in Migrations
  <2> DEFINE a == SourceCall(<<"stock", o>>)
             b == SourceCall(<<"history", o>>)
             s == <<a, b>>
  <2>1. a \in X /\ b \in X /\ a.of = <<"stock", o>> /\ b.of = <<"history", o>>
    BY <1>1 DEF Stored
  <2> HIDE DEF a, b
  <2>2. s \in Seq(X) /\ Len(s) = 2 /\ s[1] = a /\ s[2] = b
    BY <2>1
  <2> HIDE DEF s
  <2>3. StockedHistory(s)
    <3>1. s[1].of[1] # "history" /\ s[1].of = <<"stock", s[2].of[2]>>
      BY <2>1, <2>2
    <3> SUFFICES ASSUME NEW i \in 1..2, s[i].of[1] = "history"
                 PROVE  \E k \in 1..(i - 1) : s[k].of = <<"stock", s[i].of[2]>>
      BY <2>2 DEF StockedHistory
    <3>2. i = 2 /\ 1 \in 1..(i - 1)
      BY <3>1
    <3> QED BY <3>1, <3>2
  <2> QED BY <2>2, <2>3 DEF Migrations, X, s, a, b
<1> QED BY <1>2, <1>3, SourceCalls

(* So do the calls of the whole migration. *)
LEMMA AllMigrated == MigrationCalls \in Migrations
<1> USE FilesAssumption
<1>1. FlattenSeq([i \in DOMAIN UsersFile |-> MigrateUser(UsersFile[i])]) \in Migrations
  <2> DEFINE seqs == [i \in DOMAIN UsersFile |-> MigrateUser(UsersFile[i])]
  <2>1. \A i \in DOMAIN UsersFile : seqs[i] \in Migrations
    BY CallsMigrated
  <2>2. seqs = [i \in DOMAIN UsersFile |-> seqs[i]]
    OBVIOUS
  <2> HIDE DEF seqs
  <2>3. FlattenSeq(seqs) \in Migrations
    BY <2>1, <2>2, FileMigrated
  <2> QED BY <2>3 DEF seqs
<1>2. FlattenSeq([i \in DOMAIN PricesFile |-> MigratePrice(PricesFile[i])]) \in Migrations
  <2> DEFINE seqs == [i \in DOMAIN PricesFile |-> MigratePrice(PricesFile[i])]
  <2>1. \A i \in DOMAIN PricesFile : seqs[i] \in Migrations
    BY CallsMigrated
  <2>2. seqs = [i \in DOMAIN PricesFile |-> seqs[i]]
    OBVIOUS
  <2> HIDE DEF seqs
  <2>3. FlattenSeq(seqs) \in Migrations
    BY <2>1, <2>2, FileMigrated
  <2> QED BY <2>3 DEF seqs
<1>3. FlattenSeq([i \in DOMAIN FundsFile |-> MigrateFund(FundsFile[i])]) \in Migrations
  <2> DEFINE seqs == [i \in DOMAIN FundsFile |-> MigrateFund(FundsFile[i])]
  <2>1. \A i \in DOMAIN FundsFile : seqs[i] \in Migrations
    BY CallsMigrated
  <2>2. seqs = [i \in DOMAIN FundsFile |-> seqs[i]]
    OBVIOUS
  <2> HIDE DEF seqs
  <2>3. FlattenSeq(seqs) \in Migrations
    BY <2>1, <2>2, FileMigrated
  <2> QED BY <2>3 DEF seqs
<1>4. FlattenSeq([i \in DOMAIN PenaltiesFile |-> MigratePenalty(PenaltiesFile[i])]) \in Migrations
  <2> DEFINE seqs == [i \in DOMAIN PenaltiesFile |-> MigratePenalty(PenaltiesFile[i])]
  <2>1. \A i \in DOMAIN PenaltiesFile : seqs[i] \in Migrations
    BY CallsMigrated
  <2>2. seqs = [i \in DOMAIN PenaltiesFile |-> seqs[i]]
    OBVIOUS
  <2> HIDE DEF seqs
  <2>3. FlattenSeq(seqs) \in Migrations
    BY <2>1, <2>2, FileMigrated
  <2> QED BY <2>3 DEF seqs
<1>5. \A p, q \in Migrations : p \o q \in Migrations
  BY MigrationsJoined
<1> QED BY <1>1, <1>2, <1>3, <1>4, <1>5, Zenon DEF MigrationCalls

(* When the migrator starts, its calls are complete and in a good order. *)
LEMMA MigrationReady ==
    /\ OfCalls(MigrationCalls) = SourceAggregates
    /\ Listed(MigrationCalls) /\ SourceAggregates \subseteq Stored
    /\ \A D : Calls(Migrator, D, D, FALSE, Idle, MigrationCalls, {})
<1> DEFINE cs == MigrationCalls
           X == {SourceCall(x) : x \in Stored}
           v(x) == IF x[1] = "history" THEN NumPoints ELSE 1
           n == Len(cs)
<1>1. OfCalls(cs) = SourceAggregates
  BY DEF OfCalls, SourceAggregates
<1>2. cs \in Seq(X) /\ StockedHistory(cs)
  BY AllMigrated DEF Migrations
<1> HIDE DEF cs, X
<1>3. Listed(cs) /\ n \in Nat /\ DOMAIN cs = 1..n /\ \A i \in 1..n : cs[i] \in X
  BY <1>2 DEF Listed
<1>4. \A x \in SourceAggregates : SourceVersion(x) = v(x)
  BY DEF SourceVersion
<1> HIDE DEF n
<1>5. ASSUME NEW D, NEW i \in 1..n
      PROVE  /\ cs[i].of \in Stored /\ Stands(Migrator, D, cs[i], Len(cs[i].stmts))
             /\ Len(cs[i].stmts) = Full(Migrator, cs[i].of)
             /\ Full(Migrator, cs[i].of) >= Length(Migrator, cs[i].of)
  <2>1. PICK x \in Stored : cs[i] = SourceCall(x)
    BY <1>3 DEF X
  <2> DEFINE f == Full(Migrator, x)
             z == StatementsLeft(Migrator, x, v(x), f)
  <2>2. f \in Nat /\ f >= 1 /\ f >= Length(Migrator, x)
    BY Lengths
  <2>3. cs[i] = [of |-> x, stmts |-> z]
    BY <2>1 DEF SourceCall, Call
  <2>4. Len(z) = f
    BY <2>2, LeftLen
  <2>5. cs[i].of = x /\ cs[i].stmts = z
    <3> HIDE DEF z
    <3> QED BY <2>3
  <2>6. x \in SourceAggregates
    <3>1. x \in OfCalls(cs)
      BY <1>3, <2>5 DEF OfCalls
    <3> QED BY <1>1, <3>1
  <2>7. Goal(Migrator, D, x) = v(x)
    BY <1>4, <2>6 DEF Goal
  <2>8. cs[i] = Call(x, StatementsLeft(Migrator, x, Goal(Migrator, D, x), f))
    BY <2>3, <2>7 DEF Call
  <2>9. f \in 1..f
    BY <2>2
  <2> HIDE DEF z, f
  <2>10. Len(cs[i].stmts) = f
    BY <2>4, <2>5
  <2>11. Stands(Migrator, D, cs[i], f)
    BY <2>5, <2>6, <2>8, <2>9 DEF Stands, f
  <2> QED BY <2>2, <2>5, <2>10, <2>11 DEF f
<1>6. SourceAggregates \subseteq Stored
  <2>1. \A i \in 1..n : cs[i].of \in Stored
    BY <1>5
  <2>2. OfCalls(cs) \subseteq Stored
    BY <1>3, <2>1 DEF OfCalls
  <2> QED BY <1>1, <2>2
<1>7. ASSUME NEW D PROVE Calls(Migrator, D, D, FALSE, Idle, cs, {})
  <2>1. Queued(Migrator, D, cs)
    BY <1>3, <1>5 DEF Queued, n
  <2>2. Planned(Migrator, Idle, cs, {})
    BY DEF Planned
  <2>3. StocksFirst(D, cs)
    BY <1>2 DEF StockedHistory, StocksFirst
  <2>4. Changed(Idle, cs, {}) = {}
    BY DEF Changed
  <2>5. cs # <<>> => Len(cs[1].stmts) >= Length(Migrator, cs[1].of)
    <3>1. cs # <<>> => 1 \in 1..n
      BY <1>3 DEF Listed, n
    <3> QED BY <1>5, <3>1
  <2>6. Transacts(Migrator, D, D, FALSE, Idle, cs, {})
    BY <2>4, <2>5 DEF Transacts, Untouched
  <2> QED BY <2>1, <2>2, <2>3, <2>6 DEF Calls
<1> QED BY <1>1, <1>3, <1>6, <1>7 DEF cs

-----------------------------------------------------------------------------
(* A client with nothing to do, and the clients that do not move *)
LEMMA IdleFits ==
    ASSUME NEW c, NEW D, NEW m
    PROVE  Fits(c, D, D, FALSE, m, Idle, "idle", <<>>, <<>>, <<>>, {})
<1>1. Settled(c, m, Idle, "idle", <<>>, <<>>, <<>>, {}, FALSE)
  BY DEF Settled
<1>2. Listed(<<>>) /\ Len(<<>>) = 0 /\ DOMAIN <<>> = {} /\ 1..0 = {}
  BY DEF Listed
<1>3. Reads(D, Idle, "idle", <<>>, <<>>)
  BY <1>2 DEF Reads, ReadsParentsFirst
<1>4. OfCalls(<<>>) = {}
  BY DEF OfCalls
<1>5. Calls(c, D, D, FALSE, Idle, <<>>, {})
  BY <1>2, <1>4 DEF Calls, Queued, Planned, StocksFirst, Transacts, Untouched, Changed
<1> QED BY <1>1, <1>3, <1>5 DEF Fits

(* A client keeps its part of the invariant when another commits what it    *)
(* does not lock.                                                           *)
LEMMA FitsStays ==
    ASSUME NEW c, NEW D, Well(D), AllWhole(D), NEW Q, NEW X, Commits(c, D, Q, X),
           NEW d, NEW m, NEW j, NEW st, NEW sl, NEW sn, NEW cs, NEW w,
           Fits(d, D, D, FALSE, m, j, st, sl, sn, cs, w),
           cs # <<>> => d # Migrator, w \cap X = {}, c = Migrator => sn = <<>>,
           \A x \in X : x[2] \notin j.locks
    PROVE  Fits(d, Q, Q, FALSE, m, j, st, sl, sn, cs, w)
<1>1. Settled(d, m, j, st, sl, sn, cs, w, FALSE)
  BY DEF Fits
<1>2. Reads(Q, j, st, sl, sn)
  BY ReadsStay DEF Fits
<1>3. Calls(d, Q, Q, FALSE, j, cs, w)
  BY CallsStay DEF Fits
<1> QED BY <1>1, <1>2, <1>3 DEF Fits

(* Each variable of the clients is a function over them. *)
Arrays ==
    /\ job = [c \in Clients |-> job[c]] /\ stage = [c \in Clients |-> stage[c]]
    /\ selects = [c \in Clients |-> selects[c]] /\ seen = [c \in Clients |-> seen[c]]
    /\ calls = [c \in Clients |-> calls[c]] /\ whole = [c \in Clients |-> whole[c]]

(* The other clients stay as they are. *)
OnlyMoves(c) ==
    \A d \in Clients \ {c} :
        /\ job'[d] = job[d] /\ stage'[d] = stage[d] /\ selects'[d] = selects[d]
        /\ seen'[d] = seen[d] /\ calls'[d] = calls[d] /\ whole'[d] = whole[d]

(* What a client that is not idle may rely on *)
LEMMA MoverFacts ==
    ASSUME IInv, NEW c \in Clients
    PROVE  /\ Well(db) /\ AllWhole(db)
           /\ Fits(c, db, RowsSeenBy(c), writer = c, migrating, job[c], stage[c], selects[c],
                   seen[c], calls[c], whole[c])
           /\ Settled(c, migrating, job[c], stage[c], selects[c], seen[c], calls[c], whole[c], writer = c)
           /\ Reads(db, job[c], stage[c], selects[c], seen[c])
           /\ Calls(c, db, RowsSeenBy(c), writer = c, job[c], calls[c], whole[c])
BY DEF IInv, ClientFine, Fits

(* What a client writes is locked by no other, and while the migrator is    *)
(* busy the others have read nothing.                                       *)
LEMMA Disjoint ==
    ASSUME IInv, NEW c \in Clients, NEW d \in Clients \ {c}, stage[c] # "idle",
           NEW X, X \subseteq Stored, c # Migrator => X \subseteq whole[c]
    PROVE  /\ calls[d] # <<>> => d # Migrator
           /\ whole[d] \cap X = {} /\ (c = Migrator => seen[d] = <<>>)
           /\ \A x \in X : x[2] \notin job[d].locks
<1>1. Settled(c, migrating, job[c], stage[c], selects[c], seen[c], calls[c], whole[c], writer = c)
  BY MoverFacts
<1>2. Settled(d, migrating, job[d], stage[d], selects[d], seen[d], calls[d], whole[d], writer = d)
  BY MoverFacts
<1>3. CASE c = Migrator
  <2>1. migrating /\ stage[d] = "idle" /\ d # Migrator
    BY <1>1, <1>2, <1>3 DEF Settled
  <2>2. job[d] = Idle /\ seen[d] = <<>> /\ whole[d] = {}
    BY <1>2, <2>1 DEF Settled
  <2>3. Idle.locks = {}
    BY DEF Idle, Section
  <2> QED BY <2>1, <2>2, <2>3
<1>4. CASE c # Migrator /\ d = Migrator
  <2>1. ~migrating
    BY <1>1, <1>4 DEF Settled
  <2>2. job[d] = Idle /\ whole[d] = {} /\ stage[d] = "idle" /\ calls[d] = <<>>
    BY <1>2, <1>4, <2>1 DEF Settled
  <2>3. Idle.locks = {}
    BY DEF Idle, Section
  <2> QED BY <1>4, <2>2, <2>3
<1>5. CASE c # Migrator /\ d # Migrator
  <2>1. c \in Tasks /\ d \in Tasks /\ job[c].locks \cap job[d].locks = {}
    BY <1>5 DEF Clients, IInv, Locked
  <2>2. \A e \in Clients : e # Migrator => \A x \in whole[e] : x[2] \in job[e].locks
    <3> SUFFICES ASSUME NEW e \in Clients, e # Migrator, NEW x \in whole[e] PROVE x[2] \in job[e].locks
      OBVIOUS
    <3>1. /\ Settled(e, migrating, job[e], stage[e], selects[e], seen[e], calls[e], whole[e], writer = e)
          /\ Calls(e, db, RowsSeenBy(e), writer = e, job[e], calls[e], whole[e])
      BY MoverFacts
    <3>2. job[e] \in Work
      BY <3>1 DEF Settled
    <3>3. SetsFine(job[e])
      BY <3>2, WorkFine DEF Fine
    <3>4. x \in Members(job[e])
      BY <3>1 DEF Calls, Planned
    <3>5. DOMAIN job[e].sets = 1..Len(job[e].sets)
      BY <3>3 DEF SetsFine, Listed
    <3> QED BY <3>3, <3>4, <3>5 DEF SetsFine, Members
  <2> QED BY <1>5, <2>1, <2>2
<1> QED BY <1>3, <1>4, <1>5

(* How a step of c may change the transaction and what is committed *)
Transaction(c) ==
    \/ UNCHANGED <<db, writer, pending>>
    \/ /\ writer \in {c, Nobody} /\ writer' \in {c, Nobody} /\ (writer' = Nobody => pending' = {})
       /\ (UNCHANGED db \/ stage[c] # "idle")

(* The clients that do not move keep their part of the invariant. *)
LEMMA OthersFine ==
    ASSUME IInv, NEW c \in Clients, OnlyMoves(c), NEW X, Commits(c, db, db', X),
           c # Migrator => X \subseteq whole[c], Transaction(c),
           UNCHANGED migrating, NEW d \in Clients \ {c}
    PROVE  ClientFine(d)'
<1>1. Well(db) /\ AllWhole(db) /\ ClientFine(d)
  BY DEF IInv
<1>2. d # Nobody
  BY TasksAssumption DEF Clients, Nobody, Migrator
<1>3. /\ job'[d] = job[d] /\ stage'[d] = stage[d] /\ selects'[d] = selects[d]
      /\ seen'[d] = seen[d] /\ calls'[d] = calls[d] /\ whole'[d] = whole[d] /\ migrating' = migrating
  BY DEF OnlyMoves
<1>4. CASE db' = db
  <2>1. (writer' = d <=> writer = d) /\ (writer = d => pending' = pending)
    BY <1>2 DEF Transaction
  <2>3. RowsSeenBy(d)' = RowsSeenBy(d)
    BY <1>4, <2>1 DEF RowsSeenBy
  <2>4. (writer' = d) = (writer = d)
    BY <2>1
  <2> QED BY <1>1, <1>3, <1>4, <2>3, <2>4 DEF ClientFine
<1>5. CASE db' # db
  <2>1. writer # d /\ writer' # d /\ stage[c] # "idle"
    BY <1>2, <1>5 DEF Transaction
  <2>2. RowsSeenBy(d) = db /\ RowsSeenBy(d)' = db' /\ (writer = d) = FALSE /\ (writer' = d) = FALSE
    BY <2>1 DEF RowsSeenBy
  <2>3. Fits(d, db, db, FALSE, migrating, job[d], stage[d], selects[d], seen[d], calls[d], whole[d])
    BY <1>1, <2>2 DEF ClientFine
  <2>4. X \subseteq Stored
    BY DEF Commits
  <2>5. /\ calls[d] # <<>> => d # Migrator
        /\ whole[d] \cap X = {} /\ (c = Migrator => seen[d] = <<>>)
        /\ \A x \in X : x[2] \notin job[d].locks
    BY <2>1, <2>4, Disjoint
  <2> DEFINE jd == job[d]  sd == stage[d]  ld == selects[d]  nd == seen[d]  kd == calls[d]
             wd == whole[d]  E == db'
  <2> HIDE DEF jd, sd, ld, nd, kd, wd, E
  <2>6. Fits(d, E, E, FALSE, migrating, jd, sd, ld, nd, kd, wd)
    BY <1>1, <2>3, <2>5, FitsStays DEF jd, sd, ld, nd, kd, wd, E
  <2> QED BY <1>3, <2>2, <2>6 DEF ClientFine, jd, sd, ld, nd, kd, wd, E
<1> QED BY <1>4, <1>5

(* A step of one client keeps the invariant when the client keeps its part  *)
(* of it.                                                                   *)
LEMMA OneMoves ==
    ASSUME IInv, NEW c \in Clients, Arrays', OnlyMoves(c), NEW X, Commits(c, db, db', X),
           c # Migrator => X \subseteq whole[c], Transaction(c),
           UNCHANGED migrating, corrupt' \subseteq corrupt,
           started' \in 0..MaxSections, failures' \in 0..MaxFailures,
           \/ job'[c] = job[c] \/ \A u \in Tasks : job[u].locks \cap job'[c].locks = {},
           c = Migrator => Migrating(db', migrating', stage'[c], calls'[c]),
           ClientFine(c)'
    PROVE  IInv'
<1>1. \A d \in Clients : ClientFine(d)'
  BY OthersFine
<1>2. Well(db') /\ AllWhole(db')
  <2>1. AllWhole(db)
    BY DEF IInv
  <2> QED BY <2>1, CommittedWhole DEF Commits
<1>3. writer' \in Clients \cup {Nobody} /\ (writer' = Nobody => pending' = {})
  BY DEF IInv, Transaction
<1>4. Locked'
  <2> SUFFICES ASSUME NEW t \in Tasks, NEW u \in Tasks, t # u PROVE job'[t].locks \cap job'[u].locks = {}
    BY DEF Locked
  <2>1. job[t].locks \cap job[u].locks = {}
    BY DEF IInv, Locked
  <2>2. t # c => job'[t] = job[t]
    BY DEF OnlyMoves, Clients
  <2>3. u # c => job'[u] = job[u]
    BY DEF OnlyMoves, Clients
  <2>4. CASE job'[c] = job[c]
    BY <2>1, <2>2, <2>3, <2>4
  <2>5. CASE \A v \in Tasks : job[v].locks \cap job'[c].locks = {}
    <3>1. t = c => job'[t].locks \cap job[u].locks = {}
      BY <2>5
    <3>2. u = c => job[t].locks \cap job'[u].locks = {}
      BY <2>5
    <3> QED BY <2>1, <2>2, <2>3, <3>1, <3>2
  <2> QED BY <2>4, <2>5
<1>5. Migrating(db, migrating, stage[Migrator], calls[Migrator])
  BY DEF IInv
<1>6. Migrating(db', migrating', stage'[Migrator], calls'[Migrator])
  <2>1. CASE c = Migrator
    BY <2>1
  <2>2. CASE c # Migrator /\ db' = db
    <3>1. stage'[Migrator] = stage[Migrator] /\ calls'[Migrator] = calls[Migrator] /\ db' = db
      BY <2>2 DEF OnlyMoves, Clients
    <3> QED BY <1>5, <3>1
  <2>3. CASE c # Migrator /\ db' # db
    <3>1. ~migrating
      BY <2>3, MoverFacts DEF Transaction, Settled
    <3> QED BY <3>1 DEF Migrating
  <2> QED BY <2>1, <2>2, <2>3
<1>7. corrupt' \subseteq Corrupt /\ migrating' \in BOOLEAN
  BY DEF IInv
<1> QED BY <1>1, <1>2, <1>3, <1>4, <1>6, <1>7 DEF IInv, Arrays

-----------------------------------------------------------------------------
(* A client leaves its section, or its run, and nothing is committed. *)
LEMMA Unlocked == Idle.locks = {} /\ Idle.uow = FALSE /\ Idle.spare = {{}}
BY DEF Idle, Section

(* A client that has left its section. *)
LEMMA LeftSection ==
    ASSUME IInv, NEW c \in Clients, LeaveSection(c)
    PROVE  /\ Arrays' /\ OnlyMoves(c)
           /\ job'[c] = Idle /\ stage'[c] = "idle" /\ selects'[c] = <<>> /\ seen'[c] = <<>>
           /\ calls'[c] = <<>> /\ whole'[c] = {}
           /\ \A u \in Tasks : job[u].locks \cap job'[c].locks = {}
<1>1. Arrays
  BY DEF IInv, Arrays
<1>2. /\ job'[c] = Idle /\ stage'[c] = "idle" /\ selects'[c] = <<>> /\ seen'[c] = <<>>
      /\ calls'[c] = <<>> /\ whole'[c] = {} /\ Arrays'
  BY <1>1 DEF Arrays, LeaveSection
<1>3. OnlyMoves(c)
  BY <1>1 DEF Arrays, LeaveSection, OnlyMoves
<1> QED BY <1>2, <1>3, Unlocked

(* A client with nothing to do keeps its part of the invariant. *)
LEMMA IdleClientFine ==
    ASSUME NEW c \in Clients, writer' # c,
           job'[c] = Idle, stage'[c] = "idle", selects'[c] = <<>>, seen'[c] = <<>>,
           calls'[c] = <<>>, whole'[c] = {}
    PROVE  ClientFine(c)'
<1>1. (writer' = c) = FALSE /\ RowsSeenBy(c)' = db'
  BY DEF RowsSeenBy
<1> DEFINE E == db'  m == migrating'
<1>2. Fits(c, E, E, FALSE, m, Idle, "idle", <<>>, <<>>, <<>>, {})
  BY IdleFits
<1> QED BY <1>1, <1>2 DEF ClientFine

(* To leave a section without a commit keeps the invariant. *)
LEMMA Leaves ==
    ASSUME IInv, NEW c \in Clients, LeaveSection(c), UNCHANGED <<db, migrating>>,
           corrupt' \subseteq corrupt, started' \in 0..MaxSections, failures' \in 0..MaxFailures,
           CloseTransaction(c) \/ (UNCHANGED <<writer, pending>> /\ writer # c)
    PROVE  IInv'
<1>1. /\ Arrays' /\ OnlyMoves(c)
      /\ job'[c] = Idle /\ stage'[c] = "idle" /\ selects'[c] = <<>> /\ seen'[c] = <<>>
      /\ calls'[c] = <<>> /\ whole'[c] = {}
      /\ \A u \in Tasks : job[u].locks \cap job'[c].locks = {}
  BY LeftSection
<1>2. c # Nobody
  BY TasksAssumption DEF Clients, Nobody, Migrator
<1>3. Transaction(c) /\ writer' # c
  BY <1>2 DEF Transaction, CloseTransaction
<1>4. ClientFine(c)'
  BY <1>1, <1>3, IdleClientFine
<1>5. Commits(c, db, db', {})
  BY NothingCommitted DEF IInv
<1>6. c = Migrator => Migrating(db', migrating', stage'[c], calls'[c])
  BY <1>1 DEF IInv, Migrating
<1> QED BY <1>1, <1>3, <1>4, <1>5, <1>6, OneMoves

(* A section refuses what it was asked. *)
LEMMA RefuseKeeps == ASSUME IInv, NEW t \in Tasks, Refuse(t) PROVE IInv'
<1>1. t \in Clients /\ t # Migrator
  BY TasksAssumption DEF Clients
<1>2. writer # t
  BY <1>1, MoverFacts DEF Settled, Refuse
<1>3. /\ LeaveSection(t) /\ UNCHANGED <<db, migrating>> /\ corrupt' \subseteq corrupt
      /\ started' \in 0..MaxSections /\ failures' \in 0..MaxFailures /\ UNCHANGED <<writer, pending>>
  BY DEF Refuse, IInv
<1> QED BY <1>1, <1>2, <1>3, Leaves

(* A section, or the migrator, fails before it has written all. *)
LEMMA FailKeeps == ASSUME IInv, NEW c \in Clients, Fail(c) PROVE IInv'
<1>1. failures' \in 0..MaxFailures
  BY BoundsAssumption DEF IInv, Fail
<1>2. /\ LeaveSection(c) /\ UNCHANGED <<db, migrating>> /\ corrupt' \subseteq corrupt
      /\ started' \in 0..MaxSections /\ CloseTransaction(c)
  BY DEF Fail, RollBack, IInv
<1> QED BY <1>1, <1>2, Leaves

(* A statement that waits too long for another writer is rolled back, and   *)
(* the section is left.                                                     *)
LEMMA DatabaseErrorKeeps == ASSUME IInv, NEW c \in Clients, DatabaseError(c) PROVE IInv'
<1>1. /\ LeaveSection(c) /\ UNCHANGED <<db, migrating>> /\ corrupt' \subseteq corrupt
      /\ started' \in 0..MaxSections /\ failures' \in 0..MaxFailures /\ CloseTransaction(c)
  BY DEF DatabaseError, RollBack, IInv
<1> QED BY <1>1, Leaves

(* The process is killed. *)
LEMMA CrashKeeps == ASSUME IInv, Crash PROVE IInv'
<1>1. \A c \in Clients : /\ job'[c] = Idle /\ stage'[c] = "idle" /\ selects'[c] = <<>>
                         /\ seen'[c] = <<>> /\ calls'[c] = <<>> /\ whole'[c] = {} /\ writer' # c
  BY TasksAssumption DEF Crash, Clients, Nobody, Migrator
<1>2. \A c \in Clients : ClientFine(c)'
  BY <1>1, IdleClientFine
<1>3. Arrays' /\ writer' = Nobody /\ pending' = {}
  BY DEF Arrays, Crash
<1>4. failures' \in 0..MaxFailures /\ started' \in 0..MaxSections
  BY BoundsAssumption DEF IInv, Crash
<1>5. Well(db') /\ AllWhole(db') /\ corrupt' \subseteq Corrupt /\ migrating' \in BOOLEAN
  <2>1. db' = db /\ corrupt' = corrupt /\ migrating' = migrating
    BY DEF Crash
  <2> QED BY <2>1 DEF IInv
<1>6. Locked'
  BY <1>1, Unlocked DEF Locked, Clients
<1>7. Migrating(db', migrating', stage'[Migrator], calls'[Migrator])
  <2>1. db' = db /\ migrating' = migrating /\ stage'[Migrator] = "idle"
    BY <1>1 DEF Crash, Clients
  <2> QED BY <2>1 DEF IInv, Migrating
<1> QED BY <1>2, <1>3, <1>4, <1>5, <1>6, <1>7 DEF IInv, Arrays

(* The migrator parses a record, or stops at a corrupt one. *)
LEMMA ParseRecordKeeps == ASSUME IInv, ParseRecord PROVE IInv'
<1> DEFINE c == Migrator  cs == calls[Migrator]  s == Statement(Migrator)
<1>1. c \in Clients
  BY DEF Clients
<1>2. /\ Settled(c, migrating, job[c], stage[c], selects[c], seen[c], cs, whole[c], writer = c)
      /\ Calls(c, db, RowsSeenBy(c), writer = c, job[c], cs, whole[c])
      /\ Reads(db, job[c], stage[c], selects[c], seen[c])
  BY <1>1, MoverFacts
<1>3. cs # <<>> /\ s = Head(Head(cs).stmts) /\ s.do = "parse"
  BY DEF ParseRecord, Statement
<1>4. job[c] = Idle /\ (cs # <<>> => stage[c] = "writing")
  BY <1>2 DEF Settled
<1> DEFINE P == RowsSeenBy(c)  mine == writer = c  j == job[c]  w == whole[c]
<1> HIDE DEF P, mine, j, w, s, cs
<1>5. Calls(c, db, P, mine, j, Rest(cs), w) /\ OfCalls(Rest(cs)) = OfCalls(cs) /\ (mine => j.uow)
  <2>1. Calls(c, db, P, mine, j, cs, w) /\ cs # <<>> /\ s = Head(Head(cs).stmts) /\ s.do = "parse"
    BY <1>2, <1>3 DEF P, mine, j, w
  <2> HIDE DEF c
  <2> QED BY <2>1, ParseMoves
<1>6. writer # c
  BY <1>4, <1>5, Unlocked DEF mine, j
<1>7. /\ UNCHANGED <<db, migrating, writer, pending>> /\ corrupt' \subseteq corrupt
      /\ started' \in 0..MaxSections /\ failures' \in 0..MaxFailures
  BY DEF ParseRecord, IInv
<1>8. CASE LeaveSection(c)
  BY <1>1, <1>6, <1>7, <1>8, Leaves
<1>9. CASE calls' = [calls EXCEPT ![c] = Rest(@)] /\ UNCHANGED <<job, stage, selects, seen, whole>>
  <2>1. Arrays
    BY DEF IInv, Arrays
  <2>2. Arrays' /\ OnlyMoves(c) /\ calls'[c] = Rest(cs)
    BY <1>1, <1>9, <2>1 DEF Arrays, OnlyMoves, cs
  <2>3. Transaction(c)
    BY <1>7 DEF Transaction
  <2>4. Commits(c, db, db', {})
    BY <1>7, NothingCommitted DEF IInv
  <2>5. ClientFine(c)'
    <3>1. /\ job'[c] = j /\ stage'[c] = stage[c] /\ selects'[c] = selects[c] /\ seen'[c] = seen[c]
          /\ whole'[c] = w /\ RowsSeenBy(c)' = P /\ (writer' = c) = mine
      BY <1>7, <1>9 DEF RowsSeenBy, j, w, P, mine
    <3>2. Settled(c, migrating, j, stage[c], selects[c], seen[c], Rest(cs), w, mine)
      BY <1>2, <1>3, <1>4 DEF Settled, j, w, mine, cs
    <3>3. Reads(db, j, stage[c], selects[c], seen[c])
      BY <1>2 DEF j
    <3> QED BY <1>5, <1>7, <2>2, <3>1, <3>2, <3>3 DEF ClientFine, Fits
  <2>6. Migrating(db', migrating', stage'[c], calls'[c])
    <3>1. Migrating(db, migrating, stage[c], cs)
      BY DEF IInv, cs
    <3> QED BY <1>5, <1>7, <1>9, <2>2, <3>1 DEF Migrating
  <2>7. job'[c] = job[c]
    BY <1>9
  <2> QED BY <1>1, <1>7, <2>2, <2>3, <2>4, <2>5, <2>6, <2>7, OneMoves
<1> QED BY <1>8, <1>9 DEF ParseRecord

(* While there is something to migrate no section is at work. *)
LEMMA AllIdle ==
    ASSUME IInv, migrating, NEW d \in Clients \ {Migrator}
    PROVE  /\ job[d] = Idle /\ stage[d] = "idle" /\ selects[d] = <<>> /\ seen[d] = <<>>
           /\ calls[d] = <<>> /\ whole[d] = {} /\ writer # d
BY MoverFacts DEF Settled

(* The migrator succeeds. *)
LEMMA MigrationDoneKeeps == ASSUME IInv, MigrationDone PROVE IInv'
<1> DEFINE c == Migrator
<1>1. c \in Clients /\ LeaveSection(c) /\ migrating /\ calls[c] = <<>> /\ stage[c] = "writing"
  BY DEF Clients, MigrationDone
<1>2. /\ Arrays' /\ OnlyMoves(c)
      /\ job'[c] = Idle /\ stage'[c] = "idle" /\ selects'[c] = <<>> /\ seen'[c] = <<>>
      /\ calls'[c] = <<>> /\ whole'[c] = {}
      /\ \A u \in Tasks : job[u].locks \cap job'[c].locks = {}
  BY <1>1, LeftSection
<1>3. writer # c
  <2>1. /\ Settled(c, migrating, job[c], stage[c], selects[c], seen[c], calls[c], whole[c], writer = c)
        /\ Calls(c, db, RowsSeenBy(c), writer = c, job[c], calls[c], whole[c])
    BY <1>1, MoverFacts
  <2>2. job[c] = Idle
    BY <2>1 DEF Settled
  <2> QED BY <1>1, <2>1, <2>2, Unlocked DEF Calls, Transacts
<1>4. UNCHANGED <<db, pending, writer, corrupt, started, failures>> /\ migrating' = FALSE
  BY DEF MigrationDone
<1>5. \A d \in Clients : ClientFine(d)'
  <2> SUFFICES ASSUME NEW d \in Clients PROVE ClientFine(d)'
    OBVIOUS
  <2>1. CASE d = c
    BY <1>2, <1>3, <1>4, <2>1, IdleClientFine
  <2>2. CASE d # c
    <3>1. /\ job[d] = Idle /\ stage[d] = "idle" /\ selects[d] = <<>> /\ seen[d] = <<>>
          /\ calls[d] = <<>> /\ whole[d] = {} /\ writer # d
      BY <1>1, <2>2, AllIdle
    <3> QED BY <1>2, <1>4, <2>2, <3>1, IdleClientFine DEF OnlyMoves
  <2> QED BY <2>1, <2>2
<1>6. Locked'
  <2> SUFFICES ASSUME NEW t \in Tasks, NEW u \in Tasks, t # u PROVE job'[t].locks \cap job'[u].locks = {}
    BY DEF Locked
  <2>1. t # c /\ u # c
    BY TasksAssumption
  <2>2. job'[t] = job[t] /\ job'[u] = job[u]
    BY <1>2, <2>1 DEF OnlyMoves, Clients
  <2> QED BY <2>2 DEF IInv, Locked
<1>7. Migrating(db', migrating', stage'[Migrator], calls'[Migrator])
  BY <1>4 DEF Migrating
<1> QED BY <1>2, <1>4, <1>5, <1>6, <1>7 DEF IInv, Arrays

(* The migrator is run, again or for the first time. *)
LEMMA StartMigrationKeeps == ASSUME IInv, StartMigration PROVE IInv'
<1> DEFINE c == Migrator
<1>1. c \in Clients /\ stage[c] = "idle" /\ migrating
  BY DEF Clients, StartMigration
<1>2. Arrays
  BY DEF IInv, Arrays
<1>3. /\ Arrays' /\ OnlyMoves(c) /\ calls'[c] = MigrationCalls /\ stage'[c] = "writing"
      /\ UNCHANGED <<db, pending, writer, job, selects, seen, whole, corrupt, migrating, started, failures>>
  BY <1>1, <1>2 DEF StartMigration, Arrays, OnlyMoves
<1>4. /\ job[c] = Idle /\ selects[c] = <<>> /\ seen[c] = <<>>
      /\ calls[c] = <<>> /\ whole[c] = {} /\ writer # c
  BY <1>1, MoverFacts DEF Settled
<1>5. ClientFine(c)'
  <2>1. (writer' = c) = FALSE /\ RowsSeenBy(c)' = db /\ db' = db
    BY <1>3, <1>4 DEF RowsSeenBy
  <2>2. Settled(c, migrating, Idle, "writing", <<>>, <<>>, MigrationCalls, {}, FALSE)
    BY <1>1 DEF Settled
  <2>3. Fits(c, db, db, FALSE, migrating, Idle, "idle", <<>>, <<>>, <<>>, {})
    BY IdleFits
  <2>4. Reads(db, Idle, "writing", <<>>, <<>>)
    BY <2>3 DEF Fits, Reads
  <2>5. Calls(c, db, db, FALSE, Idle, MigrationCalls, {})
    BY MigrationReady
  <2> QED BY <1>3, <1>4, <2>1, <2>2, <2>4, <2>5 DEF ClientFine, Fits
<1>6. Commits(c, db, db', {}) /\ Transaction(c)
  BY <1>3, NothingCommitted DEF IInv, Transaction
<1>7. Migrating(db', migrating', stage'[c], calls'[c])
  <2>1. \A x \in Stored : Version(db, x) \in {0, SourceVersion(x)}
    BY <1>1 DEF IInv, Migrating
  <2>2. \A x \in Stored : x \in OfCalls(MigrationCalls) \/ Version(db, x) = SourceVersion(x)
    <3> TAKE x \in Stored
    <3>1. CASE x \in SourceAggregates
      BY <3>1, MigrationReady
    <3>2. CASE x \notin SourceAggregates
      BY <2>1, <3>2 DEF SourceVersion
    <3> QED BY <3>1, <3>2
  <2> QED BY <1>3, <2>1, <2>2 DEF Migrating
<1>8. started' \in 0..MaxSections /\ failures' \in 0..MaxFailures
  BY <1>3 DEF IInv
<1> QED BY <1>1, <1>3, <1>5, <1>6, <1>7, <1>8, OneMoves

(* A corrupt record is repaired. *)
LEMMA RepairKeeps == ASSUME IInv, Repair PROVE IInv'
<1>1. /\ UNCHANGED <<db, pending, writer, taskVars, migrating, started, failures>>
      /\ corrupt' \subseteq corrupt
  BY DEF Repair
<1>2. \A c \in Clients : ClientFine(c)' <=> ClientFine(c)
  BY <1>1 DEF ClientFine, RowsSeenBy, taskVars
<1> QED BY <1>1, <1>2 DEF IInv, taskVars, Locked

(* A client without calls. *)
LEMMA EmptyCalls == \A c, D, j : Calls(c, D, D, FALSE, j, <<>>, {})
<1> TAKE c, D, j
<1>1. Listed(<<>>) /\ Len(<<>>) = 0 /\ 1..0 = {}
  BY DEF Listed
<1>2. OfCalls(<<>>) = {}
  BY DEF OfCalls
<1> QED BY <1>1, <1>2 DEF Calls, Queued, Planned, StocksFirst, Transacts, Untouched, Changed

(* A section that starts knows nothing and is to read parents first. *)
LEMMA StartReads ==
    ASSUME NEW D, NEW s \in Work
    PROVE  Reads(D, s, "reading", SelectsOf(s), <<>>)
<1> DEFINE sl == SelectsOf(s)
<1>1. GetsFine(s)
  BY WorkFine DEF Fine
<1>2. sl \in Readable(Owners)
  <2>1. \A i \in 1..Len(s.gets) : s.gets[i][2] \in Owners
    BY <1>1 DEF GetsFine, Stored
  <2> QED BY <1>1, <2>1, SelectsReadable
<1>3. ParentsReadOnce(s.locks, sl, <<>>)
  <2>1. CASE \A i \in 1..Len(s.gets) : s.gets[i][2] \in s.locks
    <3>1. sl \in Readable(s.locks)
      BY <1>1, <2>1, SelectsReadable
    <3> HIDE DEF sl
    <3>2. \A i \in 1..Len(sl) : sl[i][2] \in s.locks
      BY <3>1 DEF Readable
    <3>3. \A k \in 1..Len(sl), o \in Owners \ s.locks : \A p : sl[k] # <<p, o>>
      BY <3>2
    <3> QED BY <3>3 DEF ParentsReadOnce
  <2>2. CASE \E a, b \in Owners : s.gets = <<<<"user", a>>, <<"stock", b>>, <<"fund", a>>>>
    BY <2>2, SnapshotOnce
  <2> QED BY <1>1, <2>1, <2>2 DEF GetsFine
<1> HIDE DEF sl
<1>5. sl \in Seq(Keys)
  BY <1>2 DEF Readable
<1>6. Listed(sl) /\ DOMAIN <<>> = {} /\ \A i \in 1..Len(sl) : sl[i] \in Keys
  BY <1>5 DEF Listed
<1>7. \A i \in 1..Len(sl) : sl[i][1] \in ChildTables =>
          \E k \in 1..(i - 1) : sl[k] = <<Parent[sl[i][1]], sl[i][2]>>
  BY <1>2 DEF Readable
<1>8. ReadsParentsFirst(sl, <<>>)
  BY <1>7 DEF ReadsParentsFirst
<1>9. ReadsLocked(D, s.locks, <<>>) /\ ReadsMixed(D, s.locks, <<>>)
  BY <1>6 DEF ReadsLocked, ReadsMixed
<1> QED BY <1>3, <1>6, <1>8, <1>9 DEF Reads, sl

(* A section starts. *)
LEMMA StartKeeps == ASSUME IInv, NEW t \in Tasks, NEW s \in Work, Start(t, s) PROVE IInv'
<1>1. t \in Clients /\ t # Migrator /\ stage[t] = "idle" /\ ~migrating
  BY TasksAssumption DEF Clients, Start
<1>2. /\ job[t] = Idle /\ selects[t] = <<>> /\ seen[t] = <<>>
      /\ calls[t] = <<>> /\ whole[t] = {} /\ writer # t
  BY <1>1, MoverFacts DEF Settled
<1>3. Arrays
  BY DEF IInv, Arrays
<1>4. /\ Arrays' /\ OnlyMoves(t) /\ job'[t] = s /\ stage'[t] = "reading" /\ selects'[t] = SelectsOf(s)
      /\ UNCHANGED <<db, pending, writer, seen, calls, whole, corrupt, migrating, failures>>
  BY <1>1, <1>3 DEF Start, Arrays, OnlyMoves, SelectsOf
<1>5. ClientFine(t)'
  <2>1. (writer' = t) = FALSE /\ RowsSeenBy(t)' = db /\ db' = db
    BY <1>2, <1>4 DEF RowsSeenBy
  <2>2. Settled(t, migrating, s, "reading", SelectsOf(s), <<>>, <<>>, {}, FALSE)
    BY <1>1 DEF Settled
  <2>3. Reads(db, s, "reading", SelectsOf(s), <<>>)
    BY StartReads
  <2>4. Calls(t, db, db, FALSE, s, <<>>, {})
    BY EmptyCalls
  <2> QED BY <1>2, <1>4, <2>1, <2>2, <2>3, <2>4 DEF ClientFine, Fits
<1>6. Commits(t, db, db', {}) /\ Transaction(t)
  BY <1>4, NothingCommitted DEF IInv, Transaction
<1>7. \A u \in Tasks : job[u].locks \cap job'[t].locks = {}
  BY <1>4 DEF Start
<1>8. started' \in 0..MaxSections /\ failures' \in 0..MaxFailures
  BY <1>4, BoundsAssumption DEF IInv, Start
<1> QED BY <1>1, <1>4, <1>5, <1>6, <1>7, <1>8, OneMoves

(* A section reads. *)
LEMMA SelectKeeps == ASSUME IInv, NEW t \in Tasks, Select(t) PROVE IInv'
<1>1. t \in Clients /\ t # Migrator /\ stage[t] = "reading" /\ selects[t] # <<>>
  BY TasksAssumption DEF Clients, Select
<1>2. /\ Settled(t, migrating, job[t], stage[t], selects[t], seen[t], calls[t], whole[t], writer = t)
      /\ Calls(t, db, RowsSeenBy(t), writer = t, job[t], calls[t], whole[t])
      /\ Reads(db, job[t], stage[t], selects[t], seen[t]) /\ Well(db) /\ AllWhole(db)
  BY <1>1, MoverFacts
<1>3. writer # t /\ RowsSeenBy(t) = db
  BY <1>1, <1>2 DEF Settled, RowsSeenBy
<1> DEFINE tg == Head(selects[t])
           v == Answer(db, seen[t], tg)
           sm == Answered(seen[t], tg, v)
<1>4. Arrays
  BY DEF IInv, Arrays
<1>5. /\ Arrays' /\ OnlyMoves(t) /\ selects'[t] = Tail(selects[t]) /\ seen'[t] = sm
      /\ UNCHANGED <<db, pending, writer, job, stage, calls, whole, corrupt, migrating, started, failures>>
  BY <1>1, <1>3, <1>4 DEF Select, Arrays, OnlyMoves, Answer, Answered
<1>6. ClientFine(t)'
  <2>1. RowsSeenBy(t)' = RowsSeenBy(t) /\ (writer' = t) = (writer = t)
    BY <1>5 DEF RowsSeenBy
  <2>2. Settled(t, migrating, job[t], stage[t], Tail(selects[t]), sm, calls[t], whole[t], writer = t)
    BY <1>1, <1>2 DEF Settled
  <2>3. Reads(db, job[t], stage[t], Tail(selects[t]), sm)
    BY <1>1, <1>2, SelectReads
  <2> QED BY <1>2, <1>5, <2>1, <2>2, <2>3 DEF ClientFine, Fits
<1>7. Commits(t, db, db', {}) /\ Transaction(t)
  BY <1>2, <1>5, NothingCommitted DEF Transaction
<1>8. started' \in 0..MaxSections /\ failures' \in 0..MaxFailures /\ job'[t] = job[t]
  BY <1>5 DEF IInv
<1> QED BY <1>1, <1>5, <1>6, <1>7, <1>8, OneMoves

(* What a decision leaves a section with. *)
LEMMA DecideIs ==
    ASSUME IInv, NEW t \in Tasks, Decide(t)
    PROVE  /\ Arrays' /\ OnlyMoves(t) /\ stage'[t] = "writing" /\ t \in Clients /\ t # Migrator /\ writer # t
           /\ UNCHANGED <<db, pending, writer, job, selects, seen, corrupt, migrating, started, failures>>
           /\ \E q : Decided(t, db, job[t], q, calls'[t], whole'[t])
<1>1. t \in Clients /\ t # Migrator /\ stage[t] = "reading"
  BY TasksAssumption DEF Clients, Decide
<1>2. /\ Settled(t, migrating, job[t], stage[t], selects[t], seen[t], calls[t], whole[t], writer = t)
      /\ Reads(db, job[t], stage[t], selects[t], seen[t]) /\ Well(db)
  BY <1>1, MoverFacts
<1>3. writer # t /\ job[t] \in Work
  BY <1>1, <1>2 DEF Settled
<1>4. PICK unchanged \in job[t].spare :
         LET writes == Writes(t, unchanged)
         IN /\ calls' = [calls EXCEPT ![t] = [i \in DOMAIN writes |->
                            Call(writes[i], Upsert(writes[i], SeenVersion(t, writes[i]) + 1))]]
            /\ whole' = [whole EXCEPT ![t] = {writes[i] : i \in DOMAIN writes}]
  BY DEF Decide
<1> DEFINE s == job[t]  sn == seen[t]
           q == ToWrite(db, s, sn, unchanged)
           cs == CallsFor(db, sn, q)
           w == {q[i] : i \in DOMAIN q}
<1>5. q = Writes(t, unchanged) /\ cs = [i \in DOMAIN q |-> Call(q[i], Upsert(q[i], SeenVersion(t, q[i]) + 1))]
  BY DEF ToWrite, Writes, New, VersionSeen, SeenVersion, CallsFor
<1>6. Arrays
  BY DEF IInv, Arrays
<1> HIDE DEF q, cs, w
<1>7. /\ Arrays' /\ OnlyMoves(t) /\ calls'[t] = cs /\ whole'[t] = w /\ stage'[t] = "writing"
      /\ UNCHANGED <<db, pending, writer, job, selects, seen, corrupt, migrating, started, failures>>
  <2>1. calls' = [calls EXCEPT ![t] = cs] /\ whole' = [whole EXCEPT ![t] = w]
    BY <1>4, <1>5 DEF w
  <2> QED BY <1>1, <1>6, <2>1 DEF Decide, Arrays, OnlyMoves
<1>8. Decided(t, db, s, q, cs, w)
  <2>1. /\ s \in Work /\ unchanged \in s.spare /\ Reads(db, s, "reading", selects[t], sn)
        /\ Decision(db, s, sn, unchanged, q, cs, w)
    BY <1>1, <1>2, <1>3, <1>4 DEF q, cs, w, Decision
  <2> HIDE DEF s, sn
  <2> QED BY <1>1, <1>2, <2>1, Decides
<1> QED BY <1>1, <1>3, <1>7, <1>8

(* A section decides what to write. *)
LEMMA DecideKeeps == ASSUME IInv, NEW t \in Tasks, Decide(t) PROVE IInv'
<1>1. /\ Arrays' /\ OnlyMoves(t) /\ stage'[t] = "writing" /\ t \in Clients /\ t # Migrator /\ writer # t
      /\ UNCHANGED <<db, pending, writer, job, selects, seen, corrupt, migrating, started, failures>>
      /\ \E q : Decided(t, db, job[t], q, calls'[t], whole'[t])
  BY DecideIs
<1>2. /\ Settled(t, migrating, job[t], stage[t], selects[t], seen[t], calls[t], whole[t], writer = t)
      /\ Reads(db, job[t], stage[t], selects[t], seen[t]) /\ Well(db) /\ stage[t] = "reading"
  BY <1>1, MoverFacts DEF Decide
<1>3. ClientFine(t)'
  <2>1. (writer' = t) = FALSE /\ RowsSeenBy(t)' = db /\ db' = db
    BY <1>1 DEF RowsSeenBy
  <2>2. Settled(t, migrating, job[t], "writing", selects[t], seen[t], calls'[t], whole'[t], FALSE)
    BY <1>1, <1>2 DEF Settled
  <2>3. Reads(db, job[t], "writing", selects[t], seen[t])
    BY <1>2 DEF Reads
  <2>4. Calls(t, db, db, FALSE, job[t], calls'[t], whole'[t])
    BY <1>1 DEF Decided
  <2> QED BY <1>1, <2>1, <2>2, <2>3, <2>4 DEF ClientFine, Fits
<1>4. Commits(t, db, db', {}) /\ Transaction(t)
  BY <1>1, <1>2, NothingCommitted DEF Transaction
<1>5. started' \in 0..MaxSections /\ failures' \in 0..MaxFailures /\ job'[t] = job[t]
  BY <1>1 DEF IInv
<1> QED BY <1>1, <1>3, <1>4, <1>5, OneMoves

(* A statement is executed. *)
LEMMA WriteKeeps == ASSUME IInv, NEW c \in Clients, Write(c) PROVE IInv'
<1> DEFINE cs == calls[c]  s == Statement(c)  P == RowsSeenBy(c)  Q == Effect(P, s)
<1>1. /\ Settled(c, migrating, job[c], stage[c], selects[c], seen[c], cs, whole[c], writer = c)
      /\ Reads(db, job[c], stage[c], selects[c], seen[c]) /\ Well(db)
      /\ Calls(c, db, P, writer = c, job[c], cs, whole[c])
  BY MoverFacts
<1>2. cs # <<>> /\ s = Head(Head(cs).stmts) /\ IsDml(s) /\ writer \in {c, Nobody} /\ c # Nobody
  BY TasksAssumption DEF Write, Statement, Clients, Nobody, Migrator
<1>3. stage[c] = "writing"
  BY <1>1, <1>2 DEF Settled
<1> DEFINE mine == writer = c
<1> HIDE DEF cs, s, P, Q, mine
<1>4. Calls(c, db, Q, TRUE, job[c], Rest(cs), whole[c]) /\ OfCalls(Rest(cs)) = OfCalls(cs)
  <2>1. Calls(c, db, P, mine, job[c], cs, whole[c]) /\ Q = Effect(P, s)
    BY <1>1 DEF mine, Q
  <2> QED BY <1>1, <1>2, <2>1, DmlMoves
<1>5. Arrays
  BY DEF IInv, Arrays
<1>6. /\ Arrays' /\ OnlyMoves(c) /\ calls'[c] = Rest(cs) /\ writer' = c /\ pending' = Q
      /\ UNCHANGED <<db, job, stage, selects, seen, whole, corrupt, migrating, started, failures>>
  BY <1>5 DEF Write, Arrays, OnlyMoves, cs, Q, P, s
<1>7. ClientFine(c)'
  <2>1. (writer' = c) = TRUE /\ RowsSeenBy(c)' = Q /\ db' = db
    BY <1>6 DEF RowsSeenBy
  <2>2. Settled(c, migrating, job[c], stage[c], selects[c], seen[c], Rest(cs), whole[c], TRUE)
    BY <1>1, <1>2, <1>3 DEF Settled
  <2> QED BY <1>1, <1>4, <1>6, <2>1, <2>2 DEF ClientFine, Fits
<1>8. Commits(c, db, db', {}) /\ Transaction(c)
  BY <1>1, <1>2, <1>6, NothingCommitted DEF Transaction
<1>9. c = Migrator => Migrating(db', migrating', stage'[c], calls'[c])
  <2>1. Migrating(db, migrating, stage[Migrator], calls[Migrator])
    BY DEF IInv
  <2> QED BY <1>4, <1>6, <2>1 DEF Migrating, cs
<1>10. started' \in 0..MaxSections /\ failures' \in 0..MaxFailures /\ job'[c] = job[c]
  BY <1>6 DEF IInv
<1> QED BY <1>6, <1>7, <1>8, <1>9, <1>10, OneMoves

(* Once a client writes, what it has read is of no more consequence. *)
LEMMA OwnReads ==
    ASSUME IInv, NEW c \in Clients, stage[c] = "writing", NEW Q
    PROVE  Reads(Q, job[c], stage[c], selects[c], seen[c])
<1>1. Reads(db, job[c], stage[c], selects[c], seen[c])
  BY MoverFacts
<1> QED BY <1>1 DEF Reads

(* What the end of a call does: with a session of its own it commits the    *)
(* one aggregate it was for.                                                *)
CallDone(c, x) ==
    /\ writer = c /\ c # Nobody /\ x = calls[c][1].of /\ x \in Stored /\ stage[c] = "writing"
    /\ Dropped(calls[c], Rest(calls[c])) /\ Len(calls[c]) \in Nat \ {0} /\ DOMAIN calls[c] = 1..Len(calls[c])
    /\ c # Migrator => x \in whole[c]
    /\ job[c].uow => Calls(c, db, pending, TRUE, job[c], Rest(calls[c]), whole[c])
    /\ ~job[c].uow => /\ Commits(c, db, pending, {x})
                      /\ Calls(c, pending, pending, FALSE, job[c], Rest(calls[c]), whole[c])

(* The end of a call does that. *)
LEMMA CallIsDone ==
    ASSUME IInv, NEW c \in Clients, calls[c] # <<>>, Statement(c) = EndCall
    PROVE  CallDone(c, calls[c][1].of)
<1> DEFINE cs == calls[c]  P == RowsSeenBy(c)  mine == writer = c  j == job[c]  w == whole[c]
<1>1. /\ Settled(c, migrating, j, stage[c], selects[c], seen[c], cs, w, mine)
      /\ Calls(c, db, P, mine, j, cs, w) /\ Well(db)
  BY MoverFacts
<1>2. cs # <<>> /\ Head(Head(cs).stmts) = EndCall /\ c # Nobody
  BY TasksAssumption DEF Statement, Clients, Nobody, Migrator
<1>3. stage[c] = "writing" /\ (c = Migrator => j = Idle)
  BY <1>1, <1>2 DEF Settled
<1>4. c = Migrator => ~j.uow
  BY <1>3, Unlocked
<1> HIDE DEF cs, P, mine, j, w
<1>5. /\ mine /\ Dropped(cs, Rest(cs)) /\ cs[1].of \in Stored
      /\ j.uow => Calls(c, db, P, mine, j, Rest(cs), w)
      /\ ~j.uow => Commits(c, db, P, {cs[1].of}) /\ Calls(c, P, P, FALSE, j, Rest(cs), w)
  <2>1. Calls(c, db, P, mine, j, cs, w) /\ Well(db)
    BY <1>1
  <2> DEFINE k == cs[1].of  r == Rest(cs)  D == db
  <2> HIDE DEF k, r, D
  <2>2. /\ mine /\ Len(cs[1].stmts) = 1 /\ Dropped(cs, Rest(cs)) /\ cs[1].of \in Stored
        /\ j.uow => Calls(c, D, P, mine, j, Rest(cs), w)
        /\ ~j.uow => /\ Commits(c, D, P, {cs[1].of})
                     /\ Calls(c, P, P, FALSE, j, Rest(cs), w)
    BY <1>2, <1>4, <2>1, CallEnds DEF D
  <2> QED BY <2>2 DEF D
<1>6. writer = c /\ P = pending
  BY <1>5 DEF mine, P, RowsSeenBy
<1>7. Len(cs) \in Nat \ {0} /\ DOMAIN cs = 1..Len(cs)
  BY <1>1, <1>2 DEF Calls, Queued, Listed
<1>8. c # Migrator => cs[1].of \in w
  <2>1. cs[1].of \in OfCalls(cs)
    BY <1>7 DEF OfCalls
  <2> QED BY <1>1, <2>1 DEF Calls, Planned
<1>9. j.uow => Calls(c, db, pending, TRUE, j, Rest(cs), w)
  <2>1. mine = TRUE
    BY <1>6 DEF mine
  <2> QED BY <1>5, <1>6, <2>1
<1> QED BY <1>2, <1>3, <1>5, <1>6, <1>7, <1>8, <1>9 DEF CallDone, cs, j, w

(* A call ends. *)
LEMMA EndOfCallKeeps == ASSUME IInv, NEW c \in Clients, EndOfCall(c) PROVE IInv'
<1> DEFINE cs == calls[c]  x == calls[c][1].of
<1>1. CallDone(c, x)
  BY CallIsDone DEF EndOfCall
<1>2. /\ Settled(c, migrating, job[c], stage[c], selects[c], seen[c], cs, whole[c], writer = c)
      /\ Reads(db, job[c], stage[c], selects[c], seen[c]) /\ Well(db) /\ AllWhole(db)
  BY MoverFacts
<1>3. Arrays /\ cs # <<>>
  BY DEF IInv, Arrays, EndOfCall
<1>4. /\ Arrays' /\ OnlyMoves(c) /\ calls'[c] = Rest(cs)
      /\ UNCHANGED <<job, stage, selects, seen, whole, corrupt, migrating, started, failures>>
  BY <1>3 DEF EndOfCall, Arrays, OnlyMoves
<1>5. started' \in 0..MaxSections /\ failures' \in 0..MaxFailures /\ job'[c] = job[c] /\ corrupt' \subseteq corrupt
  BY <1>4 DEF IInv
<1>6. stage[c] = "writing" /\ writer = c /\ c # Nobody
  BY <1>1 DEF CallDone
<1>7. CASE job[c].uow
  <2>1. UNCHANGED <<db, pending, writer>>
    BY <1>7 DEF EndOfCall, InUnitOfWork
  <2>2. c # Migrator
    BY <1>2, <1>7, Unlocked DEF Settled
  <2>3. ClientFine(c)'
    <3>1. (writer' = c) = TRUE /\ RowsSeenBy(c)' = pending /\ db' = db
      BY <1>6, <2>1 DEF RowsSeenBy
    <3>2. Settled(c, migrating, job[c], stage[c], selects[c], seen[c], Rest(cs), whole[c], TRUE)
      BY <1>2, <1>6 DEF Settled
    <3>3. Calls(c, db, pending, TRUE, job[c], Rest(cs), whole[c])
      BY <1>1, <1>7 DEF CallDone
    <3> QED BY <1>2, <1>4, <3>1, <3>2, <3>3 DEF ClientFine, Fits
  <2>4. Commits(c, db, db', {}) /\ Transaction(c)
    BY <1>2, <2>1, NothingCommitted DEF Transaction
  <2> QED BY <1>4, <1>5, <2>1, <2>2, <2>3, <2>4, OneMoves
<1>8. CASE ~job[c].uow
  <2>1. db' = pending /\ writer' = Nobody /\ pending' = {}
    BY <1>6, <1>8 DEF EndOfCall, InUnitOfWork, CommitTransaction, CloseTransaction, RowsSeenBy
  <2>2. /\ Commits(c, db, pending, {x}) /\ Calls(c, pending, pending, FALSE, job[c], Rest(cs), whole[c])
        /\ (c # Migrator => {x} \subseteq whole[c])
    BY <1>1, <1>8 DEF CallDone
  <2>3. ClientFine(c)'
    <3>1. (writer' = c) = FALSE /\ RowsSeenBy(c)' = pending /\ db' = pending
      BY <1>6, <2>1 DEF RowsSeenBy
    <3>2. Settled(c, migrating, job[c], stage[c], selects[c], seen[c], Rest(cs), whole[c], FALSE)
      BY <1>2, <1>6 DEF Settled
    <3>3. Reads(pending, job[c], stage[c], selects[c], seen[c])
      BY <1>3, <1>6, OwnReads
    <3> QED BY <1>4, <2>2, <3>1, <3>2, <3>3 DEF ClientFine, Fits
  <2>4. Transaction(c)
    BY <1>6, <2>1 DEF Transaction
  <2>5. c = Migrator => Migrating(db', migrating', stage'[c], calls'[c])
    <3> SUFFICES ASSUME c = Migrator PROVE Migrating(db', migrating', stage'[c], calls'[c])
      OBVIOUS
    <3> DEFINE r == Rest(cs)  E == pending
    <3>1. migrating /\ Migrating(db, migrating, stage[c], cs)
      BY <1>2, <1>6 DEF IInv, Settled
    <3>2. \A y \in Stored : Version(E, y) = IF y = x THEN SourceVersion(y) ELSE Version(db, y)
      <4> TAKE y \in Stored
      <4>1. Version(E, y) = IF y \in {x} THEN Goal(c, db, y) ELSE Version(db, y)
        BY <2>2, CommittedVersions
      <4> QED BY <4>1 DEF Goal
    <3>3. \A y \in OfCalls(cs) : y = x \/ y \in OfCalls(r)
      <4> DEFINE n == Len(cs)
      <4> TAKE y \in OfCalls(cs)
      <4>1. n \in Nat \ {0} /\ DOMAIN cs = 1..n /\ DOMAIN r = 1..(n - 1) /\ \A i \in 1..(n - 1) : r[i] = cs[i + 1]
        BY <1>1 DEF CallDone, Dropped
      <4> HIDE DEF n, r
      <4>2. PICK i \in 1..n : y = cs[i].of
        BY <4>1 DEF OfCalls
      <4>3. CASE i = 1
        BY <4>2, <4>3
      <4>4. CASE i # 1
        <5>1. i - 1 \in 1..(n - 1) /\ (i - 1) + 1 = i
          BY <4>1, <4>4
        <5>2. r[i - 1].of = y /\ i - 1 \in DOMAIN r
          BY <4>1, <4>2, <5>1
        <5> QED BY <5>2 DEF OfCalls
      <4> QED BY <4>3, <4>4
    <3> HIDE DEF r, E, x
    <3>4. Migrating(E, migrating, stage[c], r)
      BY <1>6, <3>1, <3>2, <3>3 DEF Migrating
    <3> QED BY <1>4, <2>1, <3>4 DEF r, E
  <2> HIDE DEF x
  <2>6. Commits(c, db, db', {x})
    BY <2>1, <2>2
  <2> QED BY <1>4, <1>5, <2>2, <2>3, <2>4, <2>5, <2>6, OneMoves
<1> QED BY <1>7, <1>8

(* A section is over: its unit of work commits all it decided to write. *)
UnitDone(t) ==
    /\ Commits(t, db, RowsSeenBy(t), whole[t])
    /\ writer # t => whole[t] = {} /\ RowsSeenBy(t) = db

(* A section with no calls left is over. *)
LEMMA UnitIsDone ==
    ASSUME IInv, NEW t \in Tasks, stage[t] = "writing", calls[t] = <<>>, job[t].uow
    PROVE  UnitDone(t)
<1> DEFINE P == RowsSeenBy(t)  mine == writer = t  j == job[t]  w == whole[t]
<1>1. t \in Clients /\ t # Migrator
  BY TasksAssumption DEF Clients
<1>2. Settled(t, migrating, j, stage[t], selects[t], seen[t], calls[t], w, mine) /\ Well(db)
      /\ Calls(t, db, P, mine, j, <<>>, w)
  BY <1>1, MoverFacts
<1>3. w \subseteq Stored
  <2>1. j \in Work /\ w \subseteq Members(j)
    BY <1>1, <1>2 DEF Settled, Calls, Planned
  <2>2. SetsFine(j)
    BY <2>1, WorkFine DEF Fine
  <2>3. Members(j) \subseteq Stored
    BY <2>2 DEF SetsFine, Listed, Members
  <2> QED BY <2>1, <2>3
<1>4. ~mine => w = {}
  <2>1. OfCalls(<<>>) = {}
    BY DEF OfCalls
  <2> QED BY <1>2, <2>1 DEF Calls, Transacts, Untouched, Changed
<1>5. ~mine => P = db
  BY DEF RowsSeenBy
<1>7. j.uow
  OBVIOUS
<1> HIDE DEF P, mine, j, w
<1>6. Commits(t, db, P, w)
  BY <1>1, <1>2, <1>3, <1>7, UnitEnds
<1> QED BY <1>4, <1>5, <1>6 DEF UnitDone, P, mine, w

(* A section ends, and its unit of work commits. *)
LEMMA FinishKeeps == ASSUME IInv, NEW t \in Tasks, Finish(t) PROVE IInv'
<1>1. t \in Clients /\ t # Migrator /\ stage[t] = "writing" /\ calls[t] = <<>> /\ t # Nobody
  BY TasksAssumption DEF Clients, Finish, Nobody, Migrator
<1>2. LeaveSection(t) /\ UNCHANGED <<corrupt, migrating, started, failures>>
  BY DEF Finish
<1>3. corrupt' \subseteq corrupt /\ started' \in 0..MaxSections /\ failures' \in 0..MaxFailures
  BY <1>2 DEF IInv
<1>4. CASE ~job[t].uow
  <2>1. UNCHANGED <<db, pending, writer>>
    BY <1>4 DEF Finish, InUnitOfWork
  <2>2. writer # t
    <3>1. Calls(t, db, RowsSeenBy(t), writer = t, job[t], calls[t], whole[t])
      BY <1>1, MoverFacts
    <3> QED BY <1>1, <1>4, <3>1 DEF Calls, Transacts
  <2> QED BY <1>1, <1>2, <1>3, <2>1, <2>2, Leaves
<1>5. CASE job[t].uow
  <2>1. db' = RowsSeenBy(t) /\ CloseTransaction(t)
    BY <1>5 DEF Finish, InUnitOfWork, CommitTransaction
  <2>2. UnitDone(t)
    BY <1>1, <1>5, UnitIsDone
  <2>3. /\ Arrays' /\ OnlyMoves(t)
        /\ job'[t] = Idle /\ stage'[t] = "idle" /\ selects'[t] = <<>> /\ seen'[t] = <<>>
        /\ calls'[t] = <<>> /\ whole'[t] = {}
        /\ \A u \in Tasks : job[u].locks \cap job'[t].locks = {}
    BY <1>1, <1>2, LeftSection
  <2>4. writer' # t
    BY <1>1, <2>1 DEF CloseTransaction
  <2>5. ClientFine(t)'
    BY <1>1, <2>3, <2>4, IdleClientFine
  <2> DEFINE X == whole[t]
  <2>6. Transaction(t)
    BY <1>1, <2>1, <2>2 DEF CloseTransaction, UnitDone, Transaction, RowsSeenBy
  <2>7. Commits(t, db, db', X)
    BY <2>1, <2>2 DEF UnitDone
  <2> HIDE DEF X
  <2> QED BY <1>1, <1>2, <1>3, <2>3, <2>5, <2>6, <2>7, OneMoves DEF X
<1> QED BY <1>4, <1>5

-----------------------------------------------------------------------------
(* The invariant holds when the bot starts. *)
LEMMA InitIInv == ASSUME Init PROVE IInv
<1>1. db = {} /\ pending = {} /\ writer = Nobody /\ migrating = TRUE
  BY DEF Init
<1>2. Well({})
  BY FS_EmptySet DEF Well
<1>3. \A t, o : Found({}, t, o) = 0
  <2> TAKE t, o
  <2>1. RowsIn({}, t, o) = {}
    BY DEF RowsIn
  <2> QED BY <2>1, FS_EmptySet DEF Found
<1>4. AllWhole(db) /\ \A x : Version(db, x) = 0
  BY <1>1, <1>3 DEF AllWhole, Version
<1>5. \A c \in Clients : ClientFine(c)
  <2> SUFFICES ASSUME NEW c \in Clients PROVE ClientFine(c)
    OBVIOUS
  <2>1. writer # c
    BY <1>1, TasksAssumption DEF Clients, Nobody, Migrator
  <2>2. (writer = c) = FALSE /\ RowsSeenBy(c) = db
    BY <2>1 DEF RowsSeenBy
  <2>3. Fits(c, db, db, FALSE, migrating, Idle, "idle", <<>>, <<>>, <<>>, {})
    BY IdleFits
  <2> QED BY <2>2, <2>3 DEF ClientFine, Init
<1>6. Locked
  BY Unlocked DEF Locked, Init, Clients
<1>7. Migrating(db, migrating, stage[Migrator], calls[Migrator])
  BY <1>4 DEF Migrating, Init, Clients
<1>8. started \in 0..MaxSections /\ failures \in 0..MaxFailures /\ corrupt = Corrupt
  BY BoundsAssumption DEF Init
<1>9. Arrays
  BY DEF Arrays, Init
<1> QED BY <1>1, <1>2, <1>4, <1>5, <1>6, <1>7, <1>8, <1>9 DEF IInv, Arrays

(* Every step keeps it. *)
LEMMA NextIInv == ASSUME IInv, [Next]_vars PROVE IInv'
<1>1. CASE Migrate
  <2>1. Migrator \in Clients
    BY DEF Clients
  <2> QED BY <1>1, <2>1, StartMigrationKeeps, ParseRecordKeeps, RepairKeeps, MigrationDoneKeeps,
             WriteKeeps, EndOfCallKeeps DEF Migrate
<1>2. CASE Crash
  BY <1>2, CrashKeeps
<1>3. ASSUME NEW c \in Clients, DatabaseError(c) \/ Fail(c) PROVE IInv'
  BY <1>3, DatabaseErrorKeeps, FailKeeps
<1>4. ASSUME NEW t \in Tasks, Step(t) PROVE IInv'
  <2>1. t \in Clients
    BY DEF Clients
  <2> QED BY <1>4, <2>1, SelectKeeps, DecideKeeps, RefuseKeeps, WriteKeeps, EndOfCallKeeps,
             FinishKeeps DEF Step
<1>5. ASSUME NEW t \in Tasks, NEW s \in Work, Start(t, s) PROVE IInv'
  BY <1>5, StartKeeps
<1>6. CASE UNCHANGED vars
  <2>1. \A c \in Clients : ClientFine(c)' <=> ClientFine(c)
    BY <1>6 DEF ClientFine, RowsSeenBy, vars, taskVars
  <2> QED BY <1>6, <2>1 DEF IInv, vars, taskVars, Locked
<1> QED BY <1>1, <1>2, <1>3, <1>4, <1>5, <1>6 DEF Next

(* What the clients do, what their transactions hold and what is committed  *)
(* fit together at every step.                                              *)
THEOREM InvariantHolds == Spec => []IInv
BY InitIInv, NextIInv, PTL DEF Spec

-----------------------------------------------------------------------------
(* It implies the type invariant. *)
LEMMA IInvTypeOK == ASSUME IInv PROVE TypeOK
<1>1. \A r \in db \cup pending : r.table \in TableNames /\ r.of \in Owners /\ r.val \in Nat
  <2>1. Well(db)
    BY DEF IInv
  <2>2. Well(pending)
    <3>1. CASE writer = Nobody
      BY <3>1, FS_EmptySet DEF IInv, Well
    <3>2. CASE writer # Nobody
      <4> DEFINE c == writer
      <4>1. c \in Clients
        BY <3>2 DEF IInv
      <4>2. Calls(c, db, RowsSeenBy(c), writer = c, job[c], calls[c], whole[c]) /\ RowsSeenBy(c) = pending
        BY <4>1, MoverFacts DEF RowsSeenBy
      <4> QED BY <4>2 DEF Calls, Transacts
    <3> QED BY <3>1, <3>2
  <2> QED BY <2>1, <2>2 DEF Well, AnyRow
<1>2. ASSUME NEW c \in Clients
      PROVE  /\ job[c] \in Work \cup {Idle} /\ stage[c] \in {"idle", "reading", "writing"}
             /\ DOMAIN seen[c] \subseteq Keys /\ whole[c] \subseteq Stored
             /\ \A i \in DOMAIN calls[c] : calls[c][i].of \in Stored
  <2>1. /\ Settled(c, migrating, job[c], stage[c], selects[c], seen[c], calls[c], whole[c], writer = c)
        /\ Reads(db, job[c], stage[c], selects[c], seen[c])
        /\ Calls(c, db, RowsSeenBy(c), writer = c, job[c], calls[c], whole[c])
    BY MoverFacts
  <2>2. job[c] \in Work \cup {Idle} /\ stage[c] \in {"idle", "reading", "writing"}
    BY <2>1 DEF Settled
  <2>3. whole[c] \subseteq Stored
    <3>1. CASE whole[c] = {}
      BY <3>1
    <3>2. CASE whole[c] # {}
      <4>1. c # Migrator /\ job[c] \in Work
        BY <2>1, <3>2 DEF Settled
      <4>2. SetsFine(job[c]) /\ whole[c] \subseteq Members(job[c])
        BY <2>1, <4>1, WorkFine DEF Fine, Calls, Planned
      <4>3. Members(job[c]) \subseteq Stored
        BY <4>2 DEF SetsFine, Listed, Members
      <4> QED BY <4>2, <4>3
    <3> QED BY <3>1, <3>2
  <2>4. \A i \in DOMAIN calls[c] : calls[c][i].of \in Stored
    BY <2>1 DEF Calls, Queued, Listed, Stands
  <2> QED BY <2>1, <2>2, <2>3, <2>4 DEF Reads
<1>3. job \in [Clients -> Work \cup {Idle}] /\ stage \in [Clients -> {"idle", "reading", "writing"}]
  BY <1>2 DEF IInv
<1> QED BY <1>1, <1>2, <1>3 DEF TypeOK, IInv

(* The rows, the sections and the calls keep their types. *)
THEOREM TypeOKHolds == Spec => []TypeOK
<1>1. IInv => TypeOK
  BY IInvTypeOK
<1> QED BY <1>1, InvariantHolds, PTL

(* However sections, crashes, errors and runs of the migrator follow each   *)
(* other, what is committed of an account, a bucket or a fund is its row    *)
(* and all the children of the same upsert.                                 *)
THEOREM AggregatesWholeHolds == Spec => []AggregatesWhole
<1>1. IInv => AggregatesWhole
  <2> SUFFICES ASSUME IInv PROVE AggregatesWhole
    OBVIOUS
  <2>1. AllWhole(db)
    BY DEF IInv
  <2>2. \A u \in Owners : \A t \in ChildTables \ {"price_history"} :
            Found(db, t, u) = Found(db, Parent[t], u)
    BY <2>1, ChildWhole
  <2> QED BY <2>2 DEF AggregatesWhole, Whole
<1> QED BY <1>1, InvariantHolds, PTL

(* No statement of a repository call, in whatever state the transaction and *)
(* the committed rows are, runs into a key or a foreign key.                *)
THEOREM StatementsAllowedHolds == Spec => []StatementsAllowed
<1>1. IInv => StatementsAllowed
  <2> SUFFICES ASSUME IInv, NEW c \in Clients, calls[c] # <<>>, writer \in {c, Nobody}
               PROVE  Allowed(RowsSeenBy(c), Statement(c))
    BY DEF StatementsAllowed
  <2> DEFINE P == RowsSeenBy(c)  s == Statement(c)  mine == writer = c
  <2>1. Well(db) /\ Calls(c, db, P, mine, job[c], calls[c], whole[c]) /\ s = Head(Head(calls[c]).stmts)
    BY MoverFacts DEF Statement
  <2> HIDE DEF P, s, mine
  <2>2. IsDml(s) => Allowed(P, s)
    <3> DEFINE Q == Effect(P, s)
    <3> HIDE DEF Q
    <3> QED BY <2>1, DmlMoves DEF Q
  <2>3. ~IsDml(s) => Allowed(P, s)
    BY DEF IsDml, Allowed
  <2>4. Allowed(P, s)
    BY <2>2, <2>3
  <2> QED BY <2>4 DEF P, s
<1> QED BY <1>1, InvariantHolds, PTL

(* The locks of a section keep every row it has read of the members it locks *)
(* as it was until it decides, whoever commits in the meantime.             *)
THEOREM LockedReadsCurrentHolds == Spec => []LockedReadsCurrent
<1>1. IInv => LockedReadsCurrent
  <2> SUFFICES ASSUME IInv, NEW t \in Tasks, stage[t] = "reading", NEW key \in DOMAIN seen[t],
                      key[2] \in job[t].locks
               PROVE  seen[t][key] = Found(db, key[1], key[2])
    BY DEF LockedReadsCurrent
  <2>1. Reads(db, job[t], stage[t], selects[t], seen[t])
    BY MoverFacts DEF Clients
  <2> QED BY <2>1 DEF Reads, ReadsLocked
<1> QED BY <1>1, InvariantHolds, PTL

(* What is read beside the locks, by a snapshot or by a capture, is never   *)
(* more than is committed, and children are never older than the parent     *)
(* that was found.                                                          *)
THEOREM SnapshotsMixForwardHolds == Spec => []SnapshotsMixForward
<1>1. IInv => SnapshotsMixForward
  <2> SUFFICES ASSUME IInv, NEW t \in Tasks, stage[t] = "reading", NEW key \in DOMAIN seen[t],
                      key[2] \notin job[t].locks
               PROVE  /\ seen[t][key] <= Found(db, key[1], key[2])
                      /\ key[1] \in ChildTables \ {"price_history"} =>
                             seen[t][key] >= seen[t][<<Parent[key[1]], key[2]>>]
    BY DEF SnapshotsMixForward
  <2>1. Reads(db, job[t], stage[t], selects[t], seen[t])
    BY MoverFacts DEF Clients
  <2> QED BY <2>1 DEF Reads, ReadsMixed
<1> QED BY <1>1, InvariantHolds, PTL

-----------------------------------------------------------------------------
(* Only the end of a call and the end of a unit of work change what is      *)
(* committed.                                                               *)
CommitStep ==
    \/ UNCHANGED db
    \/ \E c \in Clients : \E X \in SUBSET Stored : Commits(c, db, db', X) /\ (c = Migrator => migrating)

(* The end of a call commits one aggregate, or nothing. *)
LEMMA EndOfCallCommits == ASSUME IInv, NEW c \in Clients, EndOfCall(c) PROVE CommitStep
<1> DEFINE x == calls[c][1].of
<1>1. CallDone(c, x)
  BY CallIsDone DEF EndOfCall
<1>2. Settled(c, migrating, job[c], stage[c], selects[c], seen[c], calls[c], whole[c], writer = c)
  BY MoverFacts
<1>3. CASE job[c].uow
  BY <1>3 DEF EndOfCall, InUnitOfWork, CommitStep
<1>4. CASE ~job[c].uow
  <2>1. Commits(c, db, pending, {x}) /\ x \in Stored
    BY <1>1, <1>4 DEF CallDone
  <2>2. db' = pending
    BY <1>1, <1>4 DEF EndOfCall, InUnitOfWork, CommitTransaction, RowsSeenBy, CallDone
  <2>3. c = Migrator => migrating
    BY <1>1, <1>2 DEF CallDone, Settled
  <2> HIDE DEF x
  <2>4. {x} \in SUBSET Stored /\ Commits(c, db, db', {x})
    BY <2>1, <2>2
  <2> QED BY <2>3, <2>4 DEF CommitStep
<1> QED BY <1>3, <1>4

(* The end of a section commits all its writes at once. *)
LEMMA FinishCommits == ASSUME IInv, NEW t \in Tasks, Finish(t) PROVE CommitStep
<1>1. t \in Clients /\ t # Migrator /\ stage[t] = "writing" /\ calls[t] = <<>>
  BY TasksAssumption DEF Clients, Finish
<1>2. CASE ~job[t].uow
  BY <1>2 DEF Finish, InUnitOfWork, CommitStep
<1>3. CASE job[t].uow
  <2>1. UnitDone(t)
    BY <1>1, <1>3, UnitIsDone
  <2>2. db' = RowsSeenBy(t)
    BY <1>3 DEF Finish, InUnitOfWork, CommitTransaction
  <2>3. Commits(t, db, db', whole[t]) /\ whole[t] \in SUBSET Stored
    BY <2>1, <2>2 DEF UnitDone, Commits
  <2> QED BY <1>1, <2>3 DEF CommitStep
<1> QED BY <1>2, <1>3

(* Every step commits whole aggregates, or nothing. *)
LEMMA NextCommits == ASSUME IInv, [Next]_vars PROVE CommitStep
<1>1. CASE Migrate
  <2>1. Migrator \in Clients
    BY DEF Clients
  <2>2. CASE EndOfCall(Migrator)
    BY <2>1, <2>2, EndOfCallCommits
  <2>3. CASE StartMigration \/ ParseRecord \/ Repair \/ MigrationDone \/ Write(Migrator)
    BY <2>3 DEF StartMigration, ParseRecord, Repair, MigrationDone, Write, CommitStep
  <2> QED BY <1>1, <2>2, <2>3 DEF Migrate
<1>2. CASE Crash
  BY <1>2 DEF Crash, CommitStep
<1>3. ASSUME NEW c \in Clients, DatabaseError(c) \/ Fail(c) PROVE CommitStep
  BY <1>3 DEF DatabaseError, Fail, RollBack, CommitStep
<1>4. ASSUME NEW t \in Tasks, Step(t) PROVE CommitStep
  <2>1. t \in Clients
    BY DEF Clients
  <2>2. CASE EndOfCall(t)
    BY <2>1, <2>2, EndOfCallCommits
  <2>3. CASE Finish(t)
    BY <2>3, FinishCommits
  <2>4. CASE Select(t) \/ Decide(t) \/ Refuse(t) \/ Write(t)
    BY <2>4 DEF Select, Decide, Refuse, Write, CommitStep
  <2> QED BY <1>4, <2>2, <2>3, <2>4 DEF Step
<1>5. ASSUME NEW t \in Tasks, NEW s \in Work, Start(t, s) PROVE CommitStep
  BY <1>5 DEF Start, CommitStep
<1>6. CASE UNCHANGED vars
  BY <1>6 DEF vars, CommitStep
<1> QED BY <1>1, <1>2, <1>3, <1>4, <1>5, <1>6 DEF Next

(* No step takes a committed point of a history away: not the rewrite by    *)
(* the migrator, and not what a crash leaves of it.                         *)
THEOREM HistoryNeverLostHolds == Spec => HistoryNeverLost
<1>1. IInv /\ [Next]_vars =>
          [\A u \in Owners : Found(db', "price_history", u) >= Found(db, "price_history", u)]_vars
  <2> SUFFICES ASSUME IInv, [Next]_vars, NEW u \in Owners
               PROVE  Found(db', "price_history", u) >= Found(db, "price_history", u)
    OBVIOUS
  <2> DEFINE h == "price_history"  x == <<"history", u>>
  <2>1. CommitStep
    BY NextCommits
  <2>2. Well(db) /\ AllWhole(db) /\ Migrating(db, migrating, stage[Migrator], calls[Migrator])
    BY DEF IInv
  <2>3. h \in TableNames
    BY Schema
  <2>4. CASE db' = db
    <3>1. Found(db, h, u) \in Nat
      BY <2>2, <2>3, FoundNone
    <3> QED BY <2>4, <3>1
  <2>5. ASSUME NEW c \in Clients, NEW X \in SUBSET Stored, Commits(c, db, db', X), c = Migrator => migrating
        PROVE  Found(db', h, u) >= Found(db, h, u)
    <3>1. CASE c # Migrator
      BY <2>2, <2>3, <2>5, <3>1, CommitGrows
    <3>2. CASE c = Migrator
      <4>1. x \in Stored /\ MainTable(x) = h /\ x[2] = u
        BY DEF Stored, MainTable
      <4>2. \A D : Version(D, x) = Found(D, h, u)
        BY <4>1 DEF Version
      <4> HIDE DEF x
      <4>3. Version(db', x) = IF x \in X THEN Goal(c, db, x) ELSE Version(db, x)
        BY <2>5, <4>1, CommittedVersions
      <4>4. Version(db, x) \in {0, SourceVersion(x)}
        BY <2>2, <2>5, <3>2, <4>1 DEF Migrating
      <4>5. Well(db')
        BY <2>5 DEF Commits
      <4>6. Version(db, x) \in Nat /\ Version(db', x) \in Nat
        BY <2>2, <4>1, <4>5, VersionNat
      <4>7. Goal(c, db, x) = SourceVersion(x)
        BY <3>2 DEF Goal
      <4>8. Version(db', x) >= Version(db, x)
        BY <4>3, <4>4, <4>6, <4>7
      <4> QED BY <4>2, <4>8
    <3> QED BY <3>1, <3>2
  <2> QED BY <2>1, <2>4, <2>5 DEF CommitStep
<1> QED BY <1>1, InvariantHolds, PTL DEF Spec, HistoryNeverLost

(* Only the success of the migrator ends the migration. *)
LEMMA StillMigrating == ASSUME [Next]_vars, ~MigrationDone PROVE migrating' = migrating
<1>1. CASE Migrate
  BY <1>1 DEF Migrate, StartMigration, ParseRecord, Repair, Write, EndOfCall
<1>2. CASE Crash
  BY <1>2 DEF Crash
<1>3. ASSUME NEW c \in Clients, DatabaseError(c) \/ Fail(c) PROVE migrating' = migrating
  BY <1>3 DEF DatabaseError, Fail
<1>4. ASSUME NEW t \in Tasks, Step(t) PROVE migrating' = migrating
  BY <1>4 DEF Step, Select, Decide, Refuse, Write, EndOfCall, Finish
<1>5. ASSUME NEW t \in Tasks, NEW s \in Work, Start(t, s) PROVE migrating' = migrating
  BY <1>5 DEF Start
<1>6. CASE UNCHANGED vars
  BY <1>6 DEF vars
<1> QED BY <1>1, <1>2, <1>3, <1>4, <1>5, <1>6 DEF Next

(* The migrator succeeds only when every aggregate is as the files have it. *)
LEMMA DoneIsComplete ==
    ASSUME IInv, MigrationDone
    PROVE  \A x \in Stored : Version(db, x) = SourceVersion(x)
<1>1. Migrating(db, migrating, stage[Migrator], calls[Migrator])
  BY DEF IInv
<1>2. OfCalls(calls[Migrator]) = {}
  BY DEF MigrationDone, OfCalls
<1> QED BY <1>1, <1>2 DEF MigrationDone, Migrating

(* When the migrator succeeds, every aggregate is stored as the files have  *)
(* it, however often it was killed or stopped at a corrupt record before.   *)
THEOREM MigrationCompleteHolds == Spec => MigrationComplete
<1>1. IInv /\ [Next]_vars =>
          [migrating /\ ~migrating' => \A x \in Stored : Version(db, x) = SourceVersion(x)]_vars
  BY StillMigrating, DoneIsComplete
<1> QED BY <1>1, InvariantHolds, PTL DEF Spec, MigrationComplete

-----------------------------------------------------------------------------
(* The refinement: what a client has still to commit, as a list of sets     *)
LeftOf(j, cs, w) ==
    IF j.uow THEN (IF w = {} THEN <<>> ELSE <<w>>) ELSE [i \in DOMAIN cs |-> {cs[i].of}]
(* The versions of a database, as the abstract store has them *)
StoreOf(D) == [x \in Stored |-> Version(D, x)]
store == StoreOf(db)
left == [c \in Clients |-> StillToCommit(c)]
Lists == UNION {ListsOf(s) : s \in Work}
AllMigrations == [i \in DOMAIN MigrationCalls |-> {MigrationCalls[i].of}]

(* What one client has left becomes y, and all else stays *)
LeftBecomes(c, y) == left' = [left EXCEPT ![c] = y]

(* The steps of the abstract store, for the mapped variables *)
AStutter == UNCHANGED <<store, left, migrating>>
ABegin(c, y) == left[c] = <<>> /\ LeftBecomes(c, y) /\ UNCHANGED <<store, migrating>>
ACommit(c) ==
    /\ left[c] # <<>> /\ LeftBecomes(c, Tail(left[c])) /\ UNCHANGED migrating
    /\ store' = [x \in Stored |->
                    IF x \notin Head(left[c]) THEN store[x]
                    ELSE IF migrating THEN SourceVersion(x) ELSE store[x] + 1]
AGiveUp(c) == left[c] # <<>> /\ LeftBecomes(c, <<>>) /\ UNCHANGED <<store, migrating>>
AGiveUpAll == left' = [c \in Clients |-> <<>>] /\ UNCHANGED <<store, migrating>>
AMigrateDone ==
    /\ migrating /\ (\A c \in Clients : left[c] = <<>>) /\ (\A x \in Stored : store[x] = SourceVersion(x))
    /\ migrating' = FALSE /\ UNCHANGED <<store, left>>

(* What one client has left changes as a step of the abstract store does. *)
LEMMA AbstractSteps ==
    /\ \A c \in Clients : ACommit(c) \/ AGiveUp(c) => [Atomic!Next]_(Atomic!avars)
    /\ \A c \in Clients : migrating /\ ABegin(c, AllMigrations) => [Atomic!Next]_(Atomic!avars)
    /\ \A c \in Clients : \A y \in Lists : ~migrating /\ ABegin(c, y) => [Atomic!Next]_(Atomic!avars)
    /\ AGiveUpAll \/ AMigrateDone \/ AStutter => [Atomic!Next]_(Atomic!avars)
<1> USE DEF Atomic!avars, store, StoreOf, left, LeftBecomes
<1>1. \A c \in Clients : ACommit(c) => Atomic!Commit(c)
  BY DEF ACommit, Atomic!Commit
<1>2. \A c \in Clients : AGiveUp(c) => Atomic!GiveUp(c)
  BY DEF AGiveUp, Atomic!GiveUp
<1>3. \A c \in Clients : migrating /\ ABegin(c, AllMigrations) => Atomic!Migrate(c)
  BY DEF ABegin, Atomic!Migrate, Atomic!Begin, AllMigrations
<1>4. \A c \in Clients : \A y \in Lists : ABegin(c, y) => Atomic!Begin(c, y)
  BY DEF ABegin, Atomic!Begin
<1>5. AGiveUpAll => Atomic!GiveUpAll
  BY DEF AGiveUpAll, Atomic!GiveUpAll
<1>6. AMigrateDone => Atomic!MigrateDone
  BY DEF AMigrateDone, Atomic!MigrateDone
<1>7. AStutter => UNCHANGED Atomic!avars
  BY DEF AStutter
<1> QED BY <1>1, <1>2, <1>3, <1>4, <1>5, <1>6, <1>7 DEF Atomic!Next, Lists

(* What is left of the clients that do not move stays. *)
LEMMA LeftMoves ==
    ASSUME NEW c \in Clients, OnlyMoves(c)
    PROVE  /\ LeftBecomes(c, LeftOf(job'[c], calls'[c], whole'[c]))
           /\ left[c] = LeftOf(job[c], calls[c], whole[c])
BY DEF LeftBecomes, left, StillToCommit, InUnitOfWork, LeftOf, OnlyMoves

(* A step that changes neither the versions nor what is left is a stutter. *)
LEMMA StutterOf ==
    ASSUME NEW c \in Clients, OnlyMoves(c), UNCHANGED migrating, StoreOf(db') = StoreOf(db),
           LeftOf(job'[c], calls'[c], whole'[c]) = LeftOf(job[c], calls[c], whole[c])
    PROVE  AStutter
<1>1. left' = [left EXCEPT ![c] = left[c]]
  BY LeftMoves DEF LeftBecomes
<1>2. left' = left
  BY <1>1 DEF left
<1> QED BY <1>2 DEF AStutter, store

(* A client without calls has nothing left. *)
LEMMA NothingLeft == \A j : LeftOf(j, <<>>, {}) = <<>>
BY DEF LeftOf

(* The end of a call is told by its name. *)
LEMMA EndIs == EndCall.do = "end"
BY DEF EndCall

(* A client that leaves gives up what it had left. *)
LEMMA LeavingMaps ==
    ASSUME IInv, NEW c \in Clients, LeaveSection(c), UNCHANGED <<db, migrating>>
    PROVE  AGiveUp(c) \/ AStutter
<1>1. OnlyMoves(c) /\ calls'[c] = <<>> /\ whole'[c] = {}
  BY LeftSection
<1>2. LeftOf(job'[c], calls'[c], whole'[c]) = <<>>
  BY <1>1, NothingLeft
<1>3. LeftBecomes(c, <<>>) /\ left[c] = LeftOf(job[c], calls[c], whole[c])
  BY <1>1, <1>2, LeftMoves
<1>4. CASE left[c] = <<>>
  BY <1>1, <1>2, <1>3, <1>4, StutterOf
<1>5. CASE left[c] # <<>>
  BY <1>3, <1>5 DEF AGiveUp, store
<1> QED BY <1>4, <1>5

(* A crash gives up what all clients have left. *)
LEMMA CrashMaps == ASSUME IInv, Crash PROVE AGiveUpAll
<1>1. \A c \in Clients : job'[c] = Idle /\ calls'[c] = <<>> /\ whole'[c] = {}
  BY DEF Crash
<1>2. \A c \in Clients : StillToCommit(c)' = <<>>
  BY <1>1, Unlocked DEF StillToCommit, InUnitOfWork
<1> QED BY <1>2 DEF AGiveUpAll, left, store, Crash

(* A statement that is not the end of a call is not its last. *)
LEMMA NotLast ==
    ASSUME NEW c, NEW D, NEW cs, Queued(c, D, cs), cs # <<>>, NEW s, s = Head(Head(cs).stmts), s # EndCall
    PROVE  Len(cs[1].stmts) # 1
<1>1. PICK x, n, z : HeadOf(c, D, cs, x, n, z)
  BY HeadCall
<1> DEFINE v == Goal(c, D, x)
<1>2. n = Len(cs[1].stmts) /\ s = StatementAt(c, x, v, n) /\ x \in Stored /\ n \in 1..Full(c, x)
  BY <1>1 DEF HeadOf
<1> HIDE DEF v
<1>3. s = EndCall <=> n = 1
  BY <1>2, StatementKinds
<1> QED BY <1>2, <1>3

(* A statement before the last of its call changes nothing that shows. *)
LEMMA StatementMaps ==
    ASSUME IInv, NEW c \in Clients, calls[c] # <<>>, Statement(c) # EndCall,
           calls' = [calls EXCEPT ![c] = Rest(@)],
           UNCHANGED <<db, job, stage, selects, seen, whole, migrating>>
    PROVE  AStutter
<1> DEFINE cs == calls[c]  r == Rest(cs)
<1>1. Arrays /\ Calls(c, db, RowsSeenBy(c), writer = c, job[c], cs, whole[c])
  BY MoverFacts DEF IInv, Arrays
<1>2. OnlyMoves(c) /\ calls'[c] = r /\ job'[c] = job[c] /\ whole'[c] = whole[c]
  BY <1>1 DEF Arrays, OnlyMoves
<1>3. Queued(c, db, cs)
  BY <1>1 DEF Calls
<1> HIDE DEF cs, r
<1>5. Len(cs[1].stmts) # 1
  <2> DEFINE s == Statement(c)
  <2>1. s = Head(Head(cs).stmts) /\ s # EndCall
    BY DEF Statement, cs
  <2> HIDE DEF s
  <2> QED BY <1>3, <2>1, NotLast DEF cs
<1>6. Advanced(cs, r) /\ DOMAIN cs = 1..Len(cs)
  BY <1>3, <1>5, CallAdvances DEF r, cs, Queued, Listed
<1>7. [i \in DOMAIN r |-> {r[i].of}] = [i \in DOMAIN cs |-> {cs[i].of}]
  BY <1>6 DEF Advanced
<1>8. LeftOf(job[c], r, whole[c]) = LeftOf(job[c], cs, whole[c])
  BY <1>7 DEF LeftOf
<1> QED BY <1>2, <1>8, StutterOf DEF cs

(* A statement inside a transaction is not seen. *)
LEMMA WriteMaps == ASSUME IInv, NEW c \in Clients, Write(c) PROVE AStutter
<1>1. Statement(c) # EndCall
  BY EndIs DEF Write, IsDml
<1> QED BY <1>1, StatementMaps DEF Write

(* A record that is parsed is not seen, a corrupt one gives up what is      *)
(* left.                                                                    *)
LEMMA ParseRecordMaps == ASSUME IInv, ParseRecord PROVE AGiveUp(Migrator) \/ AStutter
<1>1. Migrator \in Clients /\ Statement(Migrator) # EndCall
  BY EndIs DEF Clients, ParseRecord
<1>2. CASE LeaveSection(Migrator)
  BY <1>1, <1>2, LeavingMaps DEF ParseRecord
<1>3. CASE calls' = [calls EXCEPT ![Migrator] = Rest(@)] /\ UNCHANGED <<job, stage, selects, seen, whole>>
  BY <1>1, <1>3, StatementMaps DEF ParseRecord
<1> QED BY <1>2, <1>3 DEF ParseRecord

(* What a section reads is not seen. *)
LEMMA ReadingMaps ==
    ASSUME IInv, NEW t \in Tasks, Select(t) \/ \E s \in Work : Start(t, s)
    PROVE  AStutter
<1>1. t \in Clients /\ t # Migrator /\ stage[t] # "writing"
  BY TasksAssumption DEF Clients, Select, Start
<1>2. calls[t] = <<>> /\ whole[t] = {} /\ Arrays
  BY <1>1, MoverFacts DEF Settled, IInv, Arrays
<1>3. OnlyMoves(t) /\ UNCHANGED <<db, calls, whole, migrating>>
  BY <1>2 DEF Arrays, OnlyMoves, Select, Start
<1>4. LeftOf(job'[t], calls'[t], whole'[t]) = LeftOf(job[t], calls[t], whole[t])
  BY <1>2, <1>3, NothingLeft
<1> QED BY <1>1, <1>3, <1>4, StutterOf

(* To run the migrator is to begin with all the migrations. *)
LEMMA StartMigrationMaps ==
    ASSUME IInv, StartMigration
    PROVE  migrating /\ ABegin(Migrator, AllMigrations)
<1> DEFINE c == Migrator
<1>1. c \in Clients /\ stage[c] = "idle" /\ migrating
  BY DEF Clients, StartMigration
<1>2. calls[c] = <<>> /\ whole[c] = {} /\ job[c] = Idle /\ Arrays
  BY <1>1, MoverFacts DEF Settled, IInv, Arrays
<1>3. OnlyMoves(c) /\ calls'[c] = MigrationCalls /\ UNCHANGED <<db, job, whole, migrating>>
  BY <1>1, <1>2 DEF StartMigration, Arrays, OnlyMoves
<1>4. LeftOf(job'[c], calls'[c], whole'[c]) = AllMigrations /\ LeftOf(job[c], calls[c], whole[c]) = <<>>
  BY <1>2, <1>3, Unlocked, NothingLeft DEF LeftOf, AllMigrations
<1> QED BY <1>1, <1>3, <1>4, LeftMoves DEF ABegin, store

(* The success of the migrator is that of the abstract store. *)
LEMMA MigrationDoneMaps == ASSUME IInv, MigrationDone PROVE AMigrateDone
<1> DEFINE c == Migrator
<1>1. c \in Clients /\ migrating /\ LeaveSection(c) /\ calls[c] = <<>> /\ UNCHANGED db /\ migrating' = FALSE
  BY DEF Clients, MigrationDone
<1>2. OnlyMoves(c) /\ calls'[c] = <<>> /\ whole'[c] = {}
  BY <1>1, LeftSection
<1>3. whole[c] = {}
  BY <1>1, MoverFacts DEF Settled
<1>4. \A d \in Clients : calls[d] = <<>> /\ whole[d] = {}
  BY <1>1, <1>3, AllIdle
<1>5. \A d \in Clients : left[d] = <<>>
  BY <1>4 DEF left, StillToCommit, InUnitOfWork
<1>6. \A d \in Clients : calls'[d] = <<>> /\ whole'[d] = {}
  BY <1>2, <1>4 DEF OnlyMoves
<1>7. \A d \in Clients : left'[d] = <<>>
  BY <1>6 DEF left, StillToCommit, InUnitOfWork
<1>8. left' = left
  BY <1>5, <1>7 DEF left
<1>9. \A x \in Stored : store[x] = SourceVersion(x)
  BY DoneIsComplete DEF store, StoreOf
<1> QED BY <1>1, <1>5, <1>8, <1>9 DEF AMigrateDone, store

(* A section that has decided has its writes left: all at once in a unit of *)
(* work, one by one otherwise.                                              *)
LEMMA DecideMaps ==
    ASSUME IInv, NEW t \in Tasks, Decide(t)
    PROVE  AStutter \/ (~migrating /\ \E y \in Lists : ABegin(t, y))
<1> DEFINE s == job[t]  cs == calls'[t]  w == whole'[t]  y == LeftOf(s, cs, w)
<1>1. /\ OnlyMoves(t) /\ t \in Clients /\ t # Migrator
      /\ UNCHANGED <<db, job, migrating>>
      /\ \E q : Decided(t, db, s, q, cs, w)
  BY DecideIs
<1>2. PICK q : Decided(t, db, s, q, cs, w)
  BY <1>1
<1>3. Settled(t, migrating, s, stage[t], selects[t], seen[t], calls[t], whole[t], writer = t)
      /\ stage[t] = "reading"
  BY <1>1, MoverFacts DEF Decide
<1>4. calls[t] = <<>> /\ whole[t] = {} /\ ~migrating /\ s \in Work
  BY <1>1, <1>3 DEF Settled
<1>5. LeftOf(job[t], calls[t], whole[t]) = <<>> /\ job'[t] = s
  BY <1>1, <1>4, NothingLeft
<1>6. ABegin(t, y)
  BY <1>1, <1>5, LeftMoves DEF ABegin, store
<1>7. CASE s.uow /\ w = {}
  <2>1. y = <<>>
    BY <1>7 DEF LeftOf
  <2> QED BY <1>1, <1>5, <2>1, StutterOf
<1>8. CASE s.uow /\ w # {}
  <2>1. y = <<w>> /\ w \in SUBSET Members(s)
    BY <1>2, <1>8 DEF LeftOf, Decided
  <2>2. y \in ListsOf(s)
    BY <1>8, <2>1 DEF ListsOf
  <2> QED BY <1>4, <1>6, <2>2 DEF Lists
<1>9. CASE ~s.uow
  <2> HIDE DEF s, cs, w
  <2>1. /\ q = s.sets /\ Listed(q) /\ Listed(cs) /\ Len(cs) = Len(q)
        /\ \A i \in 1..Len(q) : cs[i].of = q[i]
    BY <1>2, <1>9 DEF Decided
  <2>2. DOMAIN cs = 1..Len(q) /\ DOMAIN q = 1..Len(q)
    BY <2>1 DEF Listed
  <2>3. y = Singly(s.sets)
    BY <1>9, <2>1, <2>2 DEF LeftOf, Singly
  <2>4. y \in ListsOf(s)
    BY <1>9, <2>3 DEF ListsOf
  <2> QED BY <1>4, <1>6, <2>4 DEF Lists, s
<1> QED BY <1>7, <1>8, <1>9

(* A commit of the set that comes first in what is left. *)
LEMMA CommitMaps ==
    ASSUME IInv, NEW c \in Clients, NEW X, Commits(c, db, db', X), left[c] # <<>>, Head(left[c]) = X,
           LeftBecomes(c, Tail(left[c])), UNCHANGED migrating, stage[c] = "writing"
    PROVE  ACommit(c)
<1>1. c = Migrator <=> migrating
  <2>1. Settled(c, migrating, job[c], stage[c], selects[c], seen[c], calls[c], whole[c], writer = c)
    BY MoverFacts
  <2> QED BY <2>1 DEF Settled
<1>2. \A x \in Stored : Version(db', x) = IF x \notin X THEN Version(db, x)
                                          ELSE IF migrating THEN SourceVersion(x) ELSE Version(db, x) + 1
  <2> TAKE x \in Stored
  <2>1. Version(db', x) = IF x \in X THEN Goal(c, db, x) ELSE Version(db, x)
    BY CommittedVersions
  <2> QED BY <1>1, <2>1 DEF Goal
<1> QED BY <1>2 DEF ACommit, store, StoreOf

(* The end of a call commits its aggregate, or is not seen in a unit of     *)
(* work.                                                                    *)
LEMMA EndOfCallMaps == ASSUME IInv, NEW c \in Clients, EndOfCall(c) PROVE AStutter \/ ACommit(c)
<1> DEFINE cs == calls[c]  x == calls[c][1].of  r == Rest(cs)  n == Len(cs)
<1>1. CallDone(c, x)
  BY CallIsDone DEF EndOfCall
<1>2. Arrays /\ cs # <<>>
  BY DEF IInv, Arrays, EndOfCall
<1>3. /\ OnlyMoves(c) /\ calls'[c] = r
      /\ UNCHANGED <<job, stage, selects, seen, whole, corrupt, migrating, started, failures>>
  BY <1>2 DEF EndOfCall, Arrays, OnlyMoves
<1>4. LeftBecomes(c, LeftOf(job[c], r, whole[c])) /\ left[c] = LeftOf(job[c], cs, whole[c])
  BY <1>3, LeftMoves
<1>5. CASE job[c].uow
  <2>1. UNCHANGED <<db, pending, writer>>
    BY <1>5 DEF EndOfCall, InUnitOfWork
  <2>2. LeftOf(job[c], r, whole[c]) = LeftOf(job[c], cs, whole[c])
    BY <1>5 DEF LeftOf
  <2> QED BY <1>3, <2>1, <2>2, StutterOf
<1>6. CASE ~job[c].uow
  <2> DEFINE p == [i \in DOMAIN cs |-> {cs[i].of}]
             y == [i \in DOMAIN r |-> {r[i].of}]
  <2>1. left[c] = p /\ LeftBecomes(c, y)
    BY <1>4, <1>6 DEF LeftOf
  <2>2. n \in Nat \ {0} /\ DOMAIN cs = 1..n /\ DOMAIN r = 1..(n - 1) /\ \A i \in 1..(n - 1) : r[i] = cs[i + 1]
    BY <1>1 DEF CallDone, Dropped
  <2> HIDE DEF cs, r, n
  <2>3. Listed(p) /\ Len(p) = n /\ p # <<>> /\ p[1] = {cs[1].of} /\ \A i \in 1..n : p[i] = {cs[i].of}
    BY <2>2 DEF Listed
  <2>4. y = [i \in 1..(n - 1) |-> {cs[i + 1].of}]
    BY <2>2
  <2> HIDE DEF p, y
  <2>5. Head(p) = p[1] /\ Listed(Tail(p)) /\ Len(Tail(p)) = n - 1 /\ \A i \in 1..(n - 1) : Tail(p)[i] = p[i + 1]
    BY <2>3, TailListed
  <2>6. Tail(p) = y
    <3> DEFINE z == Tail(p)
    <3>1. z = [i \in 1..(n - 1) |-> z[i]] /\ \A i \in 1..(n - 1) : z[i] = p[i + 1]
      BY <2>5 DEF Listed
    <3>2. \A i \in 1..(n - 1) : p[i + 1] = {cs[i + 1].of}
      BY <2>2, <2>3
    <3> HIDE DEF z
    <3>3. z = y
      BY <2>4, <3>1, <3>2
    <3> QED BY <3>3 DEF z
  <2>7. db' = pending
    BY <1>1, <1>6 DEF EndOfCall, InUnitOfWork, CommitTransaction, RowsSeenBy, CallDone
  <2>8. Commits(c, db, db', {x}) /\ stage[c] = "writing"
    BY <1>1, <1>6, <2>7 DEF CallDone
  <2>9. Head(left[c]) = {x} /\ left[c] # <<>> /\ LeftBecomes(c, Tail(left[c]))
    BY <2>1, <2>3, <2>5, <2>6 DEF cs
  <2> HIDE DEF x
  <2>10. ACommit(c)
    BY <1>3, <2>8, <2>9, CommitMaps
  <2> QED BY <2>10
<1> QED BY <1>5, <1>6

(* The end of a section commits all of its writes, or has none. *)
LEMMA FinishMaps == ASSUME IInv, NEW t \in Tasks, Finish(t) PROVE AStutter \/ ACommit(t)
<1>1. t \in Clients /\ t # Migrator /\ stage[t] = "writing" /\ calls[t] = <<>>
  BY TasksAssumption DEF Clients, Finish
<1>2. LeaveSection(t) /\ UNCHANGED migrating
  BY DEF Finish
<1>3. OnlyMoves(t) /\ calls'[t] = <<>> /\ whole'[t] = {}
  BY <1>1, <1>2, LeftSection
<1>4. LeftOf(job'[t], calls'[t], whole'[t]) = <<>>
  BY <1>3, NothingLeft
<1>5. LeftBecomes(t, <<>>) /\ left[t] = LeftOf(job[t], <<>>, whole[t])
  BY <1>1, <1>3, <1>4, LeftMoves
<1>6. CASE ~job[t].uow
  <2>1. db' = db /\ LeftOf(job[t], calls[t], whole[t]) = <<>>
    BY <1>1, <1>6 DEF Finish, InUnitOfWork, LeftOf
  <2> QED BY <1>1, <1>2, <1>3, <1>4, <2>1, StutterOf
<1>7. CASE job[t].uow
  <2>1. UnitDone(t) /\ db' = RowsSeenBy(t)
    BY <1>1, <1>7, UnitIsDone DEF Finish, InUnitOfWork, CommitTransaction
  <2>2. Commits(t, db, db', whole[t])
    BY <2>1 DEF UnitDone
  <2>3. CASE whole[t] = {}
    <3>1. \A x \in Stored : Version(db', x) = Version(db, x)
      <4> TAKE x \in Stored
      <4>1. Version(db', x) = IF x \in whole[t] THEN Goal(t, db, x) ELSE Version(db, x)
        BY <2>2, CommittedVersions
      <4> QED BY <2>3, <4>1
    <3>2. StoreOf(db') = StoreOf(db)
      BY <3>1 DEF StoreOf
    <3>3. LeftOf(job[t], calls[t], whole[t]) = <<>>
      BY <1>1, <2>3, NothingLeft
    <3> QED BY <1>1, <1>2, <1>3, <1>4, <3>2, <3>3, StutterOf
  <2>4. CASE whole[t] # {}
    <3> DEFINE X == whole[t]
    <3>1. left[t] = <<X>>
      BY <1>5, <1>7, <2>4 DEF LeftOf
    <3>2. Head(<<X>>) = X /\ Tail(<<X>>) = <<>> /\ <<X>> # <<>>
      OBVIOUS
    <3> HIDE DEF X
    <3>3. left[t] # <<>> /\ Head(left[t]) = X /\ LeftBecomes(t, Tail(left[t])) /\ Commits(t, db, db', X)
      BY <1>5, <2>2, <3>1, <3>2 DEF X
    <3> QED BY <1>1, <1>2, <3>3, CommitMaps
  <2> QED BY <2>3, <2>4
<1> QED BY <1>6, <1>7

(* Every step maps to a step of AtomicStore or to a stutter. *)
LEMMA StepRefines == ASSUME IInv, [Next]_vars PROVE [Atomic!Next]_(Atomic!avars)
<1>0. /\ \A c \in Clients : AStutter \/ ACommit(c) \/ AGiveUp(c) => [Atomic!Next]_(Atomic!avars)
      /\ AGiveUpAll \/ AMigrateDone => [Atomic!Next]_(Atomic!avars)
  BY AbstractSteps
<1>1. CASE Migrate
  <2>1. Migrator \in Clients
    BY DEF Clients
  <2>2. CASE StartMigration
    BY <2>1, <2>2, StartMigrationMaps, AbstractSteps
  <2>3. CASE ParseRecord
    BY <1>0, <2>1, <2>3, ParseRecordMaps
  <2>4. CASE Repair
    <3>1. AStutter
      BY <2>4 DEF Repair, AStutter, taskVars, store, left, StillToCommit, InUnitOfWork
    <3> QED BY <1>0, <2>1, <3>1
  <2>5. CASE MigrationDone
    BY <1>0, <2>5, MigrationDoneMaps
  <2>6. CASE Write(Migrator)
    BY <1>0, <2>1, <2>6, WriteMaps
  <2>7. CASE EndOfCall(Migrator)
    BY <1>0, <2>1, <2>7, EndOfCallMaps
  <2> QED BY <1>1, <2>2, <2>3, <2>4, <2>5, <2>6, <2>7 DEF Migrate
<1>2. CASE Crash
  BY <1>0, <1>2, CrashMaps
<1>3. ASSUME NEW c \in Clients, DatabaseError(c) \/ Fail(c) PROVE [Atomic!Next]_(Atomic!avars)
  <2>1. LeaveSection(c) /\ UNCHANGED <<db, migrating>>
    BY <1>3 DEF DatabaseError, Fail, RollBack
  <2> QED BY <1>0, <2>1, LeavingMaps
<1>4. ASSUME NEW t \in Tasks, Step(t) PROVE [Atomic!Next]_(Atomic!avars)
  <2>1. t \in Clients
    BY DEF Clients
  <2>2. CASE Select(t)
    BY <1>0, <2>1, <2>2, ReadingMaps
  <2>3. CASE Decide(t)
    BY <1>0, <2>1, <2>3, DecideMaps, AbstractSteps
  <2>4. CASE Refuse(t)
    BY <1>0, <2>1, <2>4, LeavingMaps DEF Refuse
  <2>5. CASE Write(t)
    BY <1>0, <2>1, <2>5, WriteMaps
  <2>6. CASE EndOfCall(t)
    BY <1>0, <2>1, <2>6, EndOfCallMaps
  <2>7. CASE Finish(t)
    BY <1>0, <2>1, <2>7, FinishMaps
  <2> QED BY <1>4, <2>2, <2>3, <2>4, <2>5, <2>6, <2>7 DEF Step
<1>5. ASSUME NEW t \in Tasks, NEW s \in Work, Start(t, s) PROVE [Atomic!Next]_(Atomic!avars)
  <2>1. t \in Clients
    BY DEF Clients
  <2> QED BY <1>0, <1>5, <2>1, ReadingMaps
<1>6. CASE UNCHANGED vars
  <2>1. AStutter
    BY <1>6 DEF vars, taskVars, AStutter, store, left, StillToCommit, InUnitOfWork
  <2> QED BY <2>1, AbstractSteps
<1> QED BY <1>1, <1>2, <1>3, <1>4, <1>5, <1>6 DEF Next

(* Through statements, rollbacks and crashes the storage shows nothing but  *)
(* whole commits: every aggregate changes as one value, a unit of work all  *)
(* its aggregates at once, and every write builds on the value before it.   *)
THEOREM StorageImplementsAtomicStore == Spec => ImplementsAtomicStore
<1>1. Init => Atomic!Init
  <2> SUFFICES ASSUME Init PROVE Atomic!Init
    OBVIOUS
  <2>1. \A x : Version(db, x) = 0
    <3>1. \A t, o : Found({}, t, o) = 0
      <4> TAKE t, o
      <4>1. RowsIn({}, t, o) = {}
        BY DEF RowsIn
      <4> QED BY <4>1, FS_EmptySet DEF Found
    <3> QED BY <3>1 DEF Init, Version
  <2>2. \A c \in Clients : StillToCommit(c) = <<>>
    BY Unlocked DEF Init, StillToCommit, InUnitOfWork
  <2> QED BY <2>1, <2>2 DEF Atomic!Init, Init
<1>2. IInv /\ [Next]_vars => [Atomic!Next]_(Atomic!avars)
  BY StepRefines
<1> QED BY <1>1, <1>2, InvariantHolds, PTL DEF Spec, ImplementsAtomicStore, Atomic!AtomicStoreSpec
=============================================================================
