------------------------- MODULE CatalogCacheProofs -------------------------
(***************************************************************************)
(* Proofs about CatalogCache, for any number of products, handlers and     *)
(* failures.  That the menu and the lookups agree and show only what is    *)
(* committed holds for any number of replicas.  What the fingerprint tells *)
(* holds for at most one pool to read from: then what a query returns only *)
(* grows, so that a list is no older than the fingerprint it is stored     *)
(* with, and of two tables, one within the other, with the same count      *)
(* neither misses a product.                                               *)
(***************************************************************************)
EXTENDS CatalogCache, FiniteSetTheorems, FunctionTheorems, SequenceTheorems, TLAPS

(* Sets and lists of ids.                                                  *)

LEMMA IdsFinite == ASSUME NEW S \in SUBSET Ids PROVE IsFiniteSet(S) /\ Cardinality(S) \in Nat
<1>1. IsFiniteSet(Ids)
  BY CacheAssumption, FS_Interval DEF Ids
<1>2. IsFiniteSet(S)
  BY <1>1, FS_Subset
<1> QED
  BY <1>2, FS_CardinalityType

\* A finite set of numbers can be listed in order: by rank.
LEMMA CanBeSorted ==
    ASSUME NEW S \in SUBSET Nat, IsFiniteSet(S)
    PROVE  \E s \in SetToSeqs(S) : \A i, j \in DOMAIN s : i < j => s[i] < s[j]
<1> DEFINE n == Cardinality(S)
           Upto(x) == {y \in S : y <= x}
           rank == [x \in S |-> Cardinality(Upto(x))]
<1>1. n \in Nat
  BY FS_CardinalityType
<1>2. ASSUME NEW x \in S
      PROVE  IsFiniteSet(Upto(x)) /\ rank[x] \in 1 .. n
  <2>1. Upto(x) \in SUBSET S /\ x \in Upto(x)
    OBVIOUS
  <2>2. IsFiniteSet(Upto(x)) /\ Cardinality(Upto(x)) <= n
    BY <2>1, FS_Subset
  <2>3. Cardinality(Upto(x)) \in Nat /\ Cardinality(Upto(x)) # 0
    BY <2>1, <2>2, FS_CardinalityType, FS_EmptySet
  <2> QED
    BY <1>1, <2>2, <2>3
<1>3. ASSUME NEW x \in S, NEW y \in S, x < y
      PROVE  rank[x] < rank[y]
  <2>1. Upto(x) \in SUBSET Upto(y) /\ y \in Upto(y) /\ y \notin Upto(x)
    <3>1. x \in Nat /\ y \in Nat /\ S \subseteq Nat
      OBVIOUS
    <3>2. \A z \in S : z <= x => z <= y
      BY <1>3, <3>1
    <3>3. ~(y <= x) /\ y <= y
      BY <1>3, <3>1
    <3> QED
      BY <3>2, <3>3
  <2>2. /\ Cardinality(Upto(x)) <= Cardinality(Upto(y))
        /\ Cardinality(Upto(x)) # Cardinality(Upto(y))
    BY <1>2, <2>1, FS_Subset
  <2> QED
    BY <1>2, <2>2
<1>4. rank \in Injection(S, 1 .. n)
  <2>1. rank \in [S -> 1 .. n]
    BY <1>2
  <2>2. ASSUME NEW x \in S, NEW y \in S, rank[x] = rank[y] PROVE x = y
    <3>1. x < y \/ x = y \/ y < x
      OBVIOUS
    <3>2. rank[x] \in Int /\ rank[y] \in Int
      BY <1>1, <1>2
    <3> HIDE DEF rank
    <3> QED
      BY <1>3, <2>2, <3>1, <3>2
  <2> HIDE DEF rank
  <2> QED
    BY <2>1, <2>2, Fun_IsInj
<1>5. \A k \in 1 .. n : \E x \in S : rank[x] = k
  <2>1. IsFiniteSet(1 .. n) /\ Cardinality(1 .. n) = n
    BY <1>1, FS_Interval
  <2>2. rank \in Surjection(S, 1 .. n)
    BY <1>4, <2>1, FS_Injection
  <2> QED
    BY <2>2 DEF Surjection
<1> DEFINE s == [k \in 1 .. n |-> CHOOSE x \in S : rank[x] = k]
<1>6. \A k \in 1 .. n : s[k] \in S /\ rank[s[k]] = k
  <2> HIDE DEF rank
  <2> QED
    BY <1>5
<1>7. s \in [1 .. n -> S] /\ DOMAIN s = 1 .. n
  BY <1>6
<1>8. ASSUME NEW i \in 1 .. n, NEW j \in 1 .. n, i < j PROVE s[i] < s[j]
  <2> HIDE DEF s, rank
  <2>1. s[i] \in S /\ rank[s[i]] = i /\ s[j] \in S /\ rank[s[j]] = j
    BY <1>6
  <2>2. i \in Nat /\ j \in Nat /\ s[i] \in Nat /\ s[j] \in Nat
    <3>1. i \in Nat /\ j \in Nat
      BY <1>1
    <3>2. S \subseteq Nat
      OBVIOUS
    <3> QED
      BY <2>1, <3>1, <3>2
  <2>3. s[i] # s[j]
    BY <1>8, <2>1, <2>2
  <2>4. ASSUME s[j] < s[i] PROVE FALSE
    <3>1. rank[s[j]] < rank[s[i]]
      BY <1>3, <2>1, <2>4
    <3> QED
      BY <1>8, <2>1, <2>2, <3>1
  <2> QED
    BY <2>2, <2>3, <2>4
<1>9. s \in SetToSeqs(S)
  <2>1. \A i, j \in 1 .. n : i # j => s[i] # s[j]
    <3> HIDE DEF s, rank
    <3> QED
      BY <1>6
  <2> HIDE DEF s
  <2> QED
    BY <1>7, <2>1 DEF SetToSeqs
<1> HIDE DEF s
<1> QED
  BY <1>7, <1>8, <1>9

\* ORDER BY id lists each product of the table once.
LEMMA ByIdLists ==
    ASSUME NEW S \in SUBSET Ids
    PROVE  /\ ById(S) \in Seq(Ids)
           /\ Len(ById(S)) = Cardinality(S)
           /\ ToSet(ById(S)) = S
<1> DEFINE n == Cardinality(S)
           s == ById(S)
<1>1. S \in SUBSET Nat /\ IsFiniteSet(S) /\ n \in Nat
  BY IdsFinite, CacheAssumption DEF Ids
<1>2. s \in SetToSeqs(S)
  BY <1>1, CanBeSorted DEF ById
<1> HIDE DEF s
<1>3. s \in [1 .. n -> S] /\ \A i, j \in 1 .. n : s[i] = s[j] => i = j
  BY <1>2 DEF SetToSeqs
<1>4. s \in Injection(1 .. n, S)
  BY <1>3, Fun_IsInj
<1>5. \A x \in S : \E k \in 1 .. n : s[k] = x
  <2>1. Cardinality(1 .. n) = n
    BY <1>1, FS_Interval
  <2>2. s \in Surjection(1 .. n, S)
    BY <1>1, <1>4, <2>1, FS_Injection
  <2> QED
    BY <2>2 DEF Surjection
<1>6. ToSet(s) = S
  BY <1>3, <1>5 DEF ToSet
<1>7. s \in Seq(Ids) /\ Len(s) = n
  <2>1. s \in Seq(S) /\ Len(s) = n
    BY <1>1, <1>3, IsASeq, LenProperties
  <2> QED
    BY <2>1, SeqMonotonic
<1> QED
  BY <1>6, <1>7 DEF s

LEMMA FingerprintType ==
    ASSUME NEW S \in SUBSET Ids
    PROVE  Fingerprint(S) \in Nat \X Nat
<1>1. Cardinality(S) \in Nat /\ S \in SUBSET Nat /\ IsFiniteSet(S)
  BY IdsFinite, CacheAssumption DEF Ids
<1>2. ASSUME S # {} PROVE Max(S) \in S
  <2>1. PICK s \in SetToSeqs(S) : \A i, j \in DOMAIN s : i < j => s[i] < s[j]
    BY <1>1, CanBeSorted
  <2> DEFINE n == Cardinality(S)
  <2>2. s \in [1 .. n -> S] /\ n # 0 /\ n \in 1 .. n
    BY <1>1, <1>2, FS_EmptySet DEF SetToSeqs
  <2>3. s \in Injection(1 .. n, S)
    BY <2>2, Fun_IsInj DEF SetToSeqs
  <2>4. \A x \in S : \E k \in 1 .. n : s[k] = x
    <3>1. Cardinality(1 .. n) = n
      BY <1>1, FS_Interval
    <3>2. s \in Surjection(1 .. n, S)
      BY <1>1, <2>3, <3>1, FS_Injection
    <3> QED
      BY <3>2 DEF Surjection
  <2>5. ASSUME NEW y \in S PROVE s[n] >= y
    <3>1. PICK k \in 1 .. n : s[k] = y
      BY <2>4
    <3>2. k = n \/ k < n
      BY <1>1
    <3>3. s[n] \in Nat /\ y \in Nat
      BY <1>1, <2>2
    <3> QED
      BY <2>1, <2>2, <3>1, <3>2, <3>3
  <2> QED
    BY <2>2, <2>5 DEF Max
<1> QED
  BY <1>1, <1>2 DEF Fingerprint

\* Of two tables, one within the other, with one count neither is greater.
LEMMA CountTells ==
    ASSUME NEW T \in SUBSET Ids, NEW S \in SUBSET T, Fingerprint(S) = Fingerprint(T)
    PROVE  S = T
<1>1. IsFiniteSet(T) /\ Cardinality(S) = Cardinality(T)
  BY IdsFinite DEF Fingerprint
<1> QED
  BY <1>1, FS_Subset

LEMMA AppendAdds ==
    ASSUME NEW s \in Seq(Ids), NEW id \in Ids
    PROVE  /\ Append(s, id) \in Seq(Ids) /\ Len(Append(s, id)) = Len(s) + 1
           /\ ToSet(Append(s, id)) = ToSet(s) \cup {id}
           /\ \A n \in 0 .. Len(s) : SubSeq(Append(s, id), 1, n) = SubSeq(s, 1, n)
<1>1. /\ Append(s, id) \in Seq(Ids) /\ Len(Append(s, id)) = Len(s) + 1
      /\ \A k \in 1 .. Len(s) : Append(s, id)[k] = s[k]
      /\ Append(s, id)[Len(s) + 1] = id
      /\ DOMAIN s = 1 .. Len(s) /\ Len(s) \in Nat
      /\ DOMAIN Append(s, id) = 1 .. Len(s) + 1
  BY AppendProperties, LenProperties
<1>2. ToSet(Append(s, id)) = ToSet(s) \cup {id}
  <2>1. 1 .. Len(s) + 1 = (1 .. Len(s)) \cup {Len(s) + 1}
    BY <1>1
  <2> QED
    BY <1>1, <2>1 DEF ToSet
<1>3. ASSUME NEW n \in 0 .. Len(s) PROVE SubSeq(Append(s, id), 1, n) = SubSeq(s, 1, n)
  BY <1>1, <1>3
<1> QED
  BY <1>1, <1>2, <1>3

LEMMA PrefixWithin ==
    ASSUME NEW s \in Seq(Ids), NEW m \in 0 .. Len(s), NEW n \in 0 .. m
    PROVE  /\ ToSet(SubSeq(s, 1, n)) \subseteq ToSet(SubSeq(s, 1, m))
           /\ ToSet(SubSeq(s, 1, m)) \subseteq ToSet(s)
           /\ ToSet(s) \subseteq Ids
<1>1. \A k \in 0 .. Len(s) : /\ DOMAIN SubSeq(s, 1, k) = 1 .. k
                            /\ \A i \in 1 .. k : SubSeq(s, 1, k)[i] = s[i]
  OBVIOUS
<1>2. \A k \in 0 .. Len(s) : ToSet(SubSeq(s, 1, k)) = {s[i] : i \in 1 .. k}
  BY <1>1 DEF ToSet
<1>3. n \in 0 .. Len(s) /\ DOMAIN s = 1 .. Len(s) /\ \A i \in 1 .. Len(s) : s[i] \in Ids
  BY LenProperties
<1> QED
  BY <1>2, <1>3 DEF ToSet

-----------------------------------------------------------------------------
(* The types.                                                              *)

StoreType == log \in Seq(Ids) /\ applied \in [Replicas -> 0 .. Len(log)]

\* What happens to the database in a step, whoever takes it.
LEMMA StoreSteps ==
    ASSUME [Next]_vars
    PROVE  \/ \E id \in Ids : Commit(id)
           \/ \E r \in Replicas : Replay(r)
           \/ UNCHANGED storeVars
BY DEF Next, vars, InsertElsewhere, Refresh, RefreshFingerprint, RefreshList, RefreshStore,
       RefreshFails, Create, Lookup, ReadThroughFails, Handler, ReadThrough, UpsertLoad,
       UpsertSwap

\* The table is only ever appended to, and a replica only ever moves on.
LEMMA StoreGrows ==
    ASSUME StoreType, [Next]_vars
    PROVE  /\ StoreType'
           /\ Committed \subseteq Committed'
           /\ \A n \in 0 .. Len(log) : n <= Len(log') /\ SubSeq(log', 1, n) = SubSeq(log, 1, n)
           /\ \A r \in Replicas : applied[r] <= applied'[r]
<1>1. ASSUME NEW id \in Ids, Commit(id)
      PROVE  /\ StoreType'
             /\ Committed \subseteq Committed'
             /\ \A n \in 0 .. Len(log) : n <= Len(log') /\ SubSeq(log', 1, n) = SubSeq(log, 1, n)
             /\ \A r \in Replicas : applied[r] <= applied'[r]
  <2>1. log' = Append(log, id) /\ applied' = applied
    BY <1>1 DEF Commit
  <2>2. /\ log' \in Seq(Ids) /\ Len(log') = Len(log) + 1
        /\ ToSet(log') = ToSet(log) \cup {id}
        /\ \A n \in 0 .. Len(log) : SubSeq(log', 1, n) = SubSeq(log, 1, n)
    BY <2>1, AppendAdds DEF StoreType
  <2>3. Len(log) \in Nat
    BY DEF StoreType
  <2> QED
    BY <2>1, <2>2, <2>3 DEF StoreType, Committed
<1>2. ASSUME NEW r \in Replicas, Replay(r)
      PROVE  /\ StoreType' /\ log' = log
             /\ \A q \in Replicas : applied[q] <= applied'[q]
  <2>1. /\ applied[r] < Len(log) /\ log' = log
        /\ applied' = [applied EXCEPT ![r] = applied[r] + 1]
    BY <1>2 DEF Replay
  <2>2. Len(log) \in Nat /\ \A q \in Replicas : applied[q] \in 0 .. Len(log)
    BY DEF StoreType
  <2>3. \A q \in Replicas : applied'[q] = IF q = r THEN applied[q] + 1 ELSE applied[q]
    BY <2>1 DEF StoreType
  <2> QED
    BY <2>1, <2>2, <2>3 DEF StoreType
<1>3. CASE UNCHANGED storeVars
  BY <1>3 DEF StoreType, storeVars, Committed
<1> QED
  BY <1>1, <1>2, <1>3, StoreSteps DEF StoreType, Committed

\* A query goes to one of the pools, and finds what is committed.
LEMMA Reads ==
    ASSUME StoreType, rr \in 0 .. NumReplicas
    PROVE  /\ NextPool \in 0 .. NumReplicas
           /\ Committed \subseteq Ids
           /\ ReadTable \subseteq Committed
<1>1. Committed \subseteq Ids
  BY DEF StoreType, Committed, ToSet
<1>2. CASE NumReplicas = 0
  BY <1>1, <1>2 DEF NextPool, ReadTable
<1>3. CASE NumReplicas # 0
  <2>1. NumReplicas \in Nat \ {0} /\ rr + 1 \in Nat
    BY <1>3, CacheAssumption
  <2>2. NextPool \in 0 .. NumReplicas - 1
    BY <2>1 DEF NextPool
  <2>3. applied[NextPool + 1] \in 0 .. Len(log)
    BY <2>1, <2>2 DEF StoreType, Replicas
  <2>4. ReadTable \subseteq Committed
    BY <1>3, <2>3, PrefixWithin DEF StoreType, ReadTable, Committed
  <2> QED
    BY <1>1, <2>1, <2>2, <2>4
<1> QED
  BY <1>2, <1>3

\* What an upsert makes of a snapshot.
LEMMA UpsertType ==
    ASSUME NEW s \in Snapshots, NEW id \in Ids
    PROVE  Upserted(s, id) \in Snapshots
<1>1. s.list \in Seq(Ids) /\ s.byID \in SUBSET Ids
  BY DEF Snapshots
<1>2. Append(s.list, id) \in Seq(Ids)
  BY <1>1, AppendAdds
<1> QED
  BY <1>1, <1>2 DEF Upserted, Snapshots

LEMMA TypeInit == Init => TypeOK
BY CacheAssumption DEF Init, TypeOK

LEMMA TypeStep == TypeOK /\ [Next]_vars => TypeOK'
<1> SUFFICES ASSUME TypeOK, [Next]_vars PROVE TypeOK'
  OBVIOUS
<1> USE CacheAssumption
<1>1. StoreType /\ StoreType'
  BY StoreGrows DEF TypeOK, StoreType
<1>2. /\ NextPool \in 0 .. NumReplicas
      /\ ReadTable \in SUBSET Ids
  BY <1>1, Reads DEF TypeOK
<1>3. ASSUME InsertElsewhere PROVE TypeOK'
  BY <1>1, <1>3 DEF InsertElsewhere, TypeOK, StoreType, refreshVars, handlerVars
<1>4. ASSUME NEW r \in Replicas, Replay(r) PROVE TypeOK'
  BY <1>1, <1>4 DEF Replay, TypeOK, StoreType, refreshVars, handlerVars
<1>5. ASSUME RefreshFingerprint PROVE TypeOK'
  <2>1. Fingerprint(ReadTable) \in Nat \X Nat
    BY <1>2, FingerprintType
  <2>2. rpc' \in {"idle", "list"} /\ rfp' \in {NoFP} \cup (Nat \X Nat) /\ rlist' \in Seq(Ids)
    <3>1. CASE RefreshEnds
      BY <3>1 DEF RefreshEnds
    <3>2. CASE ~RefreshEnds
      BY <1>5, <2>1, <3>2 DEF RefreshFingerprint, TypeOK
    <3> QED
      BY <3>1, <3>2
  <2> QED
    BY <1>1, <1>2, <1>5, <2>2 DEF RefreshFingerprint, TypeOK, StoreType, handlerVars
<1>6. ASSUME RefreshList PROVE TypeOK'
  <2>1. ById(ReadTable) \in Seq(Ids)
    BY <1>2, ByIdLists
  <2> QED
    BY <1>1, <1>2, <1>6, <2>1 DEF RefreshList, TypeOK, StoreType, handlerVars
<1>7. ASSUME RefreshStore PROVE TypeOK'
  <2>1. snap' \in Snapshots
    BY <1>7 DEF RefreshStore, Snapshots, TypeOK, ToSet
  <2> QED
    BY <1>1, <1>7, <2>1 DEF RefreshStore, RefreshEnds, TypeOK, StoreType, handlerVars
<1>8. ASSUME RefreshFails PROVE TypeOK'
  BY <1>1, <1>2, <1>8 DEF RefreshFails, RefreshEnds, TypeOK, StoreType, handlerVars
<1>9. ASSUME NEW t \in Threads, Create(t) PROVE TypeOK'
  BY <1>1, <1>9 DEF Create, TypeOK, StoreType, refreshVars
<1>10. ASSUME NEW t \in Threads, Lookup(t) PROVE TypeOK'
  BY <1>1, <1>10 DEF Lookup, TypeOK, StoreType, refreshVars
<1>11. ASSUME NEW t \in Threads, ReadThrough(t) PROVE TypeOK'
  BY <1>1, <1>2, <1>11 DEF ReadThrough, FoundOf, TypeOK, StoreType, refreshVars
<1>12. ASSUME NEW t \in Threads, ReadThroughFails(t) PROVE TypeOK'
  BY <1>1, <1>2, <1>12 DEF ReadThroughFails, TypeOK, StoreType, refreshVars
<1>13. ASSUME NEW t \in Threads, UpsertLoad(t) PROVE TypeOK'
  BY <1>1, <1>13 DEF UpsertLoad, TypeOK, StoreType, refreshVars
<1>14. ASSUME NEW t \in Threads, UpsertSwap(t) PROVE TypeOK'
  <2>1. old' \in [Threads -> {NoSnap} \cup Snapshots]
    BY <1>14 DEF UpsertSwap, TypeOK
  <2>2. CASE Swaps(old[t])
    <3>1. PICK id \in todo[t] : /\ snap' = Upserted(old[t], id)
                               /\ todo' = [todo EXCEPT ![t] = @ \ {id}]
      BY <1>14, <2>2 DEF UpsertSwap
    <3>2. old[t] \in Snapshots /\ id \in Ids
      BY <1>14 DEF UpsertSwap, TypeOK
    <3>3. snap' \in Snapshots
      BY <3>1, <3>2, UpsertType
    <3> QED
      BY <1>1, <1>14, <2>1, <3>1, <3>3 DEF UpsertSwap, TypeOK, StoreType, refreshVars
  <2>3. CASE ~Swaps(old[t])
    BY <1>1, <1>14, <2>1, <2>3 DEF UpsertSwap, TypeOK, StoreType, refreshVars
  <2> QED
    BY <2>2, <2>3
<1>15. CASE UNCHANGED vars
  BY <1>15 DEF vars, storeVars, refreshVars, handlerVars, TypeOK
<1> QED
  BY <1>3, <1>4, <1>5, <1>6, <1>7, <1>8, <1>9, <1>10, <1>11, <1>12, <1>13, <1>14, <1>15
     DEF Next, Refresh, Handler

\* The types of the database, of the snapshot and of every handler's copy.
THEOREM CacheTypeCorrect == Spec => []TypeOK
<1>1. Init => TypeOK BY TypeInit
<1>2. TypeOK /\ [Next]_vars => TypeOK' BY TypeStep
<1> QED BY <1>1, <1>2, PTL DEF Spec

-----------------------------------------------------------------------------
(* The parts of a step that the invariants are about.                      *)

\* Refresh ends, has read a fingerprint or has read a list.
LEMMA RefreshSteps ==
    ASSUME [Next]_vars
    PROVE  \/ UNCHANGED refreshVars
           \/ RefreshEnds
           \/ rpc' = "list" /\ rfp' = Fingerprint(ReadTable)
           \/ /\ rpc = "list" /\ rpc' = "store"
              /\ rlist' = ById(ReadTable) /\ rfp' = rfp
BY DEF Next, vars, InsertElsewhere, Replay, Refresh, RefreshFingerprint, RefreshList,
       RefreshStore, RefreshFails, Create, Lookup, ReadThroughFails, Handler, ReadThrough,
       UpsertLoad, UpsertSwap

\* A snapshot is published by Refresh, or by an upsert over the one it is
\* made from.
LEMMA SnapSteps ==
    ASSUME [Next]_vars
    PROVE  \/ snap' = snap
           \/ /\ rpc = "store" /\ RefreshEnds
              /\ snap' = [list |-> rlist, byID |-> ToSet(rlist), fp |-> rfp]
           \/ \E t \in Threads : \E id \in todo[t] :
                 snap # NoSnap /\ snap' = Upserted(snap, id) /\ UNCHANGED refreshVars
<1>1. ASSUME NEW t \in Threads, UpsertSwap(t), snap' # snap
      PROVE  \E id \in todo[t] :
                 snap # NoSnap /\ snap' = Upserted(snap, id) /\ UNCHANGED refreshVars
  BY <1>1 DEF UpsertSwap, Swaps
<1>2. RefreshStore => /\ rpc = "store" /\ RefreshEnds
                      /\ snap' = [list |-> rlist, byID |-> ToSet(rlist), fp |-> rfp]
  BY DEF RefreshStore
<1>3. \/ snap' = snap \/ RefreshStore \/ \E t \in Threads : UpsertSwap(t)
  BY DEF Next, vars, InsertElsewhere, Replay, Refresh, RefreshFingerprint, RefreshList,
         RefreshFails, Create, Lookup, ReadThroughFails, Handler, ReadThrough, UpsertLoad
<1> QED
  BY <1>1, <1>2, <1>3

\* Only a refresh takes a product off the menu, for any number of handlers
\* that upsert at once: the swap is over the snapshot that was copied.
THEOREM UpsertsSurviveUpserts == Spec => UpsertsKeepUpserts
<1>1. ASSUME [Next]_vars
      PROVE  [snap # NoSnap => \/ snap.byID \subseteq snap'.byID
                               \/ rpc = "store" /\ rpc' = "idle"]_vars
  <2>1. ASSUME NEW id PROVE snap.byID \subseteq Upserted(snap, id).byID
    BY DEF Upserted
  <2> QED
    BY <1>1, <2>1, SnapSteps DEF RefreshEnds
<1> QED
  BY <1>1, PTL DEF Spec, UpsertsKeepUpserts

-----------------------------------------------------------------------------
(* The menu and the lookups agree.                                         *)

ListInv == /\ ListMatchesMap
           /\ rpc = "store" => Len(rlist) = Cardinality(ToSet(rlist))

\* An upsert keeps the list and the map of a snapshot together.
LEMMA UpsertMatches ==
    ASSUME NEW s \in Snapshots, NEW id \in Ids,
           ToSet(s.list) = s.byID, Len(s.list) = Cardinality(s.byID)
    PROVE  LET u == Upserted(s, id)
           IN  ToSet(u.list) = u.byID /\ Len(u.list) = Cardinality(u.byID)
<1>1. s.list \in Seq(Ids) /\ s.byID \in SUBSET Ids
  BY DEF Snapshots
<1>2. Cardinality(s.byID \cup {id}) = IF id \in s.byID THEN Cardinality(s.byID)
                                      ELSE Cardinality(s.byID) + 1
  BY <1>1, IdsFinite, FS_AddElement
<1>3. CASE id \in s.byID
  BY <1>2, <1>3 DEF Upserted
<1>4. CASE id \notin s.byID
  <2>1. /\ ToSet(Append(s.list, id)) = ToSet(s.list) \cup {id}
        /\ Len(Append(s.list, id)) = Len(s.list) + 1
    BY <1>1, AppendAdds
  <2> QED
    BY <1>2, <1>4, <2>1 DEF Upserted
<1> QED
  BY <1>3, <1>4

LEMMA ListInit == Init => ListInv
BY DEF Init, ListInv, ListMatchesMap

LEMMA ListStep == TypeOK /\ ListInv /\ [Next]_vars => ListInv'
<1> SUFFICES ASSUME TypeOK, ListInv, [Next]_vars PROVE ListInv'
  OBVIOUS
<1>1. rpc' = "store" => Len(rlist') = Cardinality(ToSet(rlist'))
  <2>1. ReadTable \in SUBSET Ids
    BY Reads DEF TypeOK, StoreType
  <2>2. Len(ById(ReadTable)) = Cardinality(ToSet(ById(ReadTable)))
    BY <2>1, ByIdLists
  <2> QED
    BY <2>2, RefreshSteps DEF ListInv, refreshVars, RefreshEnds
<1>2. ListMatchesMap'
  <2>1. CASE snap' = snap
    BY <2>1 DEF ListInv, ListMatchesMap
  <2>2. CASE rpc = "store" /\ snap' = [list |-> rlist, byID |-> ToSet(rlist), fp |-> rfp]
    BY <2>2 DEF ListInv, ListMatchesMap
  <2>3. ASSUME NEW t \in Threads, NEW id \in todo[t], snap # NoSnap, snap' = Upserted(snap, id)
        PROVE  ListMatchesMap'
    <3>1. snap \in Snapshots /\ id \in Ids
      BY <2>3 DEF TypeOK
    <3> QED
      BY <2>3, <3>1, UpsertMatches DEF ListInv, ListMatchesMap
  <2> QED
    BY <2>1, <2>2, <2>3, SnapSteps
<1> QED
  BY <1>1, <1>2 DEF ListInv

\* "The list never duplicates": the menu names each product of the map once,
\* whatever upserts and refreshes come between each other.
THEOREM MenuAgreesWithLookups == Spec => []ListMatchesMap
<1>1. ListInv => ListMatchesMap BY DEF ListInv
<1> QED BY ListInit, ListStep, CacheTypeCorrect, <1>1, PTL DEF Spec

-----------------------------------------------------------------------------
(* Nothing is shown that is not committed.                                 *)

SeenInv == /\ NoPhantom
           /\ ToSet(rlist) \subseteq Committed
           /\ \A t \in Threads : todo[t] \subseteq Committed /\ created[t] \subseteq Committed

LEMMA SeenInit == Init => SeenInv
BY DEF Init, SeenInv, NoPhantom, ToSet

\* What a handler is about to upsert it has inserted, or found.
LEMMA HandlerSteps ==
    ASSUME TypeOK, [Next]_vars, NEW t \in Threads
    PROVE  /\ todo'[t] \subseteq todo[t] \cup Committed'
           /\ created'[t] \subseteq created[t] \cup Committed'
<1>1. Committed \subseteq Committed' /\ ReadTable \subseteq Committed
  BY StoreGrows, Reads DEF TypeOK, StoreType
<1>2. ASSUME NEW u \in Threads, Create(u)
      PROVE  /\ todo'[t] \subseteq todo[t] \cup Committed'
             /\ created'[t] \subseteq created[t] \cup Committed'
  <2>1. PICK id \in Ids : /\ Commit(id)
                          /\ todo' = [todo EXCEPT ![u] = {id}]
                          /\ created' = [created EXCEPT ![u] = @ \cup {id}]
    BY <1>2 DEF Create
  <2>2. id \in Committed'
    BY <2>1, AppendAdds DEF Commit, Committed, TypeOK
  <2> QED
    BY <2>1, <2>2 DEF TypeOK
<1>3. ASSUME NEW u \in Threads, ReadThrough(u)
      PROVE  todo'[t] \subseteq todo[t] \cup Committed' /\ created' = created
  BY <1>1, <1>3 DEF ReadThrough, FoundOf, TypeOK
<1>4. ASSUME NEW u \in Threads, UpsertSwap(u)
      PROVE  todo'[t] \subseteq todo[t] /\ created' = created
  BY <1>4 DEF UpsertSwap, TypeOK
<1>5. \/ todo' = todo /\ created' = created
      \/ \E u \in Threads : Create(u) \/ ReadThrough(u) \/ UpsertSwap(u)
  BY DEF Next, vars, InsertElsewhere, Replay, Refresh, RefreshFingerprint, RefreshList,
         RefreshStore, RefreshFails, Lookup, ReadThroughFails, Handler, UpsertLoad, handlerVars
<1> QED
  BY <1>2, <1>3, <1>4, <1>5

LEMMA SeenStep == TypeOK /\ SeenInv /\ [Next]_vars => SeenInv'
<1> SUFFICES ASSUME TypeOK, SeenInv, [Next]_vars PROVE SeenInv'
  OBVIOUS
<1>1. /\ Committed \subseteq Committed'
      /\ ReadTable \subseteq Committed /\ ReadTable \in SUBSET Ids
  BY StoreGrows, Reads DEF TypeOK, StoreType
<1>2. ToSet(rlist') \subseteq Committed'
  <2>1. ToSet(ById(ReadTable)) = ReadTable
    BY <1>1, ByIdLists
  <2>2. ToSet(<< >>) = {}
    BY DEF ToSet
  <2>3. rlist' = rlist \/ rlist' = << >> \/ rlist' = ById(ReadTable)
    BY DEF Next, vars, InsertElsewhere, Replay, Refresh, RefreshFingerprint, RefreshList,
           RefreshStore, RefreshFails, RefreshEnds, refreshVars, Create, Lookup,
           ReadThroughFails, Handler, ReadThrough, UpsertLoad, UpsertSwap
  <2> QED
    BY <1>1, <2>1, <2>2, <2>3 DEF SeenInv
<1>3. \A t \in Threads : todo'[t] \subseteq Committed' /\ created'[t] \subseteq Committed'
  BY <1>1, HandlerSteps DEF SeenInv
<1>4. NoPhantom'
  <2>1. ASSUME NEW t \in Threads, NEW id \in todo[t], snap # NoSnap, snap' = Upserted(snap, id)
        PROVE  snap'.byID \subseteq Committed'
    BY <1>1, <2>1 DEF SeenInv, NoPhantom, Upserted
  <2> QED
    BY <1>1, <2>1, SnapSteps DEF SeenInv, NoPhantom
<1> QED
  BY <1>2, <1>3, <1>4 DEF SeenInv

\* No product is served that the primary has not committed, whichever pool
\* a query has gone to and however far behind it was.
THEOREM NothingPhantom == Spec => []NoPhantom
<1>1. SeenInv => NoPhantom BY DEF SeenInv
<1> QED BY SeenInit, SeenStep, CacheTypeCorrect, <1>1, PTL DEF Spec

-----------------------------------------------------------------------------
(* What the fingerprint tells, with at most one pool to read from.         *)

\* That pool, wherever the cursor stands.
Pool == IF NumReplicas = 0 THEN Committed ELSE ToSet(SubSeq(log, 1, applied[1]))

LEMMA PoolNow ==
    ASSUME TypeOK, NumReplicas <= 1
    PROVE  ReadTable = Pool /\ Pool \subseteq Committed /\ Committed \subseteq Ids
<1>1. NumReplicas = 0 \/ NumReplicas = 1
  BY CacheAssumption
<1>2. NumReplicas = 1 => NextPool + 1 = 1
  BY DEF NextPool, TypeOK
<1>3. ReadTable = Pool
  BY <1>1, <1>2 DEF ReadTable, Pool
<1> QED
  BY <1>3, Reads DEF TypeOK, StoreType

LEMMA PoolGrows ==
    ASSUME TypeOK, NumReplicas <= 1, [Next]_vars
    PROVE  Pool \subseteq Pool'
<1>1. CASE NumReplicas = 0
  BY <1>1, StoreGrows DEF TypeOK, StoreType, Pool
<1>2. CASE NumReplicas = 1
  <2>1. /\ applied[1] \in 0 .. Len(log) /\ applied'[1] \in 0 .. Len(log')
        /\ applied[1] <= applied'[1] /\ log' \in Seq(Ids)
        /\ SubSeq(log', 1, applied[1]) = SubSeq(log, 1, applied[1])
    BY <1>2, StoreGrows DEF TypeOK, StoreType, Replicas
  <2>2. applied[1] \in 0 .. applied'[1]
    BY <2>1
  <2>3. ToSet(SubSeq(log', 1, applied[1])) \subseteq ToSet(SubSeq(log', 1, applied'[1]))
    BY <2>1, <2>2, PrefixWithin
  <2>4. /\ Pool = ToSet(SubSeq(log, 1, applied[1]))
        /\ Pool' = ToSet(SubSeq(log', 1, applied'[1]))
    BY <1>2 DEF Pool
  <2> QED
    BY <2>1, <2>3, <2>4
<1> QED
  BY <1>1, <1>2, CacheAssumption

\* The list is that of a table no older than the one of the fingerprint.
ListedFor(list, print) ==
    \E T \in SUBSET Pool : list = ById(T) /\ \E S \in SUBSET T : print = Fingerprint(S)

FreshInv == /\ rpc = "list" => \E S \in SUBSET Pool : rfp = Fingerprint(S)
            /\ rpc = "store" => ListedFor(rlist, rfp)
            /\ snap # NoSnap /\ snap.fp # NoFP => ListedFor(snap.list, snap.fp)

LEMMA FreshInit == Init => FreshInv
BY DEF Init, FreshInv

LEMMA FreshStep == TypeOK /\ FreshInv /\ NumReplicas <= 1 /\ [Next]_vars => FreshInv'
<1> SUFFICES ASSUME TypeOK, FreshInv, NumReplicas <= 1, [Next]_vars PROVE FreshInv'
  OBVIOUS
<1>1. ReadTable = Pool /\ Pool \subseteq Pool'
  BY PoolNow, PoolGrows
<1>2. rpc' = "list" => \E S \in SUBSET Pool' : rfp' = Fingerprint(S)
  <2>1. rpc' = "list" => \E S \in SUBSET Pool : rfp' = Fingerprint(S)
    BY <1>1, RefreshSteps DEF FreshInv, refreshVars, RefreshEnds
  <2> QED
    BY <1>1, <2>1
<1>3. rpc' = "store" => ListedFor(rlist, rfp)'
  <2>1. CASE UNCHANGED refreshVars
    BY <1>1, <2>1 DEF FreshInv, ListedFor, refreshVars
  <2>2. CASE rpc = "list" /\ rlist' = ById(ReadTable) /\ rfp' = rfp
    BY <1>1, <2>2 DEF FreshInv, ListedFor
  <2> QED
    BY <2>1, <2>2, RefreshSteps DEF RefreshEnds
<1>4. ASSUME snap' # NoSnap, snap'.fp # NoFP PROVE ListedFor(snap.list, snap.fp)'
  <2>1. CASE snap' = snap
    BY <1>1, <1>4, <2>1 DEF FreshInv, ListedFor
  <2>2. CASE rpc = "store" /\ snap' = [list |-> rlist, byID |-> ToSet(rlist), fp |-> rfp]
    BY <1>1, <2>2 DEF FreshInv, ListedFor
  <2>3. ASSUME NEW id, snap' = Upserted(snap, id) PROVE FALSE
    BY <1>4, <2>3 DEF Upserted
  <2> QED
    BY <2>1, <2>2, <2>3, SnapSteps
<1> QED
  BY <1>2, <1>3, <1>4 DEF FreshInv

\* A list whose fingerprint is that of a table which has all of it names all
\* of the table.
LEMMA SamePrint ==
    ASSUME NEW T \in SUBSET Ids, Pool \subseteq T, FreshInv, snap # NoSnap,
           snap.fp = Fingerprint(T)
    PROVE  snap.list = ById(T)
<1>1. snap.fp # NoFP
  BY FingerprintType, CacheAssumption
<1>2. PICK L \in SUBSET Pool : /\ snap.list = ById(L)
                               /\ \E S \in SUBSET L : snap.fp = Fingerprint(S)
  BY <1>1 DEF FreshInv, ListedFor
<1>3. PICK S \in SUBSET L : snap.fp = Fingerprint(S)
  BY <1>2
<1>4. L \in SUBSET T /\ S \in SUBSET T
  OBVIOUS
<1>5. S = T
  BY <1>3, <1>4, CountTells
<1> QED
  BY <1>2, <1>4, <1>5

LEMMA CacheFresh == NumReplicas <= 1 => (Spec => [](TypeOK /\ FreshInv))
<1> SUFFICES ASSUME NumReplicas <= 1 PROVE Spec => [](TypeOK /\ FreshInv)
  OBVIOUS
<1>1. FreshInv /\ TypeOK /\ [Next]_vars => FreshInv' BY FreshStep
<1> QED BY FreshInit, <1>1, CacheTypeCorrect, PTL DEF Spec

\* The refresh that is skipped because the fingerprint has not changed would
\* have changed nothing, with the primary or one replica to read from.  (With
\* two it may go by the count of one and the list of the other.)
THEOREM SkippingIsSound == NumReplicas <= 1 => (Spec => []SkipIsSound)
<1> SUFFICES ASSUME NumReplicas <= 1 PROVE Spec => []SkipIsSound
  OBVIOUS
<1>1. TypeOK /\ FreshInv => SkipIsSound
  <2> SUFFICES ASSUME TypeOK, FreshInv PROVE SkipIsSound
    OBVIOUS
  <2>1. ReadTable = Pool /\ Pool \in SUBSET Ids
    BY PoolNow
  <2> QED
    BY <2>1, SamePrint DEF SkipIsSound
<1> QED
  BY <1>1, CacheFresh, PTL

\* A product that was created here and is not on the menu, because a refresh
\* had read before it was committed, is missed for as long as the next
\* refresh takes: the fingerprint is not that of the table.
THEOREM LostWritesNoticed == NumReplicas <= 1 => (Spec => []LostWriteIsNoticed)
<1> SUFFICES ASSUME NumReplicas <= 1 PROVE Spec => []LostWriteIsNoticed
  OBVIOUS
<1>1. TypeOK /\ FreshInv /\ SeenInv => LostWriteIsNoticed
  <2> SUFFICES ASSUME TypeOK, FreshInv, SeenInv, snap # NoSnap,
                      snap.fp = Fingerprint(Committed)
               PROVE  Acknowledged \subseteq ToSet(snap.list)
    BY DEF LostWriteIsNoticed
  <2>1. Pool \subseteq Committed /\ Committed \in SUBSET Ids
    BY PoolNow
  <2>2. ToSet(snap.list) = Committed
    BY <2>1, SamePrint, ByIdLists
  <2> QED
    BY <2>2 DEF Acknowledged, SeenInv
<1>2. Spec => []SeenInv
  BY SeenInit, SeenStep, CacheTypeCorrect, PTL DEF Spec
<1> QED
  BY <1>1, <1>2, CacheFresh, PTL
=============================================================================
