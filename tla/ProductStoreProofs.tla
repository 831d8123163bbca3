------------------------- MODULE ProductStoreProofs -------------------------
(***************************************************************************)
(* Proofs about the stores of products.  Of the one in memory: that ids    *)
(* never collide, that its list shows each product once, and that no       *)
(* product is ever replaced, for any products, explicit ids and numbers of *)
(* calls.  Of PostgreSQL's table while instances seed it: that a seeding   *)
(* which comes to its end leaves the whole catalogue, for any number of    *)
(* instances, clients, crashes and rows; that the identity sequence stays  *)
(* ahead of the ids as long as one instance has the table to itself; and   *)
(* that the table, with one client, then implements the store in memory.   *)
(***************************************************************************)
EXTENDS Seeding, FiniteSetTheorems, SequenceTheorems, TLAPS

CONSTANTS Products, ExplicitIds, MaxProducts \* of MemoryStore
VARIABLES byID, order, nextID

Memory == INSTANCE MemoryStore

-----------------------------------------------------------------------------
(* The store in memory.                                                    *)

\* What callers owe: the catalogue's ids are positive.
PositiveIds == ExplicitIds \subseteq Nat \ {0}

\* The types, which the other invariants need: ids are positive.
StoreType == /\ DOMAIN byID \subseteq Nat
             /\ order \in Seq(DOMAIN byID)
             /\ nextID \in Nat

\* Together with the types, what is preserved by every call.
StoreInv == StoreType /\ Memory!NeverCollides /\ Memory!ListedOnce

\* Put of an id that is free keeps the list and the map together.
LEMMA PutFree ==
    ASSUME StoreInv, NEW id \in Nat, NEW np, id \notin DOMAIN byID, Memory!Put(id, np)
    PROVE  /\ DOMAIN byID' = DOMAIN byID \cup {id}
           /\ \A d \in DOMAIN byID : byID'[d] = byID[d]
           /\ order' \in Seq(DOMAIN byID')
           /\ Memory!ListedOnce'
<1>1. DOMAIN byID' = DOMAIN byID \cup {id} BY DEF Memory!Put
<1>2. \A d \in DOMAIN byID : byID'[d] = byID[d] BY DEF Memory!Put
<1>3. /\ order \in Seq(DOMAIN byID')
      /\ order' = Append(order, id)
      /\ id \in DOMAIN byID'
  BY <1>1 DEF Memory!Put, StoreInv, StoreType
<1>4. order' \in Seq(DOMAIN byID') BY <1>3
<1>5. /\ Len(order') = Len(order) + 1
      /\ Len(order) \in Nat
      /\ order'[Len(order) + 1] = id
      /\ \A n \in 1 .. Len(order) : order'[n] = order[n]
  BY <1>3
<1>6. \A n \in 1 .. Len(order) : order[n] \in DOMAIN byID
  BY DEF StoreInv, Memory!ListedOnce
<1>7. {order'[n] : n \in 1 .. Len(order')} = DOMAIN byID'
  <2>1. ASSUME NEW n \in 1 .. Len(order') PROVE order'[n] \in DOMAIN byID'
    BY <1>3, <1>4, <1>5
  <2>2. ASSUME NEW d \in DOMAIN byID' PROVE \E n \in 1 .. Len(order') : order'[n] = d
    <3>1. CASE d = id BY <3>1, <1>5
    <3>2. CASE d # id
      <4>1. d \in {order[n] : n \in 1 .. Len(order)}
        BY <1>1, <2>2, <3>2 DEF StoreInv, Memory!ListedOnce
      <4>2. PICK n \in 1 .. Len(order) : order[n] = d BY <4>1
      <4>3. n \in 1 .. Len(order') /\ order'[n] = d BY <4>2, <1>5
      <4> QED BY <4>3
    <3> QED BY <3>1, <3>2
  <2> QED BY <2>1, <2>2
<1>8. ASSUME NEW m \in 1 .. Len(order'), NEW n \in 1 .. Len(order'), order'[m] = order'[n]
      PROVE  m = n
  <2>1. CASE m \in 1 .. Len(order) /\ n \in 1 .. Len(order)
    BY <2>1, <1>5, <1>8 DEF StoreInv, Memory!ListedOnce
  <2>2. CASE m = Len(order) + 1 /\ n \in 1 .. Len(order)
    BY <2>2, <1>5, <1>6, <1>8
  <2>3. CASE n = Len(order) + 1 /\ m \in 1 .. Len(order)
    BY <2>3, <1>5, <1>6, <1>8
  <2>4. CASE m = Len(order) + 1 /\ n = Len(order) + 1 BY <2>4
  <2> QED BY <1>5, <2>1, <2>2, <2>3, <2>4
<1> QED BY <1>1, <1>2, <1>4, <1>7, <1>8 DEF Memory!ListedOnce

LEMMA StoreInit == Memory!Init => StoreInv
BY DEF Memory!Init, StoreInv, StoreType, Memory!NeverCollides, Memory!ListedOnce

\* Both calls preserve the invariant, and leave what is stored as it is.
LEMMA StoreStep ==
    ASSUME StoreInv, PositiveIds, [Memory!Next]_Memory!vars
    PROVE  /\ StoreInv'
           /\ \A id \in DOMAIN byID : id \in DOMAIN byID' /\ byID'[id] = byID[id]
<1>1. CASE UNCHANGED Memory!vars
  BY <1>1 DEF Memory!vars, StoreInv, StoreType, Memory!NeverCollides, Memory!ListedOnce
<1>2. ASSUME NEW np \in Products, Memory!Create(np)
      PROVE  StoreInv' /\ \A id \in DOMAIN byID : id \in DOMAIN byID' /\ byID'[id] = byID[id]
  <2>1. nextID \in Nat /\ nextID \notin DOMAIN byID
    BY DEF StoreInv, StoreType, Memory!NeverCollides
  <2>2. Memory!Put(nextID, np) /\ nextID' = nextID + 1 BY <1>2 DEF Memory!Create
  <2>3. /\ DOMAIN byID' = DOMAIN byID \cup {nextID}
        /\ \A d \in DOMAIN byID : byID'[d] = byID[d]
        /\ order' \in Seq(DOMAIN byID')
        /\ Memory!ListedOnce'
    BY <2>1, <2>2, PutFree
  <2> QED BY <2>1, <2>2, <2>3 DEF StoreInv, StoreType, Memory!NeverCollides
<1>3. ASSUME NEW np \in Products, NEW id \in ExplicitIds, Memory!CreateWithID(id, np)
      PROVE  StoreInv' /\ \A d \in DOMAIN byID : d \in DOMAIN byID' /\ byID'[d] = byID[d]
  <2>1. id \in Nat /\ id \notin DOMAIN byID
    BY <1>3 DEF Memory!CreateWithID, Memory!IsFree, PositiveIds
  <2>2. Memory!Put(id, np) BY <1>3 DEF Memory!CreateWithID
  <2>3. /\ DOMAIN byID' = DOMAIN byID \cup {id}
        /\ \A d \in DOMAIN byID : byID'[d] = byID[d]
        /\ order' \in Seq(DOMAIN byID')
        /\ Memory!ListedOnce'
    BY <2>1, <2>2, PutFree
  <2>4. nextID' \in Nat /\ id < nextID' /\ nextID' >= nextID
    BY <1>3, <2>1 DEF Memory!CreateWithID, Memory!NextAfter, StoreInv, StoreType
  <2> QED BY <2>1, <2>3, <2>4 DEF StoreInv, StoreType, Memory!NeverCollides
<1> QED BY <1>1, <1>2, <1>3 DEF Memory!Next

\* The invariant of the store, for callers that keep to positive ids.
THEOREM StoreInvariant == PositiveIds => (Memory!Spec => []StoreInv)
<1> SUFFICES ASSUME PositiveIds PROVE Memory!Spec => []StoreInv
  OBVIOUS
<1>1. StoreInv /\ [Memory!Next]_Memory!vars => StoreInv' BY StoreStep
<1> QED BY StoreInit, <1>1, PTL DEF Memory!Spec

\* The id that Create takes next is beyond every id in the store: what the
\* comment of CreateWithID says of its counter, for every sequence of calls.
THEOREM IdsNeverCollide == PositiveIds => (Memory!Spec => []Memory!NeverCollides)
<1> SUFFICES ASSUME PositiveIds PROVE Memory!Spec => []Memory!NeverCollides
  OBVIOUS
<1>1. StoreInv => Memory!NeverCollides BY DEF StoreInv
<1>2. Memory!Spec => []StoreInv BY StoreInvariant
<1> QED BY <1>1, <1>2, PTL

\* List, which goes by the order of insertion, shows each product once.
THEOREM EachListedOnce == PositiveIds => (Memory!Spec => []Memory!ListedOnce)
<1> SUFFICES ASSUME PositiveIds PROVE Memory!Spec => []Memory!ListedOnce
  OBVIOUS
<1>1. StoreInv => Memory!ListedOnce BY DEF StoreInv
<1>2. Memory!Spec => []StoreInv BY StoreInvariant
<1> QED BY <1>1, <1>2, PTL

\* Neither call replaces a product, although both assign to the map.
THEOREM ProductsStay == PositiveIds => (Memory!Spec => Memory!NeverReplaced)
<1> SUFFICES ASSUME PositiveIds PROVE Memory!Spec => Memory!NeverReplaced
  OBVIOUS
<1>1. StoreInv /\ [Memory!Next]_Memory!vars
        => [\A id \in DOMAIN byID : id \in DOMAIN byID' /\ byID'[id] = byID[id]]_Memory!vars
  BY StoreStep
<1>2. Memory!Spec => []StoreInv BY StoreInvariant
<1> QED BY <1>1, <1>2, PTL DEF Memory!Spec, Memory!NeverReplaced

-----------------------------------------------------------------------------
(* The table, while instances seed it.                                     *)

Busy == {"seeding", "inserted", "setting"}
Statuses == Busy \cup {"down", "skipped", "seeded"}

\* Of the rows an instance has gone through none is missing: products are
\* never deleted.
Behind(i) == /\ ipc[i] = "seeding" => 1 .. row[i] - 1 \subseteq DOMAIN rows
             /\ ipc[i] \in {"inserted", "setting"} => 1 .. row[i] \subseteq DOMAIN rows
             /\ ipc[i] = "seeded" => 1 .. NumSeeds \subseteq DOMAIN rows

\* There is a greatest id, as soon as there is one.
HasTop == DOMAIN rows # {} => \E n \in DOMAIN rows : \A d \in DOMAIN rows : d <= n

SeedingInv == TypeOK /\ HasTop /\ \A i \in Instances : Behind(i)

LEMMA SeedingInit == Init => SeedingInv
<1> SUFFICES ASSUME Init PROVE SeedingInv
  OBVIOUS
<1> USE SeedingAssumption
<1>1. seq \in Nat /\ DOMAIN rows = 1 .. seq /\ \A d \in DOMAIN rows : rows[d] = "client"
  BY DEF Init, Populated
<1>2. inserted \in Seq(DOMAIN rows)
  <2>1. inserted = [d \in 1 .. seq |-> d]
    BY DEF Init
  <2> QED
    BY <1>1, <2>1, IsASeq
<1>3. TypeOK
  BY <1>1, <1>2 DEF Init, TypeOK
<1>4. HasTop
  <2>1. 1 .. seq # {} => seq \in 1 .. seq /\ \A d \in 1 .. seq : d <= seq
    BY <1>1
  <2> QED
    BY <1>1, <2>1 DEF HasTop
<1> QED
  BY <1>3, <1>4 DEF Init, SeedingInv, Behind

\* What setval reads.
LEMMA TopOfIds ==
    ASSUME SeedingInv, DOMAIN rows # {}
    PROVE  SetvalTo \in DOMAIN rows /\ \A d \in DOMAIN rows : d <= SetvalTo
BY DEF SeedingInv, HasTop, SetvalTo

\* An INSERT keeps every row that there is.
LEMMA PutKeeps ==
    ASSUME SeedingInv, NEW id \in Nat \ {0}, NEW by \in {"seed", "client"}, Put(id, by)
    PROVE  /\ DOMAIN rows' = DOMAIN rows \cup {id}
           /\ \A d \in DOMAIN rows' : rows'[d] \in {"seed", "client"}
           /\ inserted' \in Seq(DOMAIN rows')
           /\ HasTop'
<1>1. CASE id \in DOMAIN rows
  <2>1. rows' = [rows EXCEPT ![id] = rows[id]] /\ inserted' = inserted
    BY <1>1 DEF Put, OnConflict
  <2>2. DOMAIN rows' = DOMAIN rows
    BY <2>1
  <2> QED
    BY <1>1, <2>1, <2>2 DEF SeedingInv, TypeOK, HasTop
<1>2. CASE id \notin DOMAIN rows
  <2>1. /\ rows' = [d \in DOMAIN rows \cup {id} |-> IF d = id THEN by ELSE rows[d]]
        /\ inserted' = Append(inserted, id)
    BY <1>2 DEF Put
  <2>2. DOMAIN rows' = DOMAIN rows \cup {id}
    BY <2>1
  <2>3. \A d \in DOMAIN rows' : rows'[d] \in {"seed", "client"}
    BY <2>1 DEF SeedingInv, TypeOK
  <2>4. inserted' \in Seq(DOMAIN rows')
    <3>1. inserted \in Seq(DOMAIN rows')
      BY <2>2, SeqMonotonic DEF SeedingInv, TypeOK
    <3> QED
      BY <2>1, <2>2, <3>1, AppendProperties
  <2>5. HasTop'
    <3>1. DOMAIN rows \subseteq Nat
      BY DEF SeedingInv, TypeOK
    <3>2. CASE DOMAIN rows = {}
      BY <2>2, <3>2 DEF HasTop
    <3>3. CASE DOMAIN rows # {}
      <4>1. PICK n \in DOMAIN rows : \A d \in DOMAIN rows : d <= n
        BY <3>3 DEF SeedingInv, HasTop
      <4>2. CASE id <= n
        BY <2>2, <4>1, <4>2 DEF HasTop
      <4>3. CASE n <= id
        <5>1. \A d \in DOMAIN rows' : d <= id
          BY <2>2, <3>1, <4>1, <4>3
        <5> QED
          BY <2>2, <5>1 DEF HasTop
      <4> QED
        BY <3>1, <4>2, <4>3
    <3> QED
      BY <3>2, <3>3
  <2> QED
    BY <2>2, <2>3, <2>4, <2>5
<1> QED
  BY <1>1, <1>2

LEMMA RowAdvances ==
    ASSUME SeedingInv, NEW i \in Instances, Advance(i)
    PROVE  /\ row' \in [Instances -> 1 .. NumSeeds]
           /\ row'[i] = IF row[i] = NumSeeds THEN NumSeeds ELSE row[i] + 1
           /\ \A k \in Instances : k # i => row'[k] = row[k]
BY SeedingAssumption DEF Advance, SeedingInv, TypeOK

LEMMA InstanceMoves ==
    ASSUME SeedingInv, NEW i \in Instances, NEW to \in Statuses, Moves(i, to)
    PROVE  /\ ipc' \in [Instances -> Statuses]
           /\ ipc'[i] = to /\ \A k \in Instances : k # i => ipc'[k] = ipc[k]
BY DEF Moves, SeedingInv, TypeOK, Statuses, Busy

LEMMA StartKeeps == ASSUME SeedingInv, NEW i \in Instances, Start(i) PROVE SeedingInv'
<1>1. PICK to \in {"skipped", "seeding"} : Moves(i, to)
  BY DEF Start
<1>2. /\ ipc' \in [Instances -> Statuses]
      /\ ipc'[i] = to /\ \A k \in Instances : k # i => ipc'[k] = ipc[k]
  BY <1>1, InstanceMoves DEF Statuses, Busy
<1>3. row' = [row EXCEPT ![i] = 1] /\ UNCHANGED <<rows, inserted, seq, top, drawn, crashes, creates>>
  BY DEF Start, table, budgets
<1> QED
  BY <1>2, <1>3, SeedingAssumption DEF SeedingInv, TypeOK, HasTop, Behind, Statuses, Busy

LEMMA InsertSeedKeeps == ASSUME SeedingInv, NEW i \in Instances, InsertSeed(i) PROVE SeedingInv'
<1> DEFINE n == row[i]
<1> USE SeedingAssumption
<1>1. n \in Nat \ {0} /\ n \in 1 .. NumSeeds /\ ipc[i] = "seeding" /\ Put(n, "seed")
      /\ 1 .. n - 1 \subseteq DOMAIN rows /\ UNCHANGED <<seq, top, drawn, crashes, creates>>
  BY DEF InsertSeed, budgets, SeedingInv, TypeOK, Behind
<1>2. /\ DOMAIN rows' = DOMAIN rows \cup {n} /\ HasTop'
      /\ \A d \in DOMAIN rows' : rows'[d] \in {"seed", "client"}
      /\ inserted' \in Seq(DOMAIN rows')
  BY <1>1, PutKeeps
<1>3. 1 .. n \subseteq DOMAIN rows' /\ DOMAIN rows' \subseteq Nat \ {0}
  <2>1. \A m \in 1 .. n : m \in 1 .. n - 1 \/ m = n
    BY <1>1
  <2> QED
    BY <1>1, <1>2, <2>1 DEF SeedingInv, TypeOK
<1>4. CASE n \in DOMAIN rows
  <2>1. Advance(i) /\ Moves(i, AfterConflict(i))
    BY <1>4 DEF InsertSeed
  <2>2. AfterConflict(i) = (IF n = NumSeeds THEN "seeded" ELSE "seeding")
    BY DEF AfterConflict
  <2>3. /\ ipc' \in [Instances -> Statuses]
        /\ ipc'[i] = (IF n = NumSeeds THEN "seeded" ELSE "seeding")
        /\ \A k \in Instances : k # i => ipc'[k] = ipc[k]
    BY <2>1, <2>2, InstanceMoves DEF Statuses, Busy
  <2>4. /\ row' \in [Instances -> 1 .. NumSeeds]
        /\ row'[i] = IF n = NumSeeds THEN NumSeeds ELSE n + 1
        /\ \A k \in Instances : k # i => row'[k] = row[k]
    BY <2>1, RowAdvances
  <2>5. Behind(i)'
    BY <1>1, <1>3, <2>3, <2>4 DEF Behind
  <2>6. \A k \in Instances : k # i => Behind(k)'
    BY <1>2, <2>3, <2>4 DEF SeedingInv, Behind
  <2>7. \A k \in Instances : ipc'[k] = "setting" => top'[k] >= row'[k]
    BY <1>1, <2>3, <2>4 DEF SeedingInv, TypeOK
  <2> QED
    BY <1>1, <1>2, <1>3, <2>3, <2>4, <2>5, <2>6, <2>7 DEF SeedingInv, TypeOK, Statuses, Busy
<1>5. CASE n \notin DOMAIN rows
  <2>1. Moves(i, "inserted") /\ UNCHANGED row
    BY <1>5 DEF InsertSeed
  <2>2. /\ ipc' \in [Instances -> Statuses] /\ ipc'[i] = "inserted"
        /\ \A k \in Instances : k # i => ipc'[k] = ipc[k]
    BY <2>1, InstanceMoves DEF Statuses, Busy
  <2>3. \A k \in Instances : Behind(k)'
    BY <1>2, <1>3, <2>1, <2>2 DEF SeedingInv, Behind
  <2> QED
    BY <1>1, <1>2, <1>3, <2>1, <2>2, <2>3 DEF SeedingInv, TypeOK, Statuses, Busy
<1> QED
  BY <1>4, <1>5

LEMMA ReadMaxKeeps == ASSUME SeedingInv, NEW i \in Instances, ReadMax(i) PROVE SeedingInv'
<1>1. /\ ipc[i] = "inserted" /\ top' = [top EXCEPT ![i] = SetvalTo] /\ Moves(i, "setting")
      /\ UNCHANGED <<rows, inserted, seq, row, drawn, crashes, creates>>
  BY DEF ReadMax, table, budgets
<1>2. /\ ipc' \in [Instances -> Statuses] /\ ipc'[i] = "setting"
      /\ \A k \in Instances : k # i => ipc'[k] = ipc[k]
  BY <1>1, InstanceMoves DEF Statuses, Busy
<1>3. row[i] \in DOMAIN rows
  <2>1. row[i] \in 1 .. row[i]
    BY SeedingAssumption DEF SeedingInv, TypeOK
  <2> QED
    BY <1>1, <2>1 DEF SeedingInv, Behind
<1>4. SetvalTo \in Nat /\ row[i] <= SetvalTo
  BY <1>3, TopOfIds DEF SeedingInv, TypeOK
<1>5. TypeOK'
  BY <1>1, <1>2, <1>4, SeedingAssumption DEF SeedingInv, TypeOK, Statuses, Busy
<1> QED
  BY <1>1, <1>2, <1>5 DEF SeedingInv, HasTop, Behind

LEMMA SetSequenceKeeps == ASSUME SeedingInv, NEW i \in Instances, SetSequence(i) PROVE SeedingInv'
<1> USE SeedingAssumption
<1>1. /\ ipc[i] = "setting" /\ seq' = top[i] /\ Advance(i)
      /\ Moves(i, IF row[i] = NumSeeds THEN "seeded" ELSE "seeding")
      /\ UNCHANGED <<rows, inserted, top, drawn, crashes, creates>>
  BY DEF SetSequence, budgets
<1>2. /\ ipc' \in [Instances -> Statuses]
      /\ ipc'[i] = (IF row[i] = NumSeeds THEN "seeded" ELSE "seeding")
      /\ \A k \in Instances : k # i => ipc'[k] = ipc[k]
  BY <1>1, InstanceMoves DEF Statuses, Busy
<1>3. /\ row' \in [Instances -> 1 .. NumSeeds]
      /\ row'[i] = IF row[i] = NumSeeds THEN NumSeeds ELSE row[i] + 1
      /\ \A k \in Instances : k # i => row'[k] = row[k]
  BY <1>1, RowAdvances
<1>4. row[i] \in 1 .. NumSeeds /\ 1 .. row[i] \subseteq DOMAIN rows
  BY <1>1 DEF SeedingInv, TypeOK, Behind
<1>5. Behind(i)'
  BY <1>1, <1>2, <1>3, <1>4 DEF Behind
<1>6. \A k \in Instances : k # i => Behind(k)'
  BY <1>1, <1>2, <1>3 DEF SeedingInv, Behind
<1>7. TypeOK'
  BY <1>1, <1>2, <1>3 DEF SeedingInv, TypeOK, Statuses, Busy
<1> QED
  BY <1>1, <1>5, <1>6, <1>7 DEF SeedingInv, HasTop

LEMMA InsertDrawnKeeps == ASSUME SeedingInv, NEW c \in Clients, InsertDrawn(c) PROVE SeedingInv'
<1>1. /\ drawn[c] \in Nat \ {0} /\ drawn' = [drawn EXCEPT ![c] = 0]
      /\ UNCHANGED <<seq, ipc, row, top, crashes, creates>>
  BY DEF InsertDrawn, budgets, SeedingInv, TypeOK
<1>2. CASE drawn[c] \in DOMAIN rows
  BY <1>1, <1>2 DEF InsertDrawn, SeedingInv, TypeOK, HasTop, Behind
<1>3. CASE drawn[c] \notin DOMAIN rows
  <2>1. /\ DOMAIN rows' = DOMAIN rows \cup {drawn[c]} /\ HasTop'
        /\ \A d \in DOMAIN rows' : rows'[d] \in {"seed", "client"}
        /\ inserted' \in Seq(DOMAIN rows')
    BY <1>1, <1>3, PutKeeps DEF InsertDrawn
  <2>2. \A i \in Instances : Behind(i)'
    BY <1>1, <2>1 DEF SeedingInv, Behind
  <2> QED
    BY <1>1, <2>1, <2>2 DEF SeedingInv, TypeOK
<1> QED
  BY <1>2, <1>3

LEMMA SeedingStep == SeedingInv /\ [Next]_vars => SeedingInv'
<1> SUFFICES ASSUME SeedingInv, [Next]_vars PROVE SeedingInv'
  OBVIOUS
<1>1. ASSUME NEW i \in Instances, Start(i) \/ Seed(i) PROVE SeedingInv'
  BY <1>1, StartKeeps, InsertSeedKeeps, ReadMaxKeeps, SetSequenceKeeps DEF Seed
<1>2. ASSUME NEW i \in Instances, Crash(i) PROVE SeedingInv'
  <2>1. Moves(i, "down") /\ UNCHANGED <<rows, inserted, seq, row, top, drawn>>
    BY <1>2 DEF Crash, table
  <2>2. crashes' \in 0 .. MaxCrashes /\ creates' = creates
    BY <1>2, SeedingAssumption DEF Crash, SeedingInv, TypeOK
  <2> QED
    BY <2>1, <2>2, InstanceMoves DEF SeedingInv, TypeOK, HasTop, Behind, Statuses, Busy
<1>3. ASSUME NEW c \in Clients, DrawID(c) PROVE SeedingInv'
  <2>1. /\ creates' \in 0 .. MaxCreates /\ seq' \in Nat /\ drawn' \in [Clients -> Nat]
        /\ UNCHANGED <<rows, inserted, ipc, row, top, crashes>>
    BY <1>3, SeedingAssumption DEF DrawID, SeedingInv, TypeOK
  <2> QED
    BY <2>1 DEF SeedingInv, TypeOK, HasTop, Behind
<1>4. ASSUME NEW c \in Clients, InsertDrawn(c) PROVE SeedingInv'
  BY <1>4, InsertDrawnKeeps
<1>5. CASE UNCHANGED vars
  BY <1>5 DEF vars, table, budgets, SeedingInv, TypeOK, HasTop, Behind
<1> QED
  BY <1>1, <1>2, <1>3, <1>4, <1>5 DEF Next

LEMMA SeedingInvariant == Spec => []SeedingInv
BY SeedingInit, SeedingStep, PTL DEF Spec

\* The types, and that no setval is to an id before its own row.
THEOREM SeedingTypeCorrect == Spec => []TypeOK
<1>1. SeedingInv => TypeOK BY DEF SeedingInv
<1> QED BY SeedingInvariant, <1>1, PTL

\* However many instances seed at once, crash and begin again, and whatever
\* clients insert meanwhile: one that has gone through the catalogue finds
\* all of it in the table.
THEOREM CatalogueSeededWhole == Spec => []SeededWhole
<1>1. SeedingInv => SeededWhole BY DEF SeedingInv, Behind, SeededWhole
<1> QED BY SeedingInvariant, <1>1, PTL

-----------------------------------------------------------------------------
(* One instance, alone.  Its clients draw ids only after it has seeded, so *)
(* that no setval meets an id that is drawn and not yet inserted.          *)

Ahead(n) == \A d \in DOMAIN rows : d <= n

AloneInv ==
    /\ Serving = {} => \A c \in Clients : drawn[c] = 0
    /\ (\A i \in Instances : ipc[i] \notin {"inserted", "setting"}) => Ahead(seq)
    /\ \A i \in Instances : ipc[i] = "setting" => Ahead(top[i])
    /\ \A c \in Clients : drawn[c] <= seq

SequenceInv == Alone => AloneInv

LEMMA SequenceInit == Init => SequenceInv
BY DEF Init, Populated, Serving, SequenceInv, AloneInv, Ahead

\* Who is alone has been so since the start.
LEMMA AloneBefore ==
    ASSUME SeedingInv, NEW i \in Instances, UNCHANGED crashes,
           NEW to \in Statuses \ {"down"}, Moves(i, to), Alone'
    PROVE  /\ Alone
           /\ ipc' \in [Instances -> Statuses] /\ ipc'[i] = to
           /\ \A k \in Instances : k # i => ipc[k] = "down" /\ ipc'[k] = "down"
<1>1. /\ ipc' \in [Instances -> Statuses] /\ ipc'[i] = to
      /\ \A k \in Instances : k # i => ipc'[k] = ipc[k]
  BY InstanceMoves
<1>2. \A k \in Instances : k # i => ipc'[k] = "down"
  BY <1>1 DEF Alone
<1> QED
  BY <1>1, <1>2 DEF Alone

LEMMA SequenceStep == SeedingInv /\ SequenceInv /\ [Next]_vars => SequenceInv'
<1> SUFFICES ASSUME SeedingInv, SequenceInv, [Next]_vars, Alone' PROVE AloneInv'
  BY DEF SequenceInv
<1> USE SeedingAssumption
<1>0. /\ seq \in Nat /\ DOMAIN rows \subseteq Nat /\ top \in [Instances -> Nat]
      /\ drawn \in [Clients -> Nat] /\ row \in [Instances -> 1 .. NumSeeds]
      /\ ipc \in [Instances -> Statuses]
  BY DEF SeedingInv, TypeOK, Statuses, Busy
<1>1. ASSUME NEW i \in Instances, Start(i) PROVE AloneInv'
  <2>1. PICK to \in {"skipped", "seeding"} : Moves(i, to)
    BY <1>1 DEF Start
  <2>2. ipc[i] = "down" /\ UNCHANGED <<rows, seq, top, drawn, crashes>>
    BY <1>1 DEF Start, table, budgets
  <2>3. /\ Alone /\ ipc'[i] = to
        /\ \A k \in Instances : k # i => ipc[k] = "down" /\ ipc'[k] = "down"
    BY <2>1, <2>2, AloneBefore DEF Statuses, Busy
  <2>4. (\A c \in Clients : drawn[c] = 0) /\ Ahead(seq)
    BY <2>2, <2>3 DEF SequenceInv, AloneInv, Serving
  <2> QED
    BY <1>0, <2>2, <2>3, <2>4 DEF AloneInv, Ahead
<1>2. ASSUME NEW i \in Instances, InsertSeed(i) PROVE AloneInv'
  <2>1. PICK to \in {"seeded", "seeding", "inserted"} :
          Moves(i, to) /\ (row[i] \notin DOMAIN rows => to = "inserted")
    BY <1>2 DEF InsertSeed, AfterConflict
  <2>2. /\ ipc[i] = "seeding" /\ UNCHANGED <<seq, top, drawn, crashes>> /\ Put(row[i], "seed")
    BY <1>2 DEF InsertSeed, budgets
  <2>3. /\ Alone /\ ipc'[i] = to
        /\ \A k \in Instances : k # i => ipc[k] = "down" /\ ipc'[k] = "down"
    BY <2>1, <2>2, AloneBefore DEF Statuses, Busy
  <2>4. (\A c \in Clients : drawn[c] = 0) /\ Ahead(seq)
    BY <2>2, <2>3 DEF SequenceInv, AloneInv, Serving
  <2>5. row[i] \in DOMAIN rows => DOMAIN rows' = DOMAIN rows
    BY <2>2 DEF Put
  <2> QED
    BY <1>0, <2>1, <2>2, <2>3, <2>4, <2>5 DEF AloneInv, Ahead
<1>3. ASSUME NEW i \in Instances, ReadMax(i) PROVE AloneInv'
  <2>1. /\ ipc[i] = "inserted" /\ Moves(i, "setting") /\ top' = [top EXCEPT ![i] = SetvalTo]
        /\ UNCHANGED <<rows, seq, drawn, crashes>>
    BY <1>3 DEF ReadMax, table, budgets
  <2>2. /\ Alone /\ ipc'[i] = "setting"
        /\ \A k \in Instances : k # i => ipc[k] = "down" /\ ipc'[k] = "down"
    BY <2>1, AloneBefore DEF Statuses, Busy
  <2>3. \A c \in Clients : drawn[c] = 0
    BY <2>1, <2>2 DEF SequenceInv, AloneInv, Serving
  <2>4. Ahead(SetvalTo)
    BY TopOfIds DEF Ahead
  <2> QED
    BY <1>0, <2>1, <2>2, <2>3, <2>4 DEF AloneInv, Ahead
<1>4. ASSUME NEW i \in Instances, SetSequence(i) PROVE AloneInv'
  <2>1. PICK to \in {"seeded", "seeding"} : Moves(i, to)
    BY <1>4 DEF SetSequence
  <2>2. /\ ipc[i] = "setting" /\ seq' = top[i]
        /\ UNCHANGED <<rows, top, drawn, crashes>>
    BY <1>4 DEF SetSequence, budgets
  <2>3. /\ Alone /\ ipc'[i] = to
        /\ \A k \in Instances : k # i => ipc[k] = "down" /\ ipc'[k] = "down"
    BY <2>1, <2>2, AloneBefore DEF Statuses, Busy
  <2>4. (\A c \in Clients : drawn[c] = 0) /\ Ahead(top[i])
    BY <2>2, <2>3 DEF SequenceInv, AloneInv, Serving
  <2> QED
    BY <1>0, <2>2, <2>3, <2>4 DEF AloneInv, Ahead
<1>5. ASSUME NEW i \in Instances, Crash(i) PROVE AloneInv'
  BY <1>5 DEF Crash, Alone, SeedingInv, TypeOK
<1>6. ASSUME NEW c \in Clients, DrawID(c) PROVE AloneInv'
  <2>1. /\ Serving # {} /\ seq' = seq + 1 /\ drawn' = [drawn EXCEPT ![c] = seq + 1]
        /\ UNCHANGED <<rows, ipc, top, crashes>>
    BY <1>6 DEF DrawID
  <2>2. AloneInv
    BY <2>1 DEF SequenceInv, Alone
  <2>3. Serving' # {}
    BY <2>1 DEF Serving
  <2>4. \A d \in Clients : drawn'[d] <= seq'
    BY <1>0, <2>1, <2>2 DEF AloneInv
  <2> QED
    BY <1>0, <2>1, <2>2, <2>3, <2>4 DEF AloneInv, Ahead
<1>7. ASSUME NEW c \in Clients, InsertDrawn(c) PROVE AloneInv'
  <2>1. /\ drawn[c] # 0 /\ drawn' = [drawn EXCEPT ![c] = 0]
        /\ DOMAIN rows' \subseteq DOMAIN rows \cup {drawn[c]}
        /\ UNCHANGED <<seq, ipc, top, crashes>>
    BY <1>7 DEF InsertDrawn, Put, budgets
  <2>2. Alone /\ AloneInv
    BY <2>1 DEF SequenceInv, Alone
  <2>3. PICK i \in Instances : ipc[i] \in {"skipped", "seeded"}
    BY <2>1, <2>2 DEF AloneInv, Serving
  <2>4. \A k \in Instances : ipc[k] \notin {"inserted", "setting"}
    BY <2>2, <2>3 DEF Alone
  <2>5. Ahead(seq) /\ drawn[c] <= seq /\ drawn[c] \in Nat
    BY <1>0, <2>2, <2>4 DEF AloneInv
  <2>6. \A d \in DOMAIN rows' : d <= seq
    BY <2>1, <2>5 DEF Ahead
  <2>7. Serving' # {}
    BY <2>1, <2>3 DEF Serving
  <2> QED
    BY <1>0, <2>1, <2>2, <2>4, <2>6, <2>7 DEF AloneInv, Ahead
<1>8. CASE UNCHANGED vars
  BY <1>8 DEF vars, table, budgets, SequenceInv, AloneInv, Alone, Ahead, Serving
<1> QED
  BY <1>1, <1>2, <1>3, <1>4, <1>5, <1>6, <1>7, <1>8 DEF Next, Seed

\* One instance that has not crashed and has the table to itself: once it has
\* seeded, or found products, Create never draws an id that is taken.
THEOREM SequenceStaysAhead == Spec => []SequenceAhead
<1>1. Init => SeedingInv /\ SequenceInv
  BY SeedingInit, SequenceInit
<1>2. (SeedingInv /\ SequenceInv) /\ [Next]_vars => (SeedingInv /\ SequenceInv)'
  BY SeedingStep, SequenceStep
<1>3. SequenceInv => SequenceAhead
  BY DEF SequenceInv, AloneInv, Ahead, SequenceAhead
<1> QED
  BY <1>1, <1>2, <1>3, PTL DEF Spec

-----------------------------------------------------------------------------
(* The table of one instance and one client implements the store in        *)
(* memory: every step is a call of it, or changes nothing that it has.     *)

\* What is inserted is in the table, and once.
CountInv == /\ rows = [d \in DOMAIN rows |-> rows[d]]
            /\ IsFiniteSet(DOMAIN rows) /\ Len(inserted) = Cardinality(DOMAIN rows)

\* The ids that there can be: those of the catalogue and those drawn.
IdBound == NumSeeds + MaxPopulated + creates

Quiet == \A i \in Instances : ipc[i] \notin {"inserted", "setting"}
Undrawn == \A c \in Clients : drawn[c] = 0
Sole == \A c, d \in Clients : c = d

\* The sequence is not only ahead of the ids, it is at the last of them; the
\* client's is the next.
ExactInv ==
    /\ Quiet /\ Undrawn => seq = 0 \/ seq \in DOMAIN rows
    /\ \A c \in Clients : drawn[c] # 0 => drawn[c] = seq /\ \A d \in DOMAIN rows : d < seq
    /\ \A i \in Instances : ipc[i] = "setting" => top[i] \in DOMAIN rows
    /\ \A d \in DOMAIN rows : d <= IdBound
    /\ seq <= IdBound

TableInv == SeedingInv /\ SequenceInv /\ CountInv /\ (Alone => ExactInv)

LEMMA TableInit == Init => TableInv
<1> SUFFICES ASSUME Init PROVE TableInv
  OBVIOUS
<1> USE SeedingAssumption
<1>1. SeedingInv /\ SequenceInv
  BY SeedingInit, SequenceInit
<1>2. DOMAIN rows = 1 .. seq /\ seq \in 0 .. MaxPopulated
  BY DEF Init, Populated
<1>3. CountInv
  <2>1. inserted = [d \in 1 .. seq |-> d] /\ seq \in Nat
    BY <1>2 DEF Init
  <2>2. Len(inserted) = seq
    BY <2>1, IsASeq, LenProperties
  <2>3. rows = [d \in DOMAIN rows |-> rows[d]]
    BY DEF Init, Populated
  <2>4. IsFiniteSet(1 .. seq) /\ Cardinality(1 .. seq) = seq
    BY <2>1, FS_Interval
  <2> QED
    BY <1>2, <2>2, <2>3, <2>4 DEF CountInv
<1>4. ExactInv
  <2>1. /\ \A c \in Clients : drawn[c] = 0
        /\ \A i \in Instances : ipc[i] = "down"
        /\ creates = 0
    BY DEF Init
  <2> QED
    BY <1>2, <2>1 DEF ExactInv, IdBound
<1> QED
  BY <1>1, <1>3, <1>4 DEF TableInv

\* MAX(id).
LEMMA TopIs ==
    ASSUME NEW S \in SUBSET Nat, NEW m \in S, \A d \in S : d <= m
    PROVE  (CHOOSE n \in S : \A d \in S : d <= n) = m
<1> DEFINE t == CHOOSE n \in S : \A d \in S : d <= n
<1>1. t \in S /\ \A d \in S : d <= t
  OBVIOUS
<1> HIDE DEF t
<1>2. t <= m /\ m <= t /\ t \in Nat /\ m \in Nat
  BY <1>1
<1>3. t = m
  BY <1>2
<1> QED
  BY <1>3 DEF t

\* What the store is seen to give out next.
LEMMA CounterDrawn ==
    ASSUME Sole, NEW c \in Clients, drawn[c] # 0
    PROVE  CounterSeen = drawn[c]
BY DEF CounterSeen, Sole

LEMMA CounterQuiet ==
    ASSUME Undrawn
    PROVE  /\ Quiet => CounterSeen = seq + 1
           /\ ~Quiet => CounterSeen = SetvalTo + 1
BY DEF CounterSeen, Undrawn, Quiet

\* An INSERT of an id that is taken changes nothing.
LEMMA PutTaken ==
    ASSUME TableInv, NEW id \in DOMAIN rows, NEW by, Put(id, by)
    PROVE  rows' = rows /\ inserted' = inserted
<1>1. rows' = [rows EXCEPT ![id] = rows[id]] /\ inserted' = inserted
  BY DEF Put, OnConflict
<1>2. rows = [d \in DOMAIN rows |-> rows[d]]
  BY DEF TableInv, CountInv
<1>3. rows' = [d \in DOMAIN rows |-> rows[d]]
  BY <1>1
<1> QED
  BY <1>1, <1>2, <1>3

LEMMA PutCounts ==
    ASSUME TableInv, NEW id \in Nat \ {0}, NEW by, Put(id, by)
    PROVE  CountInv'
<1>1. CASE id \in DOMAIN rows
  BY <1>1, PutTaken DEF TableInv, CountInv
<1>2. CASE id \notin DOMAIN rows
  <2>1. /\ rows' = [d \in DOMAIN rows \cup {id} |-> IF d = id THEN by ELSE rows[d]]
        /\ inserted' = Append(inserted, id)
    BY <1>2 DEF Put
  <2>2. DOMAIN rows' = DOMAIN rows \cup {id} /\ rows' = [d \in DOMAIN rows' |-> rows'[d]]
    BY <2>1
  <2>3. Len(inserted') = Len(inserted) + 1
    BY <2>1 DEF TableInv, SeedingInv, TypeOK
  <2> QED
    BY <1>2, <2>2, <2>3, FS_AddElement DEF TableInv, CountInv
<1> QED
  BY <1>1, <1>2

\* An INSERT of an id that is free is a Put of the store, which has room.
LEMMA PutInStore ==
    ASSUME TableInv, NEW id \in Nat \ {0}, id \notin DOMAIN rows,
           NEW by \in {"seed", "client"}, Put(id, by)
    PROVE  /\ Store!Put(id, by)
           /\ DOMAIN rows' = DOMAIN rows \cup {id} /\ DOMAIN rows' \subseteq Nat \ {0}
<1>1. /\ rows' = [d \in DOMAIN rows \cup {id} |-> IF d = id THEN by ELSE rows[d]]
      /\ inserted' = Append(inserted, id)
  BY DEF Put
<1>2. DOMAIN rows' = DOMAIN rows \cup {id} /\ DOMAIN rows \subseteq Nat \ {0}
  BY <1>1 DEF TableInv, SeedingInv, TypeOK
<1> QED
  BY <1>1, <1>2 DEF Store!Put

LEMMA RoomLeft ==
    ASSUME TableInv, Alone, NEW id \in 1 .. IdBound, id \notin DOMAIN rows
    PROVE  Len(inserted) < NumSeeds + MaxPopulated + MaxCreates
<1> USE SeedingAssumption
<1>1. IdBound \in Nat /\ IdBound <= NumSeeds + MaxPopulated + MaxCreates
  BY DEF IdBound, TableInv, SeedingInv, TypeOK
<1>2. DOMAIN rows \cup {id} \in SUBSET (1 .. IdBound)
  BY <1>1 DEF TableInv, SeedingInv, TypeOK, ExactInv
<1>3. Cardinality(DOMAIN rows \cup {id}) = Len(inserted) + 1
  BY FS_AddElement DEF TableInv, CountInv
<1>4. Cardinality(DOMAIN rows \cup {id}) <= IdBound
  <2>1. IsFiniteSet(1 .. IdBound) /\ Cardinality(1 .. IdBound) = IdBound
    BY <1>1, FS_Interval
  <2> QED
    BY <1>2, <2>1, FS_Subset
<1>5. Len(inserted) \in Nat
  BY DEF TableInv, SeedingInv, TypeOK
<1> QED
  BY <1>1, <1>3, <1>4, <1>5

\* Nothing of the store changes.
Same == UNCHANGED <<rows, inserted, CounterSeen>>

\* While the one instance is busy no id is drawn.
LEMMA BusyAlone ==
    ASSUME TableInv, Alone, NEW i \in Instances, ipc[i] \in Busy \cup {"down"},
           \A k \in Instances : k # i => ipc[k] = "down"
    PROVE  Undrawn
BY DEF TableInv, SequenceInv, AloneInv, Serving, Undrawn, Busy

LEMMA StartImplements ==
    ASSUME TableInv, NEW i \in Instances, Start(i), Alone'
    PROVE  ExactInv' /\ Same
<1>1. PICK to \in {"skipped", "seeding"} : Moves(i, to)
  BY DEF Start
<1>2. ipc[i] = "down" /\ UNCHANGED <<rows, inserted, seq, top, drawn, crashes, creates>>
  BY DEF Start, table, budgets
<1>3. /\ Alone /\ ipc'[i] = to
      /\ \A k \in Instances : k # i => ipc[k] = "down" /\ ipc'[k] = "down"
  BY <1>1, <1>2, AloneBefore DEF TableInv, Statuses, Busy
<1>4. Undrawn /\ Undrawn' /\ Quiet /\ Quiet'
  BY <1>2, <1>3, BusyAlone DEF Undrawn, Quiet
<1>5. CounterSeen = seq + 1 /\ CounterSeen' = seq' + 1
  BY <1>4 DEF CounterSeen, Undrawn, Quiet
<1>6. ExactInv
  BY <1>3 DEF TableInv
<1>7. ExactInv'
  BY <1>2, <1>3, <1>4, <1>6 DEF ExactInv, Undrawn, Quiet, IdBound
<1> QED
  BY <1>2, <1>5, <1>7 DEF Same

LEMMA InsertSeedImplements ==
    ASSUME TableInv, NEW i \in Instances, InsertSeed(i), Alone'
    PROVE  ExactInv' /\ (Store!Next \/ Same)
<1> DEFINE id == row[i]
<1>1. PICK to \in {"seeded", "seeding", "inserted"} :
        Moves(i, to) /\ (id \notin DOMAIN rows <=> to = "inserted")
  BY DEF InsertSeed, AfterConflict
<1>2. /\ ipc[i] = "seeding" /\ UNCHANGED <<seq, top, drawn, crashes, creates>> /\ Put(id, "seed")
  BY DEF InsertSeed, budgets
<1>3. /\ Alone /\ ipc'[i] = to
      /\ \A k \in Instances : k # i => ipc[k] = "down" /\ ipc'[k] = "down"
  BY <1>1, <1>2, AloneBefore DEF TableInv, Statuses, Busy
<1>4. Undrawn /\ Undrawn' /\ Quiet
  BY <1>2, <1>3, BusyAlone DEF Undrawn, Quiet, Busy
<1>5. CounterSeen = seq + 1
  BY <1>4, CounterQuiet
<1>6. ExactInv /\ AloneInv
  BY <1>3 DEF TableInv, SequenceInv
<1>7. id \in 1 .. NumSeeds /\ seq \in Nat /\ DOMAIN rows \subseteq Nat \ {0}
  BY DEF TableInv, SeedingInv, TypeOK
<1>8. CASE id \in DOMAIN rows
  <2>1. rows' = rows /\ inserted' = inserted
    BY <1>2, <1>8, PutTaken
  <2>2. to # "inserted" /\ Quiet'
    BY <1>1, <1>3, <1>8 DEF Quiet
  <2>3. CounterSeen' = seq' + 1
    BY <1>4, <2>2 DEF CounterSeen, Undrawn, Quiet
  <2>4. ExactInv'
    BY <1>2, <1>3, <1>4, <1>6, <2>1, <2>2 DEF ExactInv, Undrawn, Quiet, IdBound
  <2> QED
    BY <1>2, <1>5, <2>1, <2>3, <2>4 DEF Same
<1>9. CASE id \notin DOMAIN rows
  <2>1. /\ Store!Put(id, "seed")
        /\ DOMAIN rows' = DOMAIN rows \cup {id} /\ DOMAIN rows' \subseteq Nat \ {0}
    <3>1. id \in Nat \ {0} /\ "seed" \in {"seed", "client"} /\ Put(id, "seed")
      BY <1>2, <1>7
    <3> QED
      BY <1>9, <3>1, PutInStore
  <2>2. ipc'[i] = "inserted" /\ ~Quiet'
    BY <1>1, <1>3, <1>9 DEF Quiet
  <2>3. CounterSeen' = SetvalTo' + 1
    BY <1>4, <2>2 DEF CounterSeen, Undrawn, Quiet
  <2>4. Ahead(seq) /\ (seq = 0 \/ seq \in DOMAIN rows)
    BY <1>4, <1>6 DEF AloneInv, ExactInv, Quiet
  <2>5. SetvalTo' = IF id >= seq + 1 THEN id ELSE seq
    <3>1. CASE id >= seq + 1
      <4>1. \A d \in DOMAIN rows' : d <= id
        BY <1>7, <2>1, <2>4, <3>1 DEF Ahead
      <4> QED
        BY <2>1, <3>1, <4>1, TopIs DEF SetvalTo
    <3>2. CASE ~(id >= seq + 1)
      <4>1. seq \in DOMAIN rows' /\ \A d \in DOMAIN rows' : d <= seq
        BY <1>7, <2>1, <2>4, <3>2 DEF Ahead
      <4> QED
        BY <2>1, <3>2, <4>1, TopIs DEF SetvalTo
    <3> QED
      BY <3>1, <3>2
  <2>6. CounterSeen' = Store!NextAfter(id)
    BY <1>5, <1>7, <2>3, <2>5 DEF Store!NextAfter
  <2>7. IdBound \in Nat /\ id \in 1 .. IdBound /\ IdBound' = IdBound
    BY <1>2, <1>7, SeedingAssumption DEF IdBound, TableInv, SeedingInv, TypeOK
  <2>8. Store!Next
    <3>1. Store!CreateWithID(id, "seed")
      BY <1>9, <2>1, <2>6 DEF Store!CreateWithID, Store!IsFree
    <3> QED
      BY <1>3, <1>7, <1>9, <2>7, <3>1, RoomLeft DEF Store!Next
  <2>9. ExactInv'
    <3>1. \A d \in DOMAIN rows' : d <= IdBound'
      BY <1>6, <2>1, <2>7 DEF ExactInv
    <3>2. \A k \in Instances : ipc'[k] # "setting"
      BY <1>3, <2>2
    <3> QED
      BY <1>2, <1>4, <1>6, <2>2, <2>7, <3>1, <3>2 DEF ExactInv, Undrawn
  <2> QED
    BY <2>8, <2>9
<1> QED
  BY <1>8, <1>9

LEMMA ReadMaxImplements ==
    ASSUME TableInv, NEW i \in Instances, ReadMax(i), Alone'
    PROVE  ExactInv' /\ Same
<1>1. /\ ipc[i] = "inserted" /\ Moves(i, "setting") /\ top' = [top EXCEPT ![i] = SetvalTo]
      /\ UNCHANGED <<rows, inserted, seq, drawn, crashes, creates>>
  BY DEF ReadMax, table, budgets
<1>2. /\ Alone /\ ipc'[i] = "setting"
      /\ \A k \in Instances : k # i => ipc[k] = "down" /\ ipc'[k] = "down"
  BY <1>1, AloneBefore DEF TableInv, Statuses, Busy
<1>3. Undrawn /\ Undrawn' /\ ~Quiet /\ ~Quiet'
  BY <1>1, <1>2, BusyAlone DEF Undrawn, Quiet, Busy
<1>4. CounterSeen = SetvalTo + 1 /\ CounterSeen' = SetvalTo' + 1 /\ SetvalTo' = SetvalTo
  BY <1>1, <1>3 DEF CounterSeen, Undrawn, Quiet, SetvalTo
<1>5. SetvalTo \in DOMAIN rows
  <2>1. 1 .. row[i] \subseteq DOMAIN rows /\ row[i] \in 1 .. NumSeeds
    BY <1>1 DEF TableInv, SeedingInv, TypeOK, Behind
  <2> QED
    BY <2>1, TopOfIds, SeedingAssumption DEF TableInv
<1>6. ExactInv
  BY <1>2 DEF TableInv
<1>7. \A k \in Instances : ipc'[k] = "setting" => top'[k] \in DOMAIN rows'
  BY <1>1, <1>2, <1>5 DEF TableInv, SeedingInv, TypeOK
<1>8. ExactInv'
  BY <1>1, <1>3, <1>6, <1>7 DEF ExactInv, Undrawn, IdBound
<1> QED
  BY <1>1, <1>4, <1>8 DEF Same

LEMMA SetSequenceImplements ==
    ASSUME TableInv, NEW i \in Instances, SetSequence(i), Alone'
    PROVE  ExactInv' /\ Same
<1>1. PICK to \in {"seeded", "seeding"} : Moves(i, to)
  BY DEF SetSequence
<1>2. /\ ipc[i] = "setting" /\ seq' = top[i]
      /\ UNCHANGED <<rows, inserted, top, drawn, crashes, creates>>
  BY DEF SetSequence, budgets
<1>3. /\ Alone /\ ipc'[i] = to
      /\ \A k \in Instances : k # i => ipc[k] = "down" /\ ipc'[k] = "down"
  BY <1>1, <1>2, AloneBefore DEF TableInv, Statuses, Busy
<1>4. Undrawn /\ Undrawn' /\ ~Quiet /\ Quiet'
  BY <1>2, <1>3, BusyAlone DEF Undrawn, Quiet, Busy
<1>5. CounterSeen = SetvalTo + 1 /\ CounterSeen' = seq' + 1
  BY <1>4 DEF CounterSeen, Undrawn, Quiet
<1>6. ExactInv /\ AloneInv
  BY <1>3 DEF TableInv, SequenceInv
<1>7. top[i] \in DOMAIN rows /\ Ahead(top[i]) /\ DOMAIN rows \subseteq Nat
  BY <1>2, <1>6 DEF ExactInv, AloneInv, TableInv, SeedingInv, TypeOK
<1>8. SetvalTo = top[i]
  BY <1>7, TopIs DEF SetvalTo, Ahead
<1>9. ExactInv'
  BY <1>2, <1>3, <1>4, <1>6, <1>7 DEF ExactInv, Undrawn, IdBound
<1> QED
  BY <1>2, <1>5, <1>8, <1>9 DEF Same

LEMMA DrawIDImplements ==
    ASSUME TableInv, Sole, NEW c \in Clients, DrawID(c), Alone'
    PROVE  ExactInv' /\ Same
<1>1. /\ Serving # {} /\ drawn[c] = 0 /\ seq' = seq + 1 /\ drawn' = [drawn EXCEPT ![c] = seq + 1]
      /\ creates' = creates + 1 /\ UNCHANGED <<rows, inserted, ipc, top, crashes>>
  BY DEF DrawID
<1>2. Alone /\ AloneInv /\ ExactInv
  BY <1>1 DEF TableInv, SequenceInv, Alone
<1>3. PICK i \in Instances : ipc[i] \in {"skipped", "seeded"}
  BY <1>1 DEF Serving
<1>4. Quiet /\ \A k \in Instances : ipc'[k] # "setting"
  BY <1>1, <1>2, <1>3 DEF Quiet, Alone
<1>5. Undrawn /\ seq \in Nat /\ DOMAIN rows \subseteq Nat \ {0} /\ creates \in Nat
  BY <1>1 DEF Undrawn, Sole, TableInv, SeedingInv, TypeOK
<1>6. drawn'[c] = seq + 1 /\ \A d \in Clients : drawn'[d] = seq + 1
  BY <1>1 DEF Sole, TableInv, SeedingInv, TypeOK
<1>7. CounterSeen = seq + 1
  BY <1>4, <1>5, CounterQuiet
<1>8. CounterSeen' = drawn'[c]
  BY <1>5, <1>6 DEF CounterSeen
<1>9. IdBound' = IdBound + 1 /\ IdBound \in Nat
  BY <1>1, <1>5, SeedingAssumption DEF IdBound
<1>10. Ahead(seq)
  BY <1>2, <1>4 DEF AloneInv, Quiet
<1>11. ~Undrawn'
  BY <1>5, <1>6 DEF Undrawn
<1>12. \A d \in DOMAIN rows' : d < seq' /\ d <= IdBound'
  BY <1>1, <1>2, <1>5, <1>9, <1>10 DEF ExactInv, Ahead
<1>13. seq' <= IdBound'
  BY <1>1, <1>2, <1>5, <1>9 DEF ExactInv
<1>14. ExactInv'
  BY <1>1, <1>4, <1>6, <1>11, <1>12, <1>13 DEF ExactInv
<1> QED
  BY <1>1, <1>6, <1>7, <1>8, <1>14 DEF Same

LEMMA InsertDrawnImplements ==
    ASSUME TableInv, Sole, NEW c \in Clients, InsertDrawn(c), Alone'
    PROVE  ExactInv' /\ Store!Next
<1> DEFINE id == drawn[c]
<1>1. /\ id # 0 /\ drawn' = [drawn EXCEPT ![c] = 0]
      /\ UNCHANGED <<seq, ipc, top, crashes, creates>>
  BY DEF InsertDrawn, budgets
<1>2. Alone /\ AloneInv /\ ExactInv
  BY <1>1 DEF TableInv, SequenceInv, Alone
<1>3. PICK i \in Instances : ipc[i] \in {"skipped", "seeded"}
  BY <1>1, <1>2 DEF AloneInv, Serving
<1>4. Quiet /\ Quiet' /\ \A k \in Instances : ipc'[k] # "setting"
  BY <1>1, <1>2, <1>3 DEF Quiet, Alone
<1>5. /\ id = seq /\ (\A d \in DOMAIN rows : d < seq) /\ id \in Nat \ {0}
      /\ DOMAIN rows \subseteq Nat
  BY <1>1, <1>2 DEF ExactInv, TableInv, SeedingInv, TypeOK
<1>6. id \notin DOMAIN rows /\ Put(id, "client")
  BY <1>5 DEF InsertDrawn
<1>7. /\ Store!Put(id, "client")
      /\ DOMAIN rows' = DOMAIN rows \cup {id}
  BY <1>5, <1>6, PutInStore
<1>8. Undrawn' /\ \A d \in Clients : drawn'[d] = 0
  BY <1>1 DEF Undrawn, Sole, TableInv, SeedingInv, TypeOK
<1>9. CounterSeen = id
  BY <1>1, CounterDrawn
<1>10. CounterSeen' = seq' + 1
  BY <1>4, <1>8 DEF CounterSeen, Quiet
<1>11. IdBound' = IdBound /\ IdBound \in Nat /\ id \in 1 .. IdBound
  BY <1>1, <1>2, <1>5, SeedingAssumption DEF IdBound, ExactInv, TableInv, SeedingInv, TypeOK
<1>12. Store!Next
  <2>1. Store!Create("client")
    BY <1>1, <1>5, <1>7, <1>9, <1>10 DEF Store!Create
  <2> QED
    BY <1>2, <1>6, <1>11, <2>1, RoomLeft DEF Store!Next
<1>13. ExactInv'
  <2>1. seq' \in DOMAIN rows'
    BY <1>1, <1>5, <1>7
  <2>2. \A d \in DOMAIN rows' : d <= IdBound'
    BY <1>2, <1>7, <1>11 DEF ExactInv
  <2> QED
    BY <1>1, <1>2, <1>4, <1>8, <1>11, <2>1, <2>2 DEF ExactInv
<1> QED
  BY <1>12, <1>13

LEMMA TableStep ==
    ASSUME TableInv, Sole, [Next]_vars
    PROVE  TableInv' /\ (Alone' => Store!Next \/ Same)
<1>1. SeedingInv' /\ SequenceInv'
  BY SeedingStep, SequenceStep DEF TableInv
<1>2. ASSUME NEW i \in Instances, Start(i) \/ ReadMax(i) \/ SetSequence(i)
      PROVE  CountInv' /\ (Alone' => ExactInv' /\ Same)
  BY <1>2, StartImplements, ReadMaxImplements, SetSequenceImplements
     DEF Start, ReadMax, SetSequence, table, TableInv, CountInv
<1>3. ASSUME NEW i \in Instances, InsertSeed(i)
      PROVE  CountInv' /\ (Alone' => ExactInv' /\ (Store!Next \/ Same))
  <2>1. CountInv'
    <3>1. Put(row[i], "seed") /\ row[i] \in Nat \ {0}
      BY <1>3 DEF InsertSeed, TableInv, SeedingInv, TypeOK
    <3> QED
      BY <3>1, PutCounts
  <2> QED
    BY <1>3, <2>1, InsertSeedImplements
<1>4. ASSUME NEW i \in Instances, Crash(i) PROVE CountInv' /\ ~Alone'
  BY <1>4 DEF Crash, Alone, table, TableInv, CountInv, SeedingInv, TypeOK
<1>5. ASSUME NEW c \in Clients, DrawID(c) PROVE CountInv' /\ (Alone' => ExactInv' /\ Same)
  BY <1>5, DrawIDImplements DEF DrawID, TableInv, CountInv
<1>6. ASSUME NEW c \in Clients, InsertDrawn(c)
      PROVE  CountInv' /\ (Alone' => ExactInv' /\ Store!Next)
  <2>1. CountInv'
    <3>1. CASE drawn[c] \in DOMAIN rows
      BY <1>6, <3>1 DEF InsertDrawn, TableInv, CountInv
    <3>2. CASE drawn[c] \notin DOMAIN rows
      <4>1. Put(drawn[c], "client") /\ drawn[c] \in Nat \ {0}
        BY <1>6, <3>2 DEF InsertDrawn, TableInv, SeedingInv, TypeOK
      <4> QED
        BY <4>1, PutCounts
    <3> QED
      BY <3>1, <3>2
  <2> QED
    BY <1>6, <2>1, InsertDrawnImplements
<1>7. CASE UNCHANGED vars
  <2>1. UNCHANGED <<rows, inserted, seq, ipc, top, drawn, crashes, creates>>
    BY <1>7 DEF vars, table, budgets
  <2>2. Same
    BY <2>1 DEF Same, CounterSeen, SetvalTo
  <2>3. CountInv' /\ (Alone' => ExactInv')
    BY <2>1 DEF TableInv, CountInv, Alone, ExactInv, Quiet, Undrawn, IdBound
  <2> QED
    BY <1>1, <2>2, <2>3 DEF TableInv
<1> QED
  BY <1>1, <1>2, <1>3, <1>4, <1>5, <1>6, <1>7 DEF Next, Seed, TableInv

\* One instance that has not crashed, with no other beside it and at most one
\* client (Sole), so that no two of its creates overlap, uses the table as it
\* would use the store in memory: every step is one of its calls, with its
\* answer, or changes nothing of what it keeps.  With two clients the statement
\* says nothing: they draw ids in one order and may insert them in the other.
THEOREM TableImplementsStore == Sole => (Spec => ImplementsMemoryStore)
<1> SUFFICES ASSUME Sole PROVE Spec => ImplementsMemoryStore
  OBVIOUS
<1>1. TableInv /\ [Next]_vars => TableInv'
  BY TableStep
<1>2. TableInv /\ [Next]_vars
        => [Alone' => Store!Next \/ UNCHANGED <<rows, inserted, CounterSeen>>]_vars
  BY TableStep DEF Same
<1> QED
  BY TableInit, <1>1, <1>2, PTL DEF Spec, ImplementsMemoryStore
=============================================================================
