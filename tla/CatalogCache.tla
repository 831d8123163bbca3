---------------------------- MODULE CatalogCache ----------------------------
(***************************************************************************)
(* store/cached.ProductStore over store/postgres.Store, as one instance of *)
(* the server runs them: a snapshot behind an atomic pointer, one refresh  *)
(* goroutine, request handlers that read through and upsert, a primary     *)
(* that other instances write to as well, and read replicas that lag.      *)
(*                                                                         *)
(* A product is its id.  Ids come from a sequence but commit in any order, *)
(* some never.  A replica has applied a prefix of the primary's commits.   *)
(* A snapshot pointer is compared by what it points to: an upsert computes *)
(* its result from nothing else, so a swap that succeeds on an equal       *)
(* snapshot does what a retry would.                                       *)
(***************************************************************************)
EXTENDS Integers, Sequences, SequencesExt

CONSTANTS MaxId,       \* bound: products
          NumReplicas, \* len(reads); 0 reads from the primary
          Threads,     \* concurrent request handlers
          Requests,    \* bound: the id sets clients ask for
          MaxFails,    \* bound: failed refreshes
          NoSnap,      \* nothing loaded
          NoFP         \* a snapshot's fingerprint is ""

Ids == 1 .. MaxId
Replicas == 1 .. NumReplicas

ASSUME CacheAssumption == /\ MaxId \in Nat /\ NumReplicas \in Nat /\ MaxFails \in Nat
                          /\ Threads # {}
                          /\ Requests \subseteq (SUBSET Ids) \ {{}}
                          /\ NoFP \notin Nat \X Nat

VARIABLES
    log,     \* the primary: ids in the order of their commits
    applied, \* how much of it each replica has replayed
    rr,      \* the cursor of readPool
    snap,    \* the published snapshot: [list, byID, fp]
    rpc,     \* Refresh: "idle", "list" or "store"
    rfp,     \* the fingerprint Refresh has read
    rlist,   \* the list Refresh has read
    want,    \* per handler: the missing ids it is about to read through
    todo,    \* per handler: the products it still has to upsert
    old,     \* per handler: the snapshot its upsert has loaded
    created, \* per handler: the ids it has created
    fails

storeVars == <<log, applied>>
refreshVars == <<rpc, rfp, rlist>>
handlerVars == <<want, todo, old>>
vars == <<storeVars, rr, snap, refreshVars, handlerVars, created, fails>>

Committed == ToSet(log)
ById(S) == CHOOSE s \in SetToSeqs(S) : \A i, j \in DOMAIN s : i < j => s[i] < s[j]

-----------------------------------------------------------------------------
(* Rules of the code, each preceded by faulty variants.                    *)

\* readPool: the next replica, or the primary.
NextPool == IF NumReplicas = 0 THEN 0 ELSE (rr + 1) % NumReplicas
ReadTable == IF NumReplicas = 0 THEN Committed
             ELSE ToSet(SubSeq(log, 1, applied[NextPool + 1]))

\* What a read-through query returns of the ids it is asked for.
FoundOfAsked(ids) == ids
FoundOf(ids) == ids \cap ReadTable

\* Fingerprint: count and greatest id, of an insert-only table.
FingerprintMaxOnly(S) == <<0, IF S = {} THEN 0 ELSE Max(S)>>
FingerprintNull(S) == <<Cardinality(S), IF S = {} THEN NoFP ELSE Max(S)>>
Fingerprint(S) == <<Cardinality(S), IF S = {} THEN 0 ELSE Max(S)>>

\* The snapshot that an upsert of id makes from s.  An id that is there
\* already is replaced in place, a new one goes to the end of the list.
UpsertedTwice(s, id) == [list |-> Append(s.list, id), byID |-> s.byID \cup {id}, fp |-> NoFP]
UpsertedLabelled(s, id) ==
    [list |-> IF id \in s.byID THEN s.list ELSE Append(s.list, id),
     byID |-> s.byID \cup {id}, fp |-> s.fp]
Upserted(s, id) ==
    [list |-> IF id \in s.byID THEN s.list ELSE Append(s.list, id),
     byID |-> s.byID \cup {id}, fp |-> NoFP]

\* CompareAndSwap publishes only over the snapshot the upsert started from.
SwapAnyway(s) == TRUE
Swaps(s) == s = snap

-----------------------------------------------------------------------------

Init == /\ log = <<>>
        /\ applied = [r \in Replicas |-> 0]
        /\ rr = 0
        /\ snap = NoSnap
        /\ rpc = "idle" /\ rfp = NoFP /\ rlist = <<>>
        /\ want = [t \in Threads |-> {}]
        /\ todo = [t \in Threads |-> {}]
        /\ old = [t \in Threads |-> NoSnap]
        /\ created = [t \in Threads |-> {}]
        /\ fails = 0

(* The database.                                                           *)

Commit(id) == id \notin Committed /\ log' = Append(log, id) /\ UNCHANGED applied

\* Another instance, or psql, inserts a product.
InsertElsewhere == /\ \E id \in Ids : Commit(id)
                   /\ UNCHANGED <<rr, snap, refreshVars, handlerVars, created, fails>>

Replay(r) == /\ applied[r] < Len(log)
             /\ applied' = [applied EXCEPT ![r] = @ + 1]
             /\ UNCHANGED <<log, rr, snap, refreshVars, handlerVars, created, fails>>

-----------------------------------------------------------------------------
(* Refresh, by New until it succeeds once and then by the loop.            *)

RefreshEnds == rpc' = "idle" /\ rfp' = NoFP /\ rlist' = <<>>

RefreshFingerprint ==
    /\ rpc = "idle"
    /\ LET got == Fingerprint(ReadTable)
       IN  IF snap # NoSnap /\ snap.fp = got
           THEN RefreshEnds
           ELSE rpc' = "list" /\ rfp' = got /\ UNCHANGED rlist
    /\ rr' = NextPool
    /\ UNCHANGED <<storeVars, snap, handlerVars, created, fails>>

RefreshList == /\ rpc = "list"
               /\ rpc' = "store"
               /\ rlist' = ById(ReadTable)
               /\ rr' = NextPool
               /\ UNCHANGED <<storeVars, snap, rfp, handlerVars, created, fails>>

\* snap.Store: whatever was published meanwhile is replaced.
RefreshStore == /\ rpc = "store"
                /\ snap' = [list |-> rlist, byID |-> ToSet(rlist), fp |-> rfp]
                /\ RefreshEnds
                /\ UNCHANGED <<storeVars, rr, handlerVars, created, fails>>

\* The store does not answer: fail-static.
RefreshFails == /\ rpc \in {"idle", "list"} /\ fails < MaxFails
                /\ fails' = fails + 1
                /\ RefreshEnds
                /\ rr' = NextPool
                /\ UNCHANGED <<storeVars, snap, handlerVars, created>>

-----------------------------------------------------------------------------
(* Handlers.  New has returned before any is run.                          *)

Free(t) == snap # NoSnap /\ want[t] = {} /\ todo[t] = {}

\* Create: the insert has committed, the upsert follows.
Create(t) == /\ Free(t)
             /\ \E id \in Ids : /\ Commit(id)
                               /\ todo' = [todo EXCEPT ![t] = {id}]
                               /\ created' = [created EXCEPT ![t] = @ \cup {id}]
             /\ UNCHANGED <<rr, snap, refreshVars, want, old, fails>>

\* Get and GetMany: the ids the snapshot does not have are read through.
Lookup(t) == /\ Free(t)
             /\ \E ids \in Requests :
                   /\ ids \ snap.byID # {}
                   /\ want' = [want EXCEPT ![t] = ids \ snap.byID]
             /\ UNCHANGED <<storeVars, rr, snap, refreshVars, todo, old, created, fails>>

\* One query for all of them; what is found is upserted, one by one.
ReadThrough(t) == /\ want[t] # {}
                  /\ todo' = [todo EXCEPT ![t] = FoundOf(want[t])]
                  /\ want' = [want EXCEPT ![t] = {}]
                  /\ rr' = NextPool
                  /\ UNCHANGED <<storeVars, snap, refreshVars, old, created, fails>>

\* The query fails: the request does, and the snapshot is left alone.
ReadThroughFails(t) == /\ want[t] # {}
                       /\ want' = [want EXCEPT ![t] = {}]
                       /\ rr' = NextPool
                       /\ UNCHANGED <<storeVars, snap, refreshVars, todo, old, created, fails>>

UpsertLoad(t) == /\ todo[t] # {} /\ old[t] = NoSnap
                 /\ old' = [old EXCEPT ![t] = snap]
                 /\ UNCHANGED <<storeVars, rr, snap, refreshVars, want, todo, created, fails>>

\* The swap of the copy on write, or another turn of the loop.
UpsertSwap(t) ==
    /\ old[t] # NoSnap
    /\ old' = [old EXCEPT ![t] = NoSnap]
    /\ IF Swaps(old[t])
       THEN \E id \in todo[t] :
               /\ snap' = Upserted(old[t], id)
               /\ todo' = [todo EXCEPT ![t] = @ \ {id}]
       ELSE UNCHANGED <<snap, todo>>
    /\ UNCHANGED <<storeVars, rr, refreshVars, want, created, fails>>

Refresh == RefreshFingerprint \/ RefreshList \/ RefreshStore
Handler(t) == ReadThrough(t) \/ UpsertLoad(t) \/ UpsertSwap(t)

Next == \/ InsertElsewhere
        \/ \E r \in Replicas : Replay(r)
        \/ Refresh \/ RefreshFails
        \/ \E t \in Threads : Create(t) \/ Lookup(t) \/ ReadThroughFails(t) \/ Handler(t)

\* The ticker keeps refreshing, replication progresses and a request that
\* was begun is carried through.
Spec == /\ Init /\ [][Next]_vars
        /\ WF_vars(Refresh)
        /\ \A r \in Replicas : WF_vars(Replay(r))
        /\ \A t \in Threads : WF_vars(Handler(t))

-----------------------------------------------------------------------------

Snapshots == [list : Seq(Ids), byID : SUBSET Ids, fp : {NoFP} \cup (Nat \X Nat)]

TypeOK ==
    /\ log \in Seq(Ids)
    /\ applied \in [Replicas -> 0 .. Len(log)]
    /\ rr \in 0 .. NumReplicas
    /\ snap \in {NoSnap} \cup Snapshots
    /\ rpc \in {"idle", "list", "store"}
    /\ rfp \in {NoFP} \cup (Nat \X Nat)
    /\ rlist \in Seq(Ids)
    /\ want \in [Threads -> SUBSET Ids]
    /\ todo \in [Threads -> SUBSET Ids]
    /\ old \in [Threads -> {NoSnap} \cup Snapshots]
    /\ created \in [Threads -> SUBSET Ids]
    /\ fails \in 0 .. MaxFails

\* The menu and the point lookups of one snapshot agree: the list names each
\* product of the map once ("the list never duplicates", docs/DESIGN.md).
ListMatchesMap ==
    snap # NoSnap => /\ ToSet(snap.list) = snap.byID
                     /\ Len(snap.list) = Cardinality(snap.byID)

\* No product is served that the primary has not committed.
NoPhantom == snap # NoSnap => snap.byID \subseteq Committed

\* Skipping a reload is sound: when the fingerprint that the next tick will
\* read is the snapshot's own, the list is what a reload would give.
SkipIsSound ==
    snap # NoSnap /\ snap.fp = Fingerprint(ReadTable) => snap.list = ById(ReadTable)

\* Only a refresh takes a product off the menu: concurrent creates and
\* read-throughs never overwrite each other's upsert.
UpsertsKeepUpserts ==
    [][snap # NoSnap => \/ snap.byID \subseteq snap'.byID
                        \/ rpc = "store" /\ rpc' = "idle"]_vars

\* "Staleness is bounded by the refresh interval" (the comment of the
\* package): once the inserts have ceased the menu becomes the table, in id
\* order, and stays it.
MenuConverges == <>[](snap # NoSnap /\ snap.list = ById(Committed))

\* The products whose Create has returned on this instance.
Acknowledged == UNION {created[t] \ todo[t] : t \in Threads}

\* "Writes go through to the inner store AND update the local snapshot
\* immediately" (the same comment), and a refresh that has read before the
\* write may take it off the menu again: then the fingerprint is not that of
\* the table, and a refresh that has caught up will bring it back.
LostWriteIsNoticed ==
    snap # NoSnap /\ ~(Acknowledged \subseteq ToSet(snap.list))
        => snap.fp # Fingerprint(Committed)
=============================================================================
