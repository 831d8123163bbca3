------------------------------ MODULE Seeding ------------------------------
(***************************************************************************)
(* The start of server instances on one PostgreSQL products table: each    *)
(* counts the products and, when it finds none, inserts the embedded       *)
(* catalogue under its fixed ids, a row at a time, while other instances   *)
(* may be doing the same and clients create products through those that    *)
(* serve already.                                                          *)
(*                                                                         *)
(* CreateWithID is an INSERT ... ON CONFLICT DO NOTHING and, after it, a   *)
(* setval of the identity sequence to MAX(id); the statement reads the     *)
(* table before it sets the sequence, and no lock spans the two.  Create   *)
(* takes an id from the sequence and inserts under it.                     *)
(***************************************************************************)
EXTENDS Integers, Sequences

CONSTANTS Instances, Clients,
          NumSeeds,     \* seed.Products(): ids 1 to NumSeeds
          MaxPopulated, \* bound: products that are there before
          LaggingReads, \* the products are counted on a replica, which may lag
          MaxCrashes,   \* bound: ends of a process
          MaxCreates    \* bound: calls of Create

ASSUME SeedingAssumption == /\ NumSeeds \in Nat \ {0} /\ LaggingReads \in BOOLEAN
                            /\ {MaxPopulated, MaxCrashes, MaxCreates} \subseteq Nat

VARIABLES
    rows,     \* the table: who inserted a row, by id
    inserted, \* history: the ids in the order of their INSERTs
    seq,      \* the last value of the identity sequence
    ipc,      \* each instance: "down", "seeding", "inserted" or "setting" a row;
              \*   it serves when it "skipped" the seed or has "seeded"
    row,      \* the row it is at
    top,      \* the MAX(id) that its setval has read
    drawn,    \* each client: the id of its Create, 0 for none
    crashes, creates

table == <<rows, inserted, seq>>
budgets == <<crashes, creates>>
vars == <<table, ipc, row, top, drawn, budgets>>

Serving == {i \in Instances : ipc[i] \in {"skipped", "seeded"}}

-----------------------------------------------------------------------------
(* Rules of the code, each preceded by faulty variants.                    *)

\* What Count may find; products are never deleted.
CountReads == {IF rows = << >> THEN 0 ELSE 1} \cup IF LaggingReads THEN {0} ELSE {}

\* A row that is there is skipped: ErrConflict.
AfterConflictGiveUp(i) == "seeded"
AfterConflict(i) == IF row[i] = NumSeeds THEN "seeded" ELSE "seeding"

\* What is stored under an id that is taken.
OnConflictUpdate(id, by) == by
OnConflict(id, by) == rows[id]

\* What the setval is given: GREATEST(MAX(id), 1).
SetvalOnce == IF seq = 0 THEN 1 ELSE seq
SetvalTo == CHOOSE n \in DOMAIN rows : \A d \in DOMAIN rows : d <= n

-----------------------------------------------------------------------------

Populated(n) == [d \in 1 .. n |-> "client"]

\* The table is new, or was filled by Create (SEED_PRODUCTS=false).
Init == /\ seq \in 0 .. MaxPopulated
        /\ rows = Populated(seq)
        /\ inserted = [d \in 1 .. seq |-> d]
        /\ ipc = [i \in Instances |-> "down"]
        /\ row = [i \in Instances |-> 1]
        /\ top = [i \in Instances |-> 0]
        /\ drawn = [c \in Clients |-> 0]
        /\ crashes = 0 /\ creates = 0

Moves(i, to) == ipc' = [ipc EXCEPT ![i] = to]

\* seedProducts, up to the loop.
Start(i) == /\ ipc[i] = "down"
            /\ \E n \in CountReads : Moves(i, IF n > 0 THEN "skipped" ELSE "seeding")
            /\ row' = [row EXCEPT ![i] = 1]
            /\ UNCHANGED <<table, top, drawn, budgets>>

\* INSERT ... ON CONFLICT (id) DO NOTHING.
Put(id, by) ==
    IF id \in DOMAIN rows
    THEN /\ rows' = [rows EXCEPT ![id] = OnConflict(id, by)]
         /\ UNCHANGED <<inserted>>
    ELSE /\ rows' = [d \in DOMAIN rows \cup {id} |-> IF d = id THEN by ELSE rows[d]]
         /\ inserted' = Append(inserted, id)

Advance(i) == row' = [row EXCEPT ![i] = IF @ = NumSeeds THEN @ ELSE @ + 1]

InsertSeed(i) == /\ ipc[i] = "seeding"
                 /\ Put(row[i], "seed")
                 /\ IF row[i] \in DOMAIN rows
                    THEN Moves(i, AfterConflict(i)) /\ Advance(i)
                    ELSE Moves(i, "inserted") /\ UNCHANGED row
                 /\ UNCHANGED <<seq, top, drawn, budgets>>

ReadMax(i) == /\ ipc[i] = "inserted"
              /\ top' = [top EXCEPT ![i] = SetvalTo]
              /\ Moves(i, "setting")
              /\ UNCHANGED <<table, row, drawn, budgets>>

SetSequence(i) == /\ ipc[i] = "setting"
                  /\ seq' = top[i]
                  /\ Moves(i, IF row[i] = NumSeeds THEN "seeded" ELSE "seeding")
                  /\ Advance(i)
                  /\ UNCHANGED <<rows, inserted, top, drawn, budgets>>

\* The process ends: a signal, an error of a statement, a crash.
Crash(i) == /\ ipc[i] # "down" /\ crashes < MaxCrashes
            /\ crashes' = crashes + 1
            /\ Moves(i, "down")
            /\ UNCHANGED <<table, row, top, drawn, creates>>

\* Create through an instance that serves: nextval, ...
DrawID(c) == /\ Serving # {} /\ drawn[c] = 0 /\ creates < MaxCreates
             /\ creates' = creates + 1
             /\ seq' = seq + 1
             /\ drawn' = [drawn EXCEPT ![c] = seq + 1]
             /\ UNCHANGED <<rows, inserted, ipc, row, top, crashes>>

\* ... and the row, unless the id is taken: a duplicate key, an error.
InsertDrawn(c) == /\ drawn[c] # 0
                  /\ IF drawn[c] \in DOMAIN rows THEN UNCHANGED <<rows, inserted>>
                     ELSE Put(drawn[c], "client")
                  /\ drawn' = [drawn EXCEPT ![c] = 0]
                  /\ UNCHANGED <<seq, ipc, row, top, budgets>>

Seed(i) == InsertSeed(i) \/ ReadMax(i) \/ SetSequence(i)

Next == \/ \E i \in Instances : Start(i) \/ Seed(i) \/ Crash(i)
        \/ \E c \in Clients : DrawID(c) \/ InsertDrawn(c)

Spec == Init /\ [][Next]_vars

-----------------------------------------------------------------------------

TypeOK == /\ DOMAIN rows \subseteq Nat \ {0}
          /\ \A id \in DOMAIN rows : rows[id] \in {"seed", "client"}
          /\ inserted \in Seq(DOMAIN rows)
          /\ seq \in Nat
          /\ ipc \in [Instances -> {"down", "seeding", "inserted", "setting", "skipped", "seeded"}]
          /\ row \in [Instances -> 1 .. NumSeeds]
          /\ top \in [Instances -> Nat]
          /\ drawn \in [Clients -> Nat]
          /\ crashes \in 0 .. MaxCrashes /\ creates \in 0 .. MaxCreates
          /\ \A i \in Instances : ipc[i] = "setting" => top[i] >= row[i]

\* An instance that has gone through the catalogue serves all of it, whoever
\* inserted its rows and however often a seeding was begun and broken off.
SeededWhole == "seeded" \in {ipc[i] : i \in Instances} => 1 .. NumSeeds \subseteq DOMAIN rows

-----------------------------------------------------------------------------
(* What holds as long as one instance, which has not crashed, has the      *)
(* table to itself.  A second one may draw ids while the first seeds, or   *)
(* set the sequence back; a crash between a row and its setval leaves the  *)
(* sequence behind the row, and no later start repairs it.                 *)

Alone == /\ crashes = 0
         /\ \A i, k \in Instances : ipc[i] # "down" /\ ipc[k] # "down" => i = k

\* "Keep the identity sequence ahead of explicitly seeded ids" (postgres.go):
\* once no row is being seeded, Create does not run into an id that is taken.
SequenceAhead ==
    Alone /\ (\A i \in Instances : ipc[i] \notin {"seeding", "inserted", "setting"})
        => \A id \in DOMAIN rows : id <= seq

\* One instance and one client use the table as they would use the store in
\* memory: its counter is ahead of a row whose setval is yet to come.
CounterSeen ==
    IF \E c \in Clients : drawn[c] # 0 THEN drawn[CHOOSE c \in Clients : drawn[c] # 0]
    ELSE IF \E i \in Instances : ipc[i] \in {"inserted", "setting"} THEN SetvalTo + 1
    ELSE seq + 1

Store == INSTANCE MemoryStore
         WITH Products <- {"seed", "client"}, ExplicitIds <- 1 .. NumSeeds,
              MaxProducts <- NumSeeds + MaxPopulated + MaxCreates,
              byID <- rows, order <- inserted, nextID <- CounterSeen

\* The store starts as it was left.
ImplementsMemoryStore ==
    [][Alone' => Store!Next \/ UNCHANGED <<rows, inserted, CounterSeen>>]_vars
=============================================================================
