----------------------------- MODULE RedisSeed -----------------------------
(***************************************************************************)
(* VALIDATOR=redis: cmd/seedredis puts the codes of a built index into a   *)
(* Redis SET, by way of a staging key and a RENAME, while servers that     *)
(* were started on the set look codes up in it.                            *)
(*                                                                         *)
(* A Redis command is atomic and a SET that is empty does not exist.  The  *)
(* seeders load whatever index file they find, so two of them may seed     *)
(* different ones.  Redis may be out of reach, and it is a cache: it may   *)
(* lose the key to eviction, a flush, or a restart without its data.       *)
(***************************************************************************)
EXTENDS Integers

CONSTANTS Seeders,    \* runs of cmd/seedredis
          Servers,
          Indexes,    \* the code sets of the index files; one may be empty
          Main,       \* the key that servers look in
          MaxFaults,  \* bound: crashes of a seeder, lost answers
          MaxLosses   \* bound: losses of the key

ASSUME SeedAssumption == /\ Main \notin Seeders
                         /\ MaxFaults \in Nat /\ MaxLosses \in Nat

VARIABLES
    set,       \* what is in Redis: the set at each key; a staging key is a seeder
    reachable, \* Redis answers
    spc,       \* each seeder: "new", "loaded", "staged", "placed" or "failed"
    idx,       \* the index it has loaded
    up,        \* the servers that are running
    seeded,    \* history: the codes that were last put in place
    faults, losses

budgets == <<faults, losses>>
seedVars == <<set, reachable, spc, idx, up, seeded, budgets>>

Keys == Seeders \cup {Main}

-----------------------------------------------------------------------------
(* Rules of the code, some preceded by a faulty variant.                   *)

\* The staging key holds a fresh UUID.
StagingFixed(j) == CHOOSE k \in Seeders : TRUE
Staging(j) == j

\* RENAME replaces the set at the new key and removes the old key.
Renamed(j) == [set EXCEPT ![Main] = set[Staging(j)], ![Staging(j)] = {}]

\* NewRedisValidator refuses an empty set.
AcceptsSet == set[Main] # {}

\* What Validate makes of an error of SISMEMBER.
UnreachableFalse == "invalid"
Unreachable == "error"

\* Validate of a well-formed code, by a running server.
Validate(code) == IF ~reachable THEN Unreachable ELSE IF code \in set[Main] THEN "valid" ELSE "invalid"

-----------------------------------------------------------------------------

SeedInit == /\ set = [k \in Keys |-> {}]
            /\ reachable = TRUE
            /\ spc = [j \in Seeders |-> "new"]
            /\ idx = [j \in Seeders |-> {}]
            /\ up = {}
            /\ seeded = {}
            /\ faults = 0 /\ losses = 0

\* LoadIndex and Codes.
Load(j) == /\ spc[j] = "new"
           /\ spc' = [spc EXCEPT ![j] = "loaded"]
           /\ idx' \in {[idx EXCEPT ![j] = codes] : codes \in Indexes}
           /\ UNCHANGED <<set, reachable, up, seeded, budgets>>

Moves(j, to) == spc' = [spc EXCEPT ![j] = to] /\ UNCHANGED idx

\* SADD adds to what is there, and needs at least one code.
Stage(j) == /\ spc[j] = "loaded" /\ reachable
            /\ set' = [set EXCEPT ![Staging(j)] = @ \cup idx[j]]
            /\ Moves(j, IF idx[j] = {} THEN "failed" ELSE "staged")
            /\ UNCHANGED <<reachable, up, seeded, budgets>>

Place(j) == /\ spc[j] = "staged" /\ reachable
            /\ set' = Renamed(j)
            /\ seeded' = idx[j]
            /\ Moves(j, "placed")
            /\ UNCHANGED <<reachable, up, budgets>>

\* Redis is out of reach: log.Fatalf.
GiveUp(j) == /\ spc[j] \in {"loaded", "staged"} /\ ~reachable
             /\ Moves(j, "failed")
             /\ UNCHANGED <<set, reachable, up, seeded, budgets>>

\* The process dies, or the answer to its last command is lost.  A RENAME of
\* which this is true is sent again, and fails as the staging key is gone.
SeederDies(j) == /\ spc[j] \in {"loaded", "staged"} /\ faults < MaxFaults
                 /\ faults' = faults + 1
                 /\ \/ UNCHANGED <<set, seeded>>
                    \/ spc[j] = "staged" /\ set' = Renamed(j) /\ seeded' = idx[j]
                 /\ Moves(j, "failed")
                 /\ UNCHANGED <<reachable, up, losses>>

\* Ping, SCARD.
Start(s) == /\ s \notin up /\ reachable /\ AcceptsSet
            /\ up' = up \cup {s}
            /\ UNCHANGED <<set, reachable, spc, idx, seeded, budgets>>

Stop(s) == /\ s \in up
           /\ up' = up \ {s}
           /\ UNCHANGED <<set, reachable, spc, idx, seeded, budgets>>

Partition == /\ reachable' = ~reachable
             /\ UNCHANGED <<set, spc, idx, up, seeded, budgets>>

LoseKey == /\ set[Main] # {} /\ losses < MaxLosses
           /\ losses' = losses + 1
           /\ set' = [set EXCEPT ![Main] = {}]
           /\ UNCHANGED <<reachable, spc, idx, up, seeded, faults>>

SeedNext == \/ \E j \in Seeders : Load(j) \/ Stage(j) \/ Place(j) \/ GiveUp(j) \/ SeederDies(j)
            \/ \E s \in Servers : Start(s) \/ Stop(s)
            \/ Partition \/ LoseKey

SeedSpec == SeedInit /\ [][SeedNext]_seedVars

-----------------------------------------------------------------------------

SeedTypeOK == /\ set \in [Keys -> SUBSET UNION Indexes]
              /\ reachable \in BOOLEAN
              /\ spc \in [Seeders -> {"new", "loaded", "staged", "placed", "failed"}]
              /\ idx \in [Seeders -> Indexes \cup {{}}]
              /\ up \subseteq Servers
              /\ seeded \subseteq UNION Indexes
              /\ \A j \in Seeders : set[j] # {} => spc[j] \in {"staged", "failed"}

\* "A live server never observes a half-seeded set" (cmd/seedredis), nor one
\* that mixes the codes of two seedings: servers find one seeding, the last, or
\* the key that was lost.
NeverHalfSeeded == set[Main] \in {{}, seeded}

\* "An unreachable backend never approves a discount and never silently
\* rejects a valid one" (docs/DESIGN.md): while Redis keeps what it is given, a
\* server that was started has a set, which no seeding, not that of an empty
\* index either, takes away, and a code of the last seeding is valid for every
\* server, or the server cannot tell.  One whose key was lost calls every code
\* invalid.
NeverSilentlyRejects ==
    losses = 0 /\ up # {} => /\ set[Main] # {}
                            /\ \A code \in seeded : Validate(code) # "invalid"
=============================================================================
