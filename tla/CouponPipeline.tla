--------------------------- MODULE CouponPipeline ---------------------------
(***************************************************************************)
(* The coupon pipeline from a drop of raw files to the index that a server *)
(* answers from: two watchers of the same corpus that publish to the same  *)
(* target without knowing of each other (a rolling update of the sidecar,  *)
(* one per host), and a server that polls what they publish.  Each is an   *)
(* instance of its own module; they share the corpus and the published     *)
(* object, and nothing else.  The object is one that the server polls over *)
(* HTTP, so the answer to a PUT or to the HEAD of a first observation may  *)
(* be lost; and each of the three processes may be restarted.              *)
(***************************************************************************)
EXTENDS Integers, Sequences

CONSTANTS NumSources, Local, MaxGen, NoIndex, NoFP, \* of CorpusWatcher
          Missing, NoETag,                                     \* of RemoteIndex
          MaxFaults   \* bound: failed calls and restarts, of all parts together

VARIABLES
    stamp,     \* the raw corpus
    published, \* what the published index was built from
    by,        \* history: the watcher that published it, "nobody" yet
    wpcA, fpA, fp2A, bootA, gotA, lastFPA, adoptedA, \* one watcher,
    wpcB, fpB, fp2B, bootB, gotB, lastFPB, adoptedB, \* the other
    pc, sent, resp, whole, idx, etag, \* the server
    faults

varsA == <<wpcA, fpA, fp2A, bootA, gotA, lastFPA, adoptedA>>
varsB == <<wpcB, fpB, fp2B, bootB, gotB, lastFPB, adoptedB>>
server == <<pc, sent, resp, whole, idx, etag>>
vars == <<stamp, published, by, varsA, varsB, server, faults>>

-----------------------------------------------------------------------------
(* The parts.  A restart counts as one of the faults of the pipeline, so   *)
(* the parts take no restarts from budgets of their own (see Restart).     *)

A == INSTANCE CorpusWatcher
     WITH Once <- FALSE, UrlTarget <- TRUE, MaxRestarts <- 0, restarts <- 0,
          wpc <- wpcA, fp <- fpA, fp2 <- fp2A, boot <- bootA, got <- gotA,
          lastFP <- lastFPA, adopted <- adoptedA

B == INSTANCE CorpusWatcher
     WITH Once <- FALSE, UrlTarget <- TRUE, MaxRestarts <- 0, restarts <- 0,
          wpc <- wpcB, fp <- fpB, fp2 <- fp2B, boot <- bootB, got <- gotB,
          lastFP <- lastFPB, adopted <- adoptedB

\* The object of an index: its ETag tells its content.
Artifact(built) == [codes |-> built, sound |-> TRUE, etag |-> built]
ObjectOf(built) == IF built = NoIndex THEN Missing ELSE Artifact(built)

Objects == {Artifact(b) : b \in [1 .. NumSources -> 0 .. 2 * MaxGen]}

ASSUME PipelineAssumption ==
    /\ NumSources \in 2 .. 8 /\ Local \subseteq 1 .. NumSources
    /\ MaxGen \in Nat /\ MaxFaults \in Nat
    /\ NoIndex \notin [1 .. NumSources -> Nat] /\ NoFP \notin Seq(Nat)
    /\ Missing \notin Objects /\ NoIndex \notin Objects

S == INSTANCE RemoteIndex
     WITH Artifacts <- Objects, object <- ObjectOf(published),
          MaxStops <- 0, stops <- 0

-----------------------------------------------------------------------------

Init == A!Init /\ B!Init /\ by = "nobody"
        /\ pc = "off" /\ sent = NoETag /\ resp = Missing /\ whole = FALSE
        /\ idx = NoIndex /\ etag = NoETag

Upload == A!Upload /\ UNCHANGED <<by, varsB, server>>

\* Of the steps of a cycle only Publish remains when everything is read.
CycleA == /\ UNCHANGED <<varsB, server>>
          /\ A!Cycle
          /\ by' = IF A!AllRead THEN "A" ELSE by

CycleB == /\ UNCHANGED <<varsA, server>>
          /\ B!Cycle
          /\ by' = IF B!AllRead THEN "B" ELSE by

\* A call fails, or the PUT of an index takes effect and its answer is lost.
WatcherFault == \/ A!Fail /\ UNCHANGED <<by, varsB, server>>
                \/ B!Fail /\ UNCHANGED <<by, varsA, server>>
                \/ A!PublishUnanswered /\ by' = "A" /\ UNCHANGED <<varsB, server>>
                \/ B!PublishUnanswered /\ by' = "B" /\ UNCHANGED <<varsA, server>>

OthersStay == UNCHANGED <<stamp, published, by, varsA, varsB>>

Reload == OthersStay /\ S!Reload

ServerFault == OthersStay /\ (S!DownloadCut \/ S!ReloadFails)

\* A rolling update or a crash: one of the three starts again with nothing.
Restart == /\ faults < MaxFaults
           /\ faults' = faults + 1
           /\ UNCHANGED <<stamp, published, by>>
           /\ \/ A!Reset /\ UNCHANGED <<varsB, server>>
              \/ B!Reset /\ UNCHANGED <<varsA, server>>
              \/ S!Reset /\ UNCHANGED <<varsA, varsB>>

Next == Upload \/ CycleA \/ CycleB \/ WatcherFault \/ Reload \/ ServerFault \/ Restart

\* Each of the three always has a next step, so to be scheduled fairly is to
\* take steps for ever: the tickers fire, and the clients have timeouts.
Spec == /\ Init /\ [][Next]_vars
        /\ []<><<CycleA>>_vars /\ []<><<CycleB>>_vars /\ []<><<Reload>>_vars

-----------------------------------------------------------------------------

Served == IF idx = NoIndex THEN NoIndex ELSE idx.codes
Complete == \A f \in 1 .. NumSources : stamp[f] % 2 = 0

\* The watcher that published last has found its own index since, after a
\* restart or after the lost answer to its first PUT, and goes by it without
\* knowing what it was built from.
Forgot == (by = "A" /\ adoptedA) \/ (by = "B" /\ adoptedB)

\* When a poll of either watcher would find nothing changed, whichever of them
\* has published last, whatever failed and whoever was restarted, the published
\* index is that of the present corpus, and so is the index of a server whose
\* poll is answered 304; unless the last publisher has forgotten that it was.
BothSteadyMeansFresh ==
    lastFPA = stamp /\ lastFPB = stamp /\ ~Forgot =>
        /\ published = stamp
        /\ pc = "sent" /\ S!NotModified => Served = stamp

\* "Freshness = pipeline run + one poll interval" (docs/DESIGN.md), also with
\* two watchers whose publishes come in the opposite order of their reads, and
\* through lost answers and restarts: when the corpus is left complete and its
\* last publisher does not forget, the server ends up with its index.
EventuallyServed == <>[](Complete /\ ~Forgot) => <>[](Served = stamp)
=============================================================================
