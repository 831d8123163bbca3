--------------------------- MODULE CorpusWatcher ---------------------------
(***************************************************************************)
(* pipeline.Watcher: poll the raw corpus, and republish the index when it  *)
(* has changed.                                                            *)
(*                                                                         *)
(* The corpus changes under the watcher's feet, one file at a time: a drop *)
(* gives every file its next generation, URL objects by an atomic PUT,     *)
(* local files by a write in place that takes a while.  A probe, a         *)
(* download, a read and a publish are separate steps, since each is its    *)
(* own system call or request.                                             *)
(*                                                                         *)
(* stamp[f] stands both for what a probe of f answers (size and mtime, or  *)
(* ETag, Last-Modified and length) and for the content: 2g while the file  *)
(* is generation g, 2g + 1 while generation g + 1 is being written over it.*)
(* That a changed file changes its probe is assumed here as it is in the   *)
(* code.  coupon.Build is the promise of ExactIndex: the index of exactly  *)
(* the files that were read, or an error when one of them is incomplete.   *)
(* Time is not modelled: any amount of it passes between two steps, in     *)
(* particular during Settle.                                               *)
(***************************************************************************)
EXTENDS Integers, Sequences, FiniteSets

CONSTANTS NumSources,  \* len(Sources)
          Local,       \* the sources that are local paths; the others are URLs
          UrlTarget,   \* Publish is a URL
          Once,        \* watcher -once: each cycle is a process of its own
          MaxGen,      \* bound: drops
          MaxFaults,   \* bound: failed calls
          MaxRestarts, \* bound: restarts of the watcher process
          NoIndex,     \* nothing published yet
          NoFP         \* lastFP is ""

Sources == 1 .. NumSources

ASSUME WatcherAssumption ==
    /\ NumSources \in 2 .. 8
    /\ Local \subseteq Sources
    /\ UrlTarget \in BOOLEAN /\ Once \in BOOLEAN
    /\ MaxGen \in Nat /\ MaxFaults \in Nat /\ MaxRestarts \in Nat
    /\ NoIndex \notin [Sources -> Nat]
    /\ NoFP \notin Seq(Nat)

VARIABLES
    stamp,     \* the raw corpus
    published, \* the stamps of the files the published index was built from
    wpc,       \* where CheckOnce is
    fp, fp2,   \* its two fingerprints, as far as they are taken
    boot,      \* the rebuild is the initial one
    got,       \* the stamps of the files read for the rebuild
    lastFP,    \* Watcher.lastFP
    adopted,   \* history: lastFP stands for an index that the watcher found
    faults, restarts

cycleVars == <<wpc, fp, fp2, boot, got>>
known == <<lastFP, adopted>>
budgets == <<faults, restarts>>
vars == <<stamp, published, cycleVars, known, budgets>>

Unread == -1
Whole(st) == st % 2 = 0

-----------------------------------------------------------------------------
(* Rules of the code, preceded by faulty variants.                         *)

\* The fingerprint that becomes lastFP was taken before the files were read.
FPAfterRebuildRead == [f \in Sources |-> stamp[f]]
FPAfterRebuild == IF boot THEN fp ELSE fp2

\* What a deferred cycle leaves in lastFP: nothing, so that it is retried.
LastFPWhenDeferredAdvanced == fp2
LastFPWhenDeferred == lastFP

\* Build fails on a file whose gzip stream is cut short.
AcceptsUnverified(st) == TRUE
Accepts(st) == Whole(st)

\* A fingerprint is complete when every source was probed.
Probed(p) == Len(p) = NumSources

-----------------------------------------------------------------------------

Init == /\ stamp = [f \in Sources |-> 0]
        /\ published = NoIndex
        /\ wpc = "sleep"
        /\ fp = <<>> /\ fp2 = <<>>
        /\ boot = FALSE
        /\ got = [f \in Sources |-> Unread]
        /\ lastFP = NoFP /\ adopted = FALSE
        /\ faults = 0 /\ restarts = 0

(* The uploader.  A drop is complete before the next one begins.           *)

MayChange(f) == \A g \in Sources : stamp[f] \div 2 <= stamp[g] \div 2

PutObject(f) == /\ f \notin Local /\ MayChange(f) /\ stamp[f] < 2 * MaxGen
                /\ stamp' = [stamp EXCEPT ![f] = @ + 2]
                /\ UNCHANGED <<published, cycleVars, known, budgets>>

BeginWrite(f) == /\ f \in Local /\ MayChange(f) /\ stamp[f] < 2 * MaxGen
                 /\ Whole(stamp[f])
                 /\ stamp' = [stamp EXCEPT ![f] = @ + 1]
                 /\ UNCHANGED <<published, cycleVars, known, budgets>>

EndWrite(f) == /\ ~Whole(stamp[f])
               /\ stamp' = [stamp EXCEPT ![f] = @ + 1]
               /\ UNCHANGED <<published, cycleVars, known, budgets>>

-----------------------------------------------------------------------------
(* CheckOnce.                                                              *)

\* CheckOnce returns.  With -once the process, and lastFP with it, is gone.
EndCycle(newFP, found) == /\ wpc' = "sleep"
                          /\ fp' = <<>> /\ fp2' = <<>>
                          /\ boot' = FALSE
                          /\ got' = [f \in Sources |-> Unread]
                          /\ lastFP' = IF Once THEN NoFP ELSE newFP
                          /\ adopted' = found

\* The ticker fires, or the CronJob starts its pod.
Tick == /\ wpc = "sleep"
        /\ wpc' = "probe"
        /\ UNCHANGED <<stamp, published, fp, fp2, boot, got, known, budgets>>

\* fingerprintSource for the next source of the first, then the second, probe.
ProbeSource ==
    /\ UNCHANGED <<stamp, published, wpc, boot, got, known, budgets>>
    /\ \/ /\ wpc = "probe" /\ ~Probed(fp)
          /\ fp' = Append(fp, stamp[Len(fp) + 1])
          /\ UNCHANGED fp2
       \/ /\ wpc = "settle" /\ ~Probed(fp2)
          /\ fp2' = Append(fp2, stamp[Len(fp2) + 1])
          /\ UNCHANGED fp

\* The first fingerprint is complete: first observation, steady, or changed.
Observe ==
    /\ wpc = "probe" /\ Probed(fp)
    /\ UNCHANGED <<stamp, published, budgets>>
    /\ \/ /\ lastFP = NoFP
          /\ wpc' = "exists" /\ UNCHANGED <<fp, fp2, boot, got, known>>
       \/ fp = lastFP /\ EndCycle(lastFP, adopted)
       \/ /\ lastFP # NoFP /\ fp # lastFP
          /\ wpc' = "settle" /\ UNCHANGED <<fp, fp2, boot, got, known>>

StartRebuild(initial) == /\ wpc' = "read"
                         /\ boot' = initial
                         /\ UNCHANGED <<fp, fp2, got, known>>

\* First observation: adopt what is published, or bootstrap.  A HEAD of a URL
\* target that is answered with anything but 200 counts as missing.
FirstObservation ==
    /\ wpc = "exists"
    /\ UNCHANGED <<stamp, published, restarts>>
    /\ \/ published # NoIndex /\ EndCycle(fp, TRUE) /\ UNCHANGED faults
       \/ published = NoIndex /\ StartRebuild(TRUE) /\ UNCHANGED faults
       \/ /\ published # NoIndex /\ UrlTarget /\ faults < MaxFaults
          /\ StartRebuild(TRUE) /\ faults' = faults + 1

\* The second fingerprint is complete: still moving, or settled.
Settle ==
    /\ wpc = "settle" /\ Probed(fp2)
    /\ UNCHANGED <<stamp, published, budgets>>
    /\ IF fp2 # fp THEN EndCycle(LastFPWhenDeferred, adopted) ELSE StartRebuild(FALSE)

\* URLs are downloaded in order; local paths are read by Build, concurrently.
Readable(f) == /\ got[f] = Unread
               /\ \A g \in Sources \ Local : (f \in Local \/ g < f) => got[g] # Unread

\* An incomplete file fails the build, and the cycle with it.
ReadSource(f) ==
    /\ wpc = "read" /\ Readable(f)
    /\ UNCHANGED <<stamp, published, budgets>>
    /\ IF Accepts(stamp[f])
       THEN /\ got' = [got EXCEPT ![f] = stamp[f]]
            /\ UNCHANGED <<wpc, fp, fp2, boot, known>>
       ELSE EndCycle(lastFP, adopted)

AllRead == wpc = "read" /\ \A f \in Sources : got[f] # Unread

Publish == /\ AllRead
           /\ published' = got
           /\ EndCycle(FPAfterRebuild, FALSE)
           /\ UNCHANGED <<stamp, budgets>>

-----------------------------------------------------------------------------

\* A probe, a download, the build or the publish fails, or the context ends.
Fail == /\ wpc # "sleep" /\ faults < MaxFaults
        /\ faults' = faults + 1
        /\ EndCycle(lastFP, adopted)
        /\ UNCHANGED <<stamp, published, restarts>>

\* The PUT takes effect but its answer is lost: an error all the same.
PublishUnanswered == /\ AllRead /\ UrlTarget /\ faults < MaxFaults
                     /\ faults' = faults + 1
                     /\ published' = got
                     /\ EndCycle(lastFP, adopted)
                     /\ UNCHANGED <<stamp, restarts>>

\* The process starts again, with nothing.
Reset == EndCycle(NoFP, FALSE) /\ UNCHANGED <<stamp, published>>

Restart == /\ restarts < MaxRestarts
           /\ restarts' = restarts + 1
           /\ Reset
           /\ UNCHANGED faults

Upload == \E f \in Sources : PutObject(f) \/ BeginWrite(f) \/ EndWrite(f)

Cycle == \/ Tick \/ ProbeSource \/ Observe \/ FirstObservation \/ Settle
         \/ \E f \in Sources : ReadSource(f)
         \/ Publish

Next == Upload \/ Cycle \/ Fail \/ PublishUnanswered \/ Restart

\* The watcher keeps polling; nobody has to finish an upload.
Spec == Init /\ [][Next]_vars /\ WF_vars(Cycle)

-----------------------------------------------------------------------------

TypeOK ==
    /\ stamp \in [Sources -> 0 .. 2 * MaxGen]
    /\ published \in {NoIndex} \cup [Sources -> Nat]
    /\ wpc \in {"sleep", "probe", "exists", "settle", "read"}
    /\ fp \in Seq(Nat) /\ Len(fp) <= NumSources
    /\ fp2 \in Seq(Nat) /\ Len(fp2) <= NumSources
    /\ boot \in BOOLEAN
    /\ got \in [Sources -> Nat \cup {Unread}]
    /\ lastFP \in {NoFP} \cup [Sources -> Nat]
    /\ adopted \in BOOLEAN
    /\ faults \in 0 .. MaxFaults
    /\ restarts \in 0 .. MaxRestarts

Fresh == published = stamp

\* "The change is retried on the next cycle because lastFP only advances
\* after a successful publish" (the comment of CheckOnce): when a poll would
\* find nothing changed, the published index is that of the present corpus,
\* whatever failed and whichever answers were lost, unless the watcher has
\* taken an index that it found for that of the corpus.
SteadyMeansFresh == lastFP = stamp /\ ~adopted => Fresh

\* An index is never built from a file that was still being written.
PublishedWhole ==
    published # NoIndex => \A f \in Sources : Whole(published[f])

\* Once every file is complete and the uploads have stopped, the published
\* index becomes that of the corpus and stays it, whatever failed before and
\* whenever the watcher was restarted, unless it goes by an index it found.
EventuallyFresh ==
    <>[]((\A f \in Sources : Whole(stamp[f])) /\ ~adopted) => <>[]Fresh

\* A change noticed by a watcher that is not restarted any more is published,
\* also by one that adopted an index it found and whatever answers were lost,
\* unless a file is left incomplete.
NoticedChangePublished ==
    (restarts = MaxRestarts /\ lastFP # NoFP /\ lastFP # stamp)
        ~> (Fresh \/ \E f \in Sources : ~Whole(stamp[f]))
=============================================================================
