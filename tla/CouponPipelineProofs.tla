------------------------ MODULE CouponPipelineProofs ------------------------
(***************************************************************************)
(* Proofs about the pipeline as a whole, from what is proved of its parts: *)
(* the lemmas of CorpusWatcherProofs hold of each of the two watchers, and *)
(* those of RemoteIndexProofs of the server, for any number of sources,    *)
(* local or remote, of drops, of failed calls and lost answers, and of     *)
(* restarts of any of the three.                                           *)
(*                                                                         *)
(* What a watcher knows of the published index, another may replace: of    *)
(* CorpusWatcherProofs only what a watcher keeps by itself carries over,   *)
(* and with it that a publish is not behind the fingerprint that it leaves *)
(* in lastFP, answered or not.  So the fingerprint of the watcher that     *)
(* published last is not ahead of the published index, until that watcher  *)
(* loses it or goes by an index it found.                                  *)
(***************************************************************************)
EXTENDS CouponPipeline, TLAPS

WA == INSTANCE CorpusWatcherProofs
      WITH Once <- FALSE, UrlTarget <- TRUE, MaxRestarts <- 0, restarts <- 0,
           wpc <- wpcA, fp <- fpA, fp2 <- fp2A, boot <- bootA, got <- gotA,
           lastFP <- lastFPA, adopted <- adoptedA

WB == INSTANCE CorpusWatcherProofs
      WITH Once <- FALSE, UrlTarget <- TRUE, MaxRestarts <- 0, restarts <- 0,
           wpc <- wpcB, fp <- fpB, fp2 <- fp2B, boot <- bootB, got <- gotB,
           lastFP <- lastFPB, adopted <- adoptedB

SV == INSTANCE RemoteIndexProofs
      WITH Artifacts <- Objects, object <- ObjectOf(published), MaxStops <- 0, stops <- 0

Files == 1 .. NumSources

-----------------------------------------------------------------------------
(* The parts meet the assumptions of their modules, and the proofs speak   *)
(* of the same steps as the pipeline.                                      *)

LEMMA PartsMeetAssumptions ==
    /\ WA!WatcherAssumption /\ WB!WatcherAssumption
    /\ SV!ETagAssumption /\ SV!BoundAssumption /\ SV!NilAssumption
<1>1. WA!WatcherAssumption
  BY PipelineAssumption DEF WA!WatcherAssumption, WA!Sources
<1>2. WB!WatcherAssumption
  BY PipelineAssumption DEF WB!WatcherAssumption, WB!Sources
<1>3. SV!ETagAssumption
  <2> SUFFICES ASSUME NEW a \in Objects, NEW b \in Objects, a.etag = b.etag PROVE a = b
    BY DEF SV!ETagAssumption
  <2>1. a = Artifact(a.codes) /\ a.etag = a.codes /\ b = Artifact(b.codes) /\ b.etag = b.codes
    BY DEF Objects, Artifact
  <2> QED
    BY <2>1
<1>4. SV!BoundAssumption /\ SV!NilAssumption
  BY PipelineAssumption DEF SV!BoundAssumption, SV!NilAssumption
<1> QED
  BY <1>1, <1>2, <1>3, <1>4

LEMMA WatcherAStarts == A!Init => WA!Init
BY DEF A!Init, WA!Init, A!Sources, WA!Sources, A!Unread, WA!Unread

LEMMA WatcherBStarts == B!Init => WB!Init
BY DEF B!Init, WB!Init, B!Sources, WB!Sources, B!Unread, WB!Unread

LEMMA UploadIsBoths ==
    ASSUME A!Upload, UNCHANGED varsB PROVE WA!Upload /\ WB!Upload
<1>1. WA!Upload
  BY DEF A!Upload, A!PutObject, A!BeginWrite, A!EndWrite, A!MayChange, A!Sources, A!cycleVars,
         A!known, A!budgets, A!Whole, WA!Upload, WA!PutObject, WA!BeginWrite, WA!EndWrite,
         WA!MayChange, WA!Sources, WA!cycleVars, WA!known, WA!budgets, WA!Whole
<1>2. WB!Upload
  BY DEF A!Upload, A!PutObject, A!BeginWrite, A!EndWrite, A!MayChange, A!Sources, A!cycleVars,
         A!known, A!budgets, A!Whole, WB!Upload, WB!PutObject, WB!BeginWrite, WB!EndWrite,
         WB!MayChange, WB!Sources, WB!cycleVars, WB!known, WB!budgets, WB!Whole, varsB
<1> QED
  BY <1>1, <1>2

LEMMA CycleAIsWatchers == A!Cycle => WA!Cycle
BY DEF A!Cycle, A!Tick, A!ProbeSource, A!Observe, A!FirstObservation, A!Settle, A!ReadSource,
       A!Publish, A!EndCycle, A!StartRebuild, A!Readable, A!AllRead, A!Probed, A!Accepts,
       A!LastFPWhenDeferred, A!FPAfterRebuild, A!Sources, A!Unread, A!Whole, A!known, A!budgets,
       WA!Cycle, WA!Tick, WA!ProbeSource, WA!Observe, WA!FirstObservation, WA!Settle, WA!ReadSource,
       WA!Publish, WA!EndCycle, WA!StartRebuild, WA!Readable, WA!AllRead, WA!Probed, WA!Accepts,
       WA!LastFPWhenDeferred, WA!FPAfterRebuild, WA!Sources, WA!Unread, WA!Whole, WA!known, WA!budgets

LEMMA CycleBIsWatchers == B!Cycle => WB!Cycle
BY DEF B!Cycle, B!Tick, B!ProbeSource, B!Observe, B!FirstObservation, B!Settle, B!ReadSource,
       B!Publish, B!EndCycle, B!StartRebuild, B!Readable, B!AllRead, B!Probed, B!Accepts,
       B!LastFPWhenDeferred, B!FPAfterRebuild, B!Sources, B!Unread, B!Whole, B!known, B!budgets,
       WB!Cycle, WB!Tick, WB!ProbeSource, WB!Observe, WB!FirstObservation, WB!Settle, WB!ReadSource,
       WB!Publish, WB!EndCycle, WB!StartRebuild, WB!Readable, WB!AllRead, WB!Probed, WB!Accepts,
       WB!LastFPWhenDeferred, WB!FPAfterRebuild, WB!Sources, WB!Unread, WB!Whole, WB!known, WB!budgets

LEMMA FaultAIsWatchers ==
    /\ A!Fail => WA!Fail
    /\ A!PublishUnanswered => WA!PublishUnanswered
    /\ A!Reset => WA!Reset
    /\ A!AllRead <=> WA!AllRead
BY DEF A!Fail, A!PublishUnanswered, A!Reset, A!EndCycle, A!AllRead, A!Sources, A!Unread,
       WA!Fail, WA!PublishUnanswered, WA!Reset, WA!EndCycle, WA!AllRead, WA!Sources, WA!Unread

LEMMA FaultBIsWatchers ==
    /\ B!Fail => WB!Fail
    /\ B!PublishUnanswered => WB!PublishUnanswered
    /\ B!Reset => WB!Reset
    /\ B!AllRead <=> WB!AllRead
BY DEF B!Fail, B!PublishUnanswered, B!Reset, B!EndCycle, B!AllRead, B!Sources, B!Unread,
       WB!Fail, WB!PublishUnanswered, WB!Reset, WB!EndCycle, WB!AllRead, WB!Sources, WB!Unread

ServerStep == S!Reload \/ S!DownloadCut \/ S!ReloadFails \/ S!Reset

LEMMA ServerStepIsServers ==
    ServerStep => SV!Reload \/ SV!DownloadCut \/ SV!ReloadFails \/ SV!Reset
BY DEF ServerStep, S!Reload, S!Poll, S!Answer, S!Download, S!Verify, S!StoreETag, S!DownloadCut,
       S!ReloadFails, S!Reset, S!EndReload, S!Rests, S!NotModified, S!Copy, S!Verifies,
       S!ETagOnAnswer, S!ETagOnSwap, S!budgets,
       SV!Reload, SV!Poll, SV!Answer, SV!Download, SV!Verify, SV!StoreETag, SV!DownloadCut,
       SV!ReloadFails, SV!Reset, SV!EndReload, SV!Rests, SV!NotModified, SV!Copy, SV!Verifies,
       SV!ETagOnAnswer, SV!ETagOnSwap, SV!budgets

-----------------------------------------------------------------------------
(* The two watchers.                                                       *)

\* A fingerprint that is not ahead of the published index.
NotAhead(fp) == /\ fp \in [Files -> Nat] /\ published \in [Files -> Nat]
                /\ \A f \in Files : fp[f] <= published[f]

\* The fingerprint of the last to have published is not ahead of the published
\* index, while it has one and does not go by an index that it found.
PublishedInv ==
    /\ published = NoIndex => lastFPA = NoFP /\ lastFPB = NoFP
    /\ published # NoIndex => /\ published \in [Files -> Nat]
                              /\ \A f \in Files : published[f] <= stamp[f]
                              /\ by \in {"A", "B"}
                              /\ by = "A" => lastFPA = NoFP \/ adoptedA \/ NotAhead(lastFPA)
                              /\ by = "B" => lastFPB = NoFP \/ adoptedB \/ NotAhead(lastFPB)

\* What is published is also whole, and a generation that there has been.
PairInv == /\ WA!CycleInv /\ WB!CycleInv /\ WA!StampBound
           /\ WA!KnownInv /\ WB!KnownInv
           /\ WA!WholeInv /\ WB!WholeInv
           /\ PublishedInv

LEMMA PairInit == Init => PairInv
<1> SUFFICES ASSUME Init PROVE PairInv
  OBVIOUS
<1> USE PartsMeetAssumptions
<1>1. WA!Init /\ WB!Init
  BY WatcherAStarts, WatcherBStarts DEF Init
<1>2. WA!CycleInv /\ WB!CycleInv /\ WA!WholeInv /\ WB!WholeInv /\ WA!KnownInv /\ WB!KnownInv
  BY <1>1, WA!CycleInit, WB!CycleInit, WA!WholeInit, WB!WholeInit, WA!KnownInit, WB!KnownInit
<1>3. WA!StampBound
  BY <1>1, WA!BoundsInit DEF WA!Bounds
<1>4. published = NoIndex /\ lastFPA = NoFP /\ lastFPB = NoFP
  BY <1>1 DEF WA!Init, WB!Init
<1> QED
  BY <1>2, <1>3, <1>4 DEF PairInv, PublishedInv

LEMMA UploadKeeps ==
    ASSUME PairInv, Upload PROVE PairInv'
<1> USE PartsMeetAssumptions
<1>1. WA!Upload /\ WB!Upload
  BY UploadIsBoths DEF Upload
<1>2. /\ WA!CycleInv' /\ WB!CycleInv' /\ WA!WholeInv' /\ WB!WholeInv'
      /\ WA!KnownInv' /\ WB!KnownInv'
  BY <1>1, WA!CycleStep, WB!CycleStep, WA!WholeStep, WB!WholeStep, WA!KnownStep, WB!KnownStep
  DEF PairInv, WA!Next, WB!Next
<1>3. WA!StampBound'
  BY <1>1, WA!BoundsUpload DEF PairInv
<1>4. /\ stamp \in [Files -> Nat]
      /\ \A f \in Files : stamp[f] \in Nat /\ stamp'[f] \in Nat /\ stamp[f] <= stamp'[f]
      /\ UNCHANGED <<published, by, lastFPA, lastFPB, adoptedA, adoptedB>>
  BY <1>1, WA!UploadGrows, WB!UploadGrows
  DEF Upload, PairInv, WA!CycleInv, WA!Sources, WB!Sources, Files
<1>5. PublishedInv'
  BY <1>4 DEF PairInv, PublishedInv, NotAhead
<1> QED
  BY <1>2, <1>3, <1>5 DEF PairInv

\* A step of one watcher, seen by the other: the corpus is as it was, and what
\* is published is whole.
LEMMA OtherKeepsA ==
    ASSUME WA!CycleInv, WA!KnownInv, WA!WholeInv, UNCHANGED <<stamp, varsA>>,
           WB!PublishedWhole'
    PROVE  WA!CycleInv' /\ WA!KnownInv' /\ WA!WholeInv'
<1> USE PartsMeetAssumptions
<1>1. UNCHANGED <<wpcA, fpA, fp2A, bootA, gotA, lastFPA, adoptedA>>
  BY DEF varsA
<1>2. stamp' \in [WA!Sources -> Nat] /\ \A g \in WA!Sources : stamp[g] <= stamp'[g]
  BY DEF WA!CycleInv
<1>3. WA!CycleInv'
  BY <1>1, <1>2, WA!GrowthKeeps
<1>4. WA!PublishedWhole'
  BY DEF WA!PublishedWhole, WB!PublishedWhole, WA!Sources, WB!Sources, WA!Whole, WB!Whole
<1> QED
  BY <1>1, <1>3, <1>4 DEF WA!WholeInv, WA!KnownInv

LEMMA OtherKeepsB ==
    ASSUME WB!CycleInv, WB!KnownInv, WB!WholeInv, UNCHANGED <<stamp, varsB>>,
           WA!PublishedWhole'
    PROVE  WB!CycleInv' /\ WB!KnownInv' /\ WB!WholeInv'
<1> USE PartsMeetAssumptions
<1>1. UNCHANGED <<wpcB, fpB, fp2B, bootB, gotB, lastFPB, adoptedB>>
  BY DEF varsB
<1>2. stamp' \in [WB!Sources -> Nat] /\ \A g \in WB!Sources : stamp[g] <= stamp'[g]
  BY DEF WB!CycleInv
<1>3. WB!CycleInv'
  BY <1>1, <1>2, WB!GrowthKeeps
<1>4. WB!PublishedWhole'
  BY DEF WA!PublishedWhole, WB!PublishedWhole, WA!Sources, WB!Sources, WA!Whole, WB!Whole
<1> QED
  BY <1>1, <1>3, <1>4 DEF WB!WholeInv, WB!KnownInv

\* A step of one watcher, with what becomes of its name as the last publisher;
\* and the same in the words of its proofs.
StepA == \/ A!Cycle /\ by' = IF A!AllRead THEN "A" ELSE by
         \/ (A!Fail \/ A!Reset) /\ by' = by
         \/ A!PublishUnanswered /\ by' = "A"

WatcherStepA == \/ WA!Cycle /\ by' = IF WA!AllRead THEN "A" ELSE by
                \/ (WA!Fail \/ WA!Reset) /\ by' = by
                \/ WA!PublishUnanswered /\ by' = "A"

LEMMA WatcherAKeeps ==
    ASSUME PairInv, StepA, UNCHANGED varsB PROVE PairInv'
<1> USE PartsMeetAssumptions
<1>1. WatcherStepA
  BY CycleAIsWatchers, FaultAIsWatchers DEF StepA, WatcherStepA
<1>2. WA!CycleInv' /\ WA!KnownInv' /\ WA!WholeInv'
  BY <1>1, WA!CycleStep, WA!KnownStep, WA!WholeStep, WA!ResetKeeps
  DEF WatcherStepA, PairInv, WA!Next
<1>3. \/ WA!Keeps /\ by' = by
      \/ WA!Replaces /\ by' = "A"
  BY <1>1, WA!CycleTells, WA!FaultTells DEF WatcherStepA, PairInv
<1>4. stamp' = stamp
  BY <1>3 DEF WA!Keeps, WA!Replaces
<1>5. WB!CycleInv' /\ WB!KnownInv' /\ WB!WholeInv'
  BY <1>2, <1>4, OtherKeepsB DEF PairInv, WA!WholeInv
<1>6. PublishedInv'
  <2>1. CASE WA!Keeps /\ by' = by
    BY <2>1 DEF WA!Keeps, PairInv, PublishedInv, NotAhead, varsB
  <2>2. CASE WA!Replaces /\ by' = "A"
    <3>1. published' # NoIndex
      BY <2>2, PipelineAssumption DEF WA!Replaces, WA!Sources
    <3> QED
      BY <1>4, <2>2, <3>1 DEF WA!Replaces, WA!Sources, Files, PublishedInv, NotAhead
  <2> QED
    BY <1>3, <2>1, <2>2
<1>7. WA!StampBound'
  BY <1>4 DEF PairInv, WA!StampBound
<1> QED
  BY <1>2, <1>5, <1>6, <1>7 DEF PairInv

StepB == \/ B!Cycle /\ by' = IF B!AllRead THEN "B" ELSE by
         \/ (B!Fail \/ B!Reset) /\ by' = by
         \/ B!PublishUnanswered /\ by' = "B"

WatcherStepB == \/ WB!Cycle /\ by' = IF WB!AllRead THEN "B" ELSE by
                \/ (WB!Fail \/ WB!Reset) /\ by' = by
                \/ WB!PublishUnanswered /\ by' = "B"

LEMMA WatcherBKeeps ==
    ASSUME PairInv, StepB, UNCHANGED varsA PROVE PairInv'
<1> USE PartsMeetAssumptions
<1>1. WatcherStepB
  BY CycleBIsWatchers, FaultBIsWatchers DEF StepB, WatcherStepB
<1>2. WB!CycleInv' /\ WB!KnownInv' /\ WB!WholeInv'
  BY <1>1, WB!CycleStep, WB!KnownStep, WB!WholeStep, WB!ResetKeeps
  DEF WatcherStepB, PairInv, WB!Next
<1>3. \/ WB!Keeps /\ by' = by
      \/ WB!Replaces /\ by' = "B"
  BY <1>1, WB!CycleTells, WB!FaultTells DEF WatcherStepB, PairInv
<1>4. stamp' = stamp
  BY <1>3 DEF WB!Keeps, WB!Replaces
<1>5. WA!CycleInv' /\ WA!KnownInv' /\ WA!WholeInv'
  BY <1>2, <1>4, OtherKeepsA DEF PairInv, WB!WholeInv
<1>6. PublishedInv'
  <2>1. CASE WB!Keeps /\ by' = by
    BY <2>1 DEF WB!Keeps, PairInv, PublishedInv, NotAhead, varsA
  <2>2. CASE WB!Replaces /\ by' = "B"
    <3>1. published' # NoIndex
      BY <2>2, PipelineAssumption DEF WB!Replaces, WB!Sources
    <3> QED
      BY <1>4, <2>2, <3>1 DEF WB!Replaces, WB!Sources, Files, PublishedInv, NotAhead
  <2> QED
    BY <1>3, <2>1, <2>2
<1>7. WA!StampBound'
  BY <1>4 DEF PairInv, WA!StampBound
<1> QED
  BY <1>2, <1>5, <1>6, <1>7 DEF PairInv

LEMMA ServerKeepsPair ==
    ASSUME PairInv, OthersStay PROVE PairInv'
<1>0. UNCHANGED <<stamp, published, by, varsA, varsB>>
  BY DEF OthersStay
<1>1. WA!PublishedWhole' /\ WB!PublishedWhole'
  BY <1>0 DEF PairInv, WA!WholeInv, WB!WholeInv, WA!PublishedWhole, WB!PublishedWhole
<1>2. /\ WA!CycleInv' /\ WA!KnownInv' /\ WA!WholeInv'
      /\ WB!CycleInv' /\ WB!KnownInv' /\ WB!WholeInv'
  BY <1>0, <1>1, OtherKeepsA, OtherKeepsB DEF PairInv
<1>3. PublishedInv' /\ WA!StampBound'
  BY <1>0 DEF PairInv, PublishedInv, NotAhead, WA!StampBound, varsA, varsB
<1> QED
  BY <1>2, <1>3 DEF PairInv

LEMMA PairStep == PairInv /\ [Next]_vars => PairInv'
<1> SUFFICES ASSUME PairInv, [Next]_vars PROVE PairInv'
  OBVIOUS
<1>1. CASE Upload
  BY <1>1, UploadKeeps
<1>2. CASE CycleA \/ CycleB \/ WatcherFault
  BY <1>2, WatcherAKeeps, WatcherBKeeps DEF CycleA, CycleB, WatcherFault, StepA, StepB
<1>3. CASE Restart
  BY <1>3, WatcherAKeeps, WatcherBKeeps, ServerKeepsPair DEF Restart, StepA, StepB, OthersStay
<1>4. CASE Reload \/ ServerFault \/ UNCHANGED vars
  BY <1>4, ServerKeepsPair DEF Reload, ServerFault, OthersStay, vars
<1> QED
  BY <1>1, <1>2, <1>3, <1>4 DEF Next

\* When both fingerprints are the present stamps, so is that of the last to have
\* published, which leaves no room between the published index and the corpus.
LEMMA BothSteady ==
    PairInv /\ lastFPA = stamp /\ lastFPB = stamp /\ ~Forgot => published = stamp
<1> SUFFICES ASSUME PairInv, lastFPA = stamp, lastFPB = stamp, ~Forgot PROVE published = stamp
  OBVIOUS
<1>1. stamp \in [Files -> Nat]
  BY DEF PairInv, WA!CycleInv, WA!Sources, Files
<1>2. stamp # NoFP
  BY <1>1, PipelineAssumption DEF Files
<1>3. /\ published \in [Files -> Nat]
      /\ \A f \in Files : published[f] <= stamp[f] /\ stamp[f] <= published[f]
  BY <1>2 DEF PairInv, PublishedInv, NotAhead, Forgot
<1>4. \A f \in Files : published[f] = stamp[f]
  BY <1>1, <1>3
<1> QED
  BY <1>1, <1>3, <1>4

-----------------------------------------------------------------------------
(* The server.                                                             *)

\* The object is one of those the server may find.
LEMMA ObjectThere == PairInv => ObjectOf(published) \in Objects \cup {Missing}
<1> SUFFICES ASSUME PairInv, published # NoIndex PROVE Artifact(published) \in Objects
  BY DEF ObjectOf
<1>1. /\ published \in [Files -> Nat] /\ stamp \in [Files -> Nat]
      /\ \A f \in Files : published[f] <= stamp[f] /\ stamp[f] <= 2 * MaxGen
  BY DEF PairInv, PublishedInv, WA!StampBound, WA!CycleInv, WA!Sources, Files
<1>2. \A f \in Files : published[f] \in 0 .. 2 * MaxGen
  BY <1>1, PipelineAssumption
<1>3. published \in [Files -> 0 .. 2 * MaxGen]
  BY <1>1, <1>2
<1> QED
  BY <1>3 DEF Objects, Files

AllWhole(a) == \A f \in Files : WA!Whole(a.codes[f])

\* What the server answers from was built from whole files.
ServedWhole == idx # NoIndex => AllWhole(idx)

ServerInv == /\ SV!ServeInv
             /\ resp # Missing => AllWhole(resp)
             /\ ServedWhole

LEMMA ServerInit == Init => ServerInv
<1> SUFFICES ASSUME Init PROVE ServerInv
  OBVIOUS
<1>1. ObjectOf(published) \in Objects \cup {Missing}
  BY PairInit, ObjectThere
<1>2. SV!ServeInv
  BY <1>1 DEF Init, SV!ServeInv, SV!ServedInv, SV!TagInv, SV!ReloadInv
<1> QED
  BY <1>2 DEF Init, ServerInv, ServedWhole

LEMMA ServerStepKeeps ==
    ASSUME PairInv, ServerInv, ServerStep, UNCHANGED <<stamp, published>>
    PROVE  ServerInv'
<1> USE PartsMeetAssumptions
<1>1. SV!Reload \/ SV!DownloadCut \/ SV!ReloadFails \/ SV!Reset
  BY ServerStepIsServers
<1>2. SV!ServeInv'
  BY <1>1, SV!ServeStep, SV!ServeReset DEF ServerInv, SV!Next
<1>3. ObjectOf(published) # Missing => AllWhole(ObjectOf(published))
  BY DEF ObjectOf, Artifact, AllWhole, PairInv, WA!WholeInv, WA!PublishedWhole, WA!Sources, Files
<1>4. resp' \in {resp, Missing, ObjectOf(published)} /\ idx' \in {idx, resp, NoIndex}
  <2>1. CASE SV!Verify
    <3>1. CASE SV!Verifies(resp, whole)
      <4>1. resp \in Objects
        BY <2>1 DEF SV!Verify, ServerInv, SV!ServeInv, SV!ReloadInv
      <4>2. SV!Copy(resp, whole) = resp
        BY <3>1, <4>1, SV!AcceptedIsWhole
      <4> QED
        BY <2>1, <3>1, <4>2 DEF SV!Verify
    <3>2. CASE ~SV!Verifies(resp, whole)
      BY <2>1, <3>2 DEF SV!Verify, SV!EndReload
    <3> QED
      BY <3>1, <3>2
  <2>2. CASE \/ SV!Poll \/ SV!Answer \/ SV!Download \/ SV!StoreETag
             \/ SV!DownloadCut \/ SV!ReloadFails \/ SV!Reset
    BY <2>2 DEF SV!Poll, SV!Answer, SV!Download, SV!StoreETag, SV!DownloadCut, SV!ReloadFails,
                SV!Reset, SV!EndReload
  <2> QED
    BY <1>1, <2>1, <2>2 DEF SV!Reload
<1>5. idx' = resp /\ idx' # NoIndex => resp # Missing
  BY <1>2, PipelineAssumption DEF SV!ServeInv, SV!ServedInv
<1> QED
  BY <1>2, <1>3, <1>4, <1>5 DEF ServerInv, ServedWhole, AllWhole


\* A step of a watcher: the object may be another one, and the server does not
\* know of it.
LEMMA OthersKeepServer ==
    ASSUME PairInv', ServerInv, UNCHANGED server PROVE ServerInv'
<1>1. (ObjectOf(published) \in Objects \cup {Missing})'
  BY ObjectThere, PTL
<1>2. SV!ServeInv'
  BY <1>1, PartsMeetAssumptions, SV!ObjectMoves DEF ServerInv, server, SV!reloadVars
<1> QED
  BY <1>2 DEF ServerInv, ServedWhole, AllWhole, server

LEMMA ServerStepsKeep == PairInv /\ ServerInv /\ [Next]_vars => ServerInv'
<1> SUFFICES ASSUME PairInv, ServerInv, [Next]_vars PROVE ServerInv'
  OBVIOUS
<1>1. PairInv'
  BY PairStep
<1>2. CASE Reload \/ ServerFault
  BY <1>2, ServerStepKeeps DEF Reload, ServerFault, OthersStay, ServerStep
<1>3. CASE Restart
  BY <1>1, <1>3, ServerStepKeeps, OthersKeepServer DEF Restart, ServerStep
<1>4. CASE Upload \/ CycleA \/ CycleB \/ WatcherFault \/ UNCHANGED vars
  BY <1>1, <1>4, OthersKeepServer DEF Upload, CycleA, CycleB, WatcherFault, vars
<1> QED
  BY <1>2, <1>3, <1>4 DEF Next

LEMMA PipelineInvariant == Spec => [](PairInv /\ ServerInv)
<1>1. Init => PairInv /\ ServerInv
  BY PairInit, ServerInit
<1>2. (PairInv /\ ServerInv) /\ [Next]_vars => (PairInv /\ ServerInv)'
  BY PairStep, ServerStepsKeep
<1> QED
  BY <1>1, <1>2, PTL DEF Spec

-----------------------------------------------------------------------------
(* What the pipeline promises from end to end.                             *)

\* When both watchers skip their polls, the published index is that of the
\* corpus, although each may have replaced what the other published, and in
\* the opposite order of their reads, and whichever answers were lost and
\* processes restarted, as long as the last to have published has not taken its
\* own index, found again, for that of the corpus; and a server that is told by
\* a 304 that its index is still the latest then serves the corpus as it is.
THEOREM NobodySkipsAChange == Spec => []BothSteadyMeansFresh
<1>1. PairInv /\ ServerInv => BothSteadyMeansFresh
  <2> SUFFICES ASSUME PairInv, ServerInv, lastFPA = stamp, lastFPB = stamp, ~Forgot
               PROVE  published = stamp /\ (pc = "sent" /\ S!NotModified => Served = stamp)
    BY DEF BothSteadyMeansFresh
  <2>1. published = stamp
    BY BothSteady
  <2>2. ASSUME pc = "sent", S!NotModified PROVE Served = stamp
    <3>1. idx = ObjectOf(published) /\ ObjectOf(published) # Missing
      BY <2>2, PartsMeetAssumptions, SV!TagTellsObject
      DEF ServerInv, SV!NotModifiedIsSound, S!NotModified, SV!NotModified
    <3>2. idx = Artifact(stamp) /\ idx \in Objects
      BY <2>1, <3>1, ObjectThere DEF ObjectOf
    <3> QED
      BY <3>2, PipelineAssumption DEF Served, Artifact
  <2> QED
    BY <2>1, <2>2
<1> QED
  BY <1>1, PipelineInvariant, PTL

\* No code is ever looked up in an index that was built from a file which was
\* still being written, whichever watcher built it, however uploads, reads of
\* the corpus, publishes and downloads interleave, and whoever is restarted.
THEOREM OnlyWholeFilesServed == Spec => []ServedWhole
<1>1. PairInv /\ ServerInv => ServedWhole
  BY DEF ServerInv
<1> QED
  BY <1>1, PipelineInvariant, PTL

\* What is true of the server alone is true of it behind the two watchers: it
\* runs only with an index, and with a verified one, also after its restarts.
THEOREM PipelineServesVerified == Spec => []S!ServesVerified
<1>1. ServerInv => S!ServesVerified
  BY DEF ServerInv, SV!ServeInv, SV!ServedInv, SV!ReloadInv, S!ServesVerified
<1> QED
  BY <1>1, PipelineInvariant, PTL

=============================================================================
