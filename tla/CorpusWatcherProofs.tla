------------------------ MODULE CorpusWatcherProofs ------------------------
(***************************************************************************)
(* Proofs that no watcher takes a stale index that it has published for a  *)
(* fresh one, nor publishes a file that was still being written, for any   *)
(* kind of target, any number of sources, drops, failed calls, lost        *)
(* answers and restarts.  The former rests on an order.  Stamps only grow, *)
(* every file is read after it was probed and lastFP is a probe taken      *)
(* before the reads of the published index: so when lastFP is the present  *)
(* stamp of every file, what was read between the two is the present       *)
(* content.                                                                *)
(***************************************************************************)
EXTENDS CorpusWatcher, SequenceTheorems, TLAPS

\* A fingerprint, as far as it is taken, is not ahead of the corpus.
ProbeInv(p) == /\ p \in Seq(Nat) /\ Len(p) <= NumSources
               /\ \A f \in 1 .. Len(p) : p[f] <= stamp[f]

\* The fingerprint that the cycle will store as lastFP.
Base == IF boot THEN fp ELSE fp2

\* What has been read was read after it was probed.
ReadInv == wpc = "read" =>
             /\ Len(Base) = NumSources
             /\ \A f \in Sources : got[f] # Unread => Base[f] <= got[f] /\ got[f] <= stamp[f]

\* The fingerprint of an index that the watcher has published is not ahead of
\* the published index, nor of what is being read to replace it: a publish of
\* which the answer was lost puts a later one in its place.
LastInv == lastFP # NoFP /\ ~adopted =>
             /\ lastFP \in [Sources -> Nat] /\ published \in [Sources -> Nat]
             /\ \A f \in Sources : lastFP[f] <= published[f] /\ published[f] <= stamp[f]
             /\ \A f \in Sources : got[f] # Unread => lastFP[f] <= got[f]

\* What a watcher keeps whatever is published, by itself or by others.
CycleInv == /\ stamp \in [Sources -> Nat]
            /\ wpc \in {"sleep", "probe", "exists", "settle", "read"}
            /\ boot \in BOOLEAN /\ adopted \in BOOLEAN
            /\ got \in [Sources -> Nat \cup {Unread}]
            /\ wpc = "exists" => lastFP = NoFP /\ Len(fp) = NumSources
            /\ wpc \in {"sleep", "probe", "exists", "settle"} =>
                  got = [f \in Sources |-> Unread]
            /\ ProbeInv(fp) /\ ProbeInv(fp2)
            /\ ReadInv

WatchInv == CycleInv /\ LastInv

LEMMA EmptyProbe ==
    /\ <<>> \in Seq(Nat) /\ Len(<<>>) = 0
    /\ \A f \in 1 .. Len(<<>>) : FALSE
BY EmptySeq

LEMMA CycleInit == Init => CycleInv
<1> SUFFICES ASSUME Init PROVE CycleInv
  OBVIOUS
<1>1. ProbeInv(fp) /\ ProbeInv(fp2)
  BY EmptyProbe, WatcherAssumption DEF Init, ProbeInv
<1> QED
  BY <1>1 DEF Init, CycleInv, ReadInv

\* The end of a cycle or of the process, whatever it leaves in lastFP.
LEMMA EndKeeps ==
    ASSUME CycleInv, UNCHANGED stamp, NEW newFP, NEW found \in BOOLEAN, EndCycle(newFP, found)
    PROVE  CycleInv'
<1>1. /\ wpc' = "sleep" /\ fp' = <<>> /\ fp2' = <<>> /\ boot' = FALSE
      /\ got' = [f \in Sources |-> Unread] /\ adopted' = found
      /\ stamp' = stamp
  BY DEF EndCycle
<1>2. ProbeInv(fp)' /\ ProbeInv(fp2)'
  BY <1>1, EmptyProbe, WatcherAssumption DEF ProbeInv
<1> QED
  BY <1>1, <1>2 DEF CycleInv, ReadInv

\* A file that moves on leaves every probe and every read behind it.
LEMMA UploadGrows ==
    ASSUME stamp \in [Sources -> Nat], Upload
    PROVE  /\ stamp' \in [Sources -> Nat]
           /\ \A g \in Sources : stamp[g] \in Nat /\ stamp'[g] \in Nat /\ stamp[g] <= stamp'[g]
           /\ UNCHANGED <<published, wpc, fp, fp2, boot, got, lastFP, adopted>>
BY DEF Upload, PutObject, BeginWrite, EndWrite, cycleVars, known

LEMMA GrowthKeeps ==
    ASSUME CycleInv, stamp' \in [Sources -> Nat], \A g \in Sources : stamp[g] <= stamp'[g],
           UNCHANGED <<wpc, fp, fp2, boot, got, lastFP, adopted>>
    PROVE  CycleInv'
<1>1. \A g \in Sources : stamp[g] \in Nat /\ stamp'[g] \in Nat /\ stamp[g] <= stamp'[g]
  BY DEF CycleInv
<1>2. ASSUME NEW p \in Seq(Nat), ProbeInv(p)
      PROVE  /\ Len(p) <= NumSources
             /\ \A g \in 1 .. Len(p) : p[g] <= stamp'[g]
  <2>1. \A g \in 1 .. Len(p) : g \in Sources /\ p[g] \in Nat
    BY <1>2, ElementOfSeq, LenProperties, WatcherAssumption DEF ProbeInv, Sources
  <2> QED
    BY <1>1, <1>2, <2>1 DEF ProbeInv
<1>3. ProbeInv(fp)' /\ ProbeInv(fp2)'
  <2>1. ProbeInv(fp) /\ ProbeInv(fp2) /\ fp \in Seq(Nat) /\ fp2 \in Seq(Nat)
    BY DEF CycleInv, ProbeInv
  <2> QED
    BY <1>2, <2>1 DEF ProbeInv
<1>4. ReadInv'
  <2>1. \A g \in Sources : got[g] # Unread => got[g] \in Nat
    BY DEF CycleInv
  <2> QED
    BY <1>1, <2>1 DEF CycleInv, ReadInv, Base
<1> QED
  BY <1>1, <1>3, <1>4 DEF CycleInv

\* A probe extends the fingerprint by the present stamp of the next source.
LEMMA ProbeKeeps ==
    ASSUME CycleInv, NEW p, ProbeInv(p), ~Probed(p)
    PROVE  /\ Append(p, stamp[Len(p) + 1]) \in Seq(Nat)
           /\ Len(Append(p, stamp[Len(p) + 1])) <= NumSources
           /\ \A f \in 1 .. Len(Append(p, stamp[Len(p) + 1])) :
                 Append(p, stamp[Len(p) + 1])[f] <= stamp[f]
<1> DEFINE n == Len(p) + 1
           q == Append(p, stamp[n])
<1>1. p \in Seq(Nat) /\ n \in Sources
  BY WatcherAssumption, LenProperties DEF ProbeInv, Probed, Sources
<1>2. stamp[n] \in Nat
  BY <1>1 DEF CycleInv
<1>3. /\ q \in Seq(Nat) /\ Len(q) = n
      /\ \A f \in 1 .. Len(p) : q[f] = p[f]
      /\ q[n] = stamp[n]
  BY <1>1, <1>2, AppendProperties
<1>4. n <= NumSources /\ n \in Nat /\ Len(p) \in Nat
  BY <1>1, WatcherAssumption, LenProperties DEF Sources
<1> HIDE DEF q
<1>5. \A f \in 1 .. n : q[f] <= stamp[f]
  <2> SUFFICES ASSUME NEW f \in 1 .. n PROVE q[f] <= stamp[f]
    OBVIOUS
  <2>1. CASE f = n
    BY <1>2, <1>3, <2>1
  <2>2. CASE f \in 1 .. Len(p)
    BY <1>3, <2>2 DEF ProbeInv
  <2> QED
    BY <1>4, <2>1, <2>2
<1> QED
  BY <1>3, <1>4, <1>5 DEF q

LEMMA CycleStep ==
    ASSUME CycleInv, [Next]_vars
    PROVE  CycleInv'
<1>1. CASE Upload
  BY <1>1, UploadGrows, GrowthKeeps DEF CycleInv
<1>2. CASE Tick
  <2>1. wpc' = "probe" /\ UNCHANGED <<stamp, fp, fp2, boot, got, lastFP, adopted>> /\ wpc = "sleep"
    BY <1>2 DEF Tick, known
  <2> QED
    BY <2>1 DEF CycleInv, ProbeInv, ReadInv
<1>3. CASE ProbeSource
  <2>1. /\ UNCHANGED <<stamp, wpc, boot, got, lastFP, adopted>>
        /\ wpc \in {"probe", "settle"}
        /\ ProbeInv(fp) /\ ProbeInv(fp2)
    BY <1>3 DEF ProbeSource, CycleInv, known
  <2>2. ProbeInv(fp)' /\ ProbeInv(fp2)'
    <3>1. CASE wpc = "probe"
      <4>1. ~Probed(fp) /\ fp' = Append(fp, stamp[Len(fp) + 1]) /\ fp2' = fp2
        BY <1>3, <3>1 DEF ProbeSource
      <4>2. ProbeInv(fp)'
        BY <2>1, <4>1, ProbeKeeps DEF ProbeInv
      <4> QED
        BY <2>1, <4>1, <4>2 DEF ProbeInv
    <3>2. CASE wpc = "settle"
      <4>1. ~Probed(fp2) /\ fp2' = Append(fp2, stamp[Len(fp2) + 1]) /\ fp' = fp
        BY <1>3, <3>2 DEF ProbeSource
      <4>2. ProbeInv(fp2)'
        BY <2>1, <4>1, ProbeKeeps DEF ProbeInv
      <4> QED
        BY <2>1, <4>1, <4>2 DEF ProbeInv
    <3> QED
      BY <2>1, <3>1, <3>2
  <2> QED
    BY <2>1, <2>2 DEF CycleInv, ReadInv
<1>4. CASE Observe
  <2>1. CASE EndCycle(lastFP, adopted)
    BY <1>4, <2>1, EndKeeps DEF Observe, CycleInv
  <2>2. CASE UNCHANGED <<fp, fp2, boot, got, lastFP, adopted>> /\ wpc' \in {"exists", "settle"}
    <3>1. /\ wpc = "probe" /\ Len(fp) = NumSources
          /\ wpc' = "exists" => lastFP = NoFP
          /\ stamp' = stamp
      BY <1>4, <2>2 DEF Observe, Probed, EndCycle
    <3> QED
      BY <2>2, <3>1 DEF CycleInv, ProbeInv, ReadInv
  <2> QED
    BY <1>4, <2>1, <2>2 DEF Observe, known
<1>5. CASE FirstObservation
  <2>1. wpc = "exists" /\ Len(fp) = NumSources /\ stamp' = stamp
    BY <1>5 DEF FirstObservation, CycleInv
  <2>2. CASE EndCycle(fp, TRUE)
    BY <2>1, <2>2, EndKeeps
  <2>3. CASE StartRebuild(TRUE)
    <3>1. got = [f \in Sources |-> Unread]
      BY <2>1 DEF CycleInv
    <3>2. ReadInv'
      BY <2>1, <2>3, <3>1 DEF StartRebuild, ReadInv, Base
    <3> QED
      BY <2>1, <2>3, <3>2 DEF StartRebuild, CycleInv, ProbeInv, known
  <2> QED
    BY <1>5, <2>2, <2>3 DEF FirstObservation
<1>6. CASE Settle
  <2>1. CASE EndCycle(lastFP, adopted)
    BY <1>6, <2>1, EndKeeps DEF Settle, CycleInv
  <2>2. CASE StartRebuild(FALSE)
    <3>1. wpc = "settle" /\ Len(fp2) = NumSources /\ stamp' = stamp
      BY <1>6 DEF Settle, Probed
    <3>2. got = [f \in Sources |-> Unread]
      BY <3>1 DEF CycleInv
    <3>3. ReadInv'
      BY <2>2, <3>1, <3>2 DEF StartRebuild, ReadInv, Base
    <3> QED
      BY <2>2, <3>1, <3>3 DEF StartRebuild, CycleInv, ProbeInv, known
  <2> QED
    BY <1>6, <2>1, <2>2 DEF Settle, LastFPWhenDeferred
<1>7. ASSUME NEW f \in Sources, ReadSource(f) PROVE CycleInv'
  <2>1. CASE EndCycle(lastFP, adopted)
    BY <1>7, <2>1, EndKeeps DEF ReadSource, CycleInv
  <2>2. CASE got' = [got EXCEPT ![f] = stamp[f]] /\ UNCHANGED <<wpc, fp, fp2, boot, lastFP, adopted>>
    <3>1. wpc = "read" /\ stamp' = stamp
      BY <1>7 DEF ReadSource
    <3>2. Base[f] <= stamp[f]
      <4>1. ProbeInv(Base) /\ f \in 1 .. Len(Base)
        BY <3>1 DEF CycleInv, ReadInv, Base, Sources
      <4> QED
        BY <4>1 DEF ProbeInv
    <3>3. got' \in [Sources -> Nat \cup {Unread}]
      BY <2>2 DEF CycleInv
    <3>4. ReadInv'
      <4>1. stamp[f] \in Nat /\ Base' = Base /\ Len(Base) = NumSources
        BY <2>2, <3>1 DEF CycleInv, ReadInv, Base
      <4>2. \A g \in Sources : got'[g] = IF g = f THEN stamp[f] ELSE got[g]
        BY <2>2 DEF CycleInv
      <4> HIDE DEF Base
      <4> QED
        BY <3>1, <3>2, <4>1, <4>2 DEF CycleInv, ReadInv
    <3> QED
      BY <2>2, <3>1, <3>3, <3>4 DEF CycleInv, ProbeInv
  <2> QED
    BY <1>7, <2>1, <2>2 DEF ReadSource, known
<1>8. CASE Publish
  BY <1>8, EndKeeps DEF Publish
<1>9. CASE PublishUnanswered \/ Fail \/ Restart
  BY <1>9, EndKeeps DEF PublishUnanswered, Fail, Restart, Reset, CycleInv
<1>10. CASE UNCHANGED vars
  <2>1. UNCHANGED <<stamp, wpc, fp, fp2, boot, got, lastFP, adopted>>
    BY <1>10 DEF vars, cycleVars, known
  <2> QED
    BY <2>1 DEF CycleInv, ProbeInv, ReadInv, Base
<1> QED
  BY <1>1, <1>2, <1>3, <1>4, <1>5, <1>6, <1>7, <1>8, <1>9, <1>10 DEF Next, Cycle

\* A fingerprint that is complete is one number for each source.
LEMMA CompleteProbe ==
    ASSUME NEW p, ProbeInv(p), Len(p) = NumSources PROVE p \in [Sources -> Nat]
BY LenProperties DEF ProbeInv, Sources

\* What is published has been read after it was probed, and before now.
LEMMA PublishReads ==
    ASSUME CycleInv, AllRead
    PROVE  /\ got \in [Sources -> Nat] /\ Base \in [Sources -> Nat]
           /\ \A f \in Sources : Base[f] <= got[f] /\ got[f] <= stamp[f]
<1>1. wpc = "read" /\ \A f \in Sources : got[f] # Unread
  BY DEF AllRead
<1>2. Base \in [Sources -> Nat]
  <2>1. Base \in Seq(Nat) /\ Len(Base) = NumSources
    BY <1>1 DEF CycleInv, ReadInv, ProbeInv, Base
  <2> HIDE DEF Base
  <2> QED
    BY <2>1 DEF Sources
<1>3. got \in [Sources -> Nat]
  BY <1>1 DEF CycleInv
<1> QED
  BY <1>1, <1>2, <1>3 DEF CycleInv, ReadInv

\* lastFP is not ahead of the corpus, nor of what is being read, whether it
\* stands for an index that was published or for one that was found.
KnownInv == lastFP # NoFP =>
              /\ lastFP \in [Sources -> Nat]
              /\ \A f \in Sources : lastFP[f] <= stamp[f]
              /\ \A f \in Sources : got[f] # Unread => lastFP[f] <= got[f]

LEMMA KnownInit == Init => KnownInv
BY DEF Init, KnownInv

\* A cycle that ends with a fingerprint of its own, the old one or none.
LEMMA KnownEnds ==
    ASSUME CycleInv, KnownInv, UNCHANGED stamp, NEW newFP, NEW found, EndCycle(newFP, found),
           \/ newFP = NoFP \/ newFP = lastFP
           \/ newFP \in [Sources -> Nat] /\ \A f \in Sources : newFP[f] <= stamp[f]
    PROVE  KnownInv'
<1>1. /\ got' = [f \in Sources |-> Unread]
      /\ lastFP' = newFP \/ lastFP' = NoFP
  BY DEF EndCycle
<1> QED
  BY <1>1 DEF KnownInv

LEMMA KnownStep ==
    ASSUME CycleInv, KnownInv, [Next]_vars
    PROVE  KnownInv'
<1>1. CASE Upload
  <2>1. /\ \A g \in Sources : stamp[g] \in Nat /\ stamp'[g] \in Nat /\ stamp[g] <= stamp'[g]
        /\ UNCHANGED <<got, lastFP>>
    BY <1>1, UploadGrows DEF CycleInv
  <2> QED
    BY <2>1 DEF KnownInv
<1>2. CASE UNCHANGED <<stamp, got, lastFP>>
  BY <1>2 DEF KnownInv
<1>3. ASSUME UNCHANGED stamp, EndCycle(lastFP, adopted) PROVE KnownInv'
  BY <1>3, KnownEnds
<1>4. CASE Tick \/ ProbeSource
  BY <1>2, <1>4 DEF Tick, ProbeSource, known
<1>5. CASE Observe
  BY <1>2, <1>3, <1>5 DEF Observe, known
<1>6. CASE FirstObservation
  <2>1. CASE EndCycle(fp, TRUE)
    <3>1. ProbeInv(fp) /\ Len(fp) = NumSources /\ stamp' = stamp
      BY <1>6 DEF FirstObservation, CycleInv
    <3>2. fp \in [Sources -> Nat] /\ \A f \in Sources : fp[f] <= stamp[f]
      BY <3>1, CompleteProbe DEF ProbeInv, Sources
    <3> QED
      BY <2>1, <3>1, <3>2, KnownEnds
  <2>2. CASE StartRebuild(TRUE)
    BY <1>2, <1>6, <2>2 DEF FirstObservation, StartRebuild, known
  <2> QED
    BY <1>6, <2>1, <2>2 DEF FirstObservation
<1>7. CASE Settle
  BY <1>2, <1>3, <1>7 DEF Settle, StartRebuild, LastFPWhenDeferred, known
<1>8. ASSUME NEW f \in Sources, ReadSource(f) PROVE KnownInv'
  <2>1. CASE EndCycle(lastFP, adopted)
    BY <1>3, <1>8, <2>1 DEF ReadSource
  <2>2. CASE got' = [got EXCEPT ![f] = stamp[f]] /\ UNCHANGED lastFP
    <3>1. stamp' = stamp
      BY <1>8 DEF ReadSource
    <3>2. stamp[f] \in Nat /\ \A g \in Sources : got'[g] = IF g = f THEN stamp[f] ELSE got[g]
      BY <2>2 DEF CycleInv
    <3> QED
      BY <2>2, <3>1, <3>2 DEF KnownInv
  <2> QED
    BY <1>8, <2>1, <2>2 DEF ReadSource, known
<1>9. CASE Publish
  <2>1. Base \in [Sources -> Nat] /\ \A f \in Sources : Base[f] <= stamp[f]
    <3>1. /\ got \in [Sources -> Nat] /\ Base \in [Sources -> Nat] /\ stamp \in [Sources -> Nat]
          /\ \A f \in Sources : Base[f] <= got[f] /\ got[f] <= stamp[f]
      BY <1>9, PublishReads DEF Publish, CycleInv
    <3> HIDE DEF Base
    <3> QED
      BY <3>1
  <2>2. stamp' = stamp /\ EndCycle(Base, FALSE)
    BY <1>9 DEF Publish, FPAfterRebuild, Base
  <2> HIDE DEF Base
  <2> QED
    BY <2>1, <2>2, KnownEnds
<1>10. CASE PublishUnanswered \/ Fail
  BY <1>3, <1>10 DEF PublishUnanswered, Fail
<1>11. CASE Restart
  BY <1>11, KnownEnds DEF Restart, Reset
<1>12. CASE UNCHANGED vars
  BY <1>2, <1>12 DEF vars, cycleVars, known
<1> QED
  BY <1>1, <1>4, <1>5, <1>6, <1>7, <1>8, <1>9, <1>10, <1>11, <1>12 DEF Next, Cycle

\* What a step of a watcher does to lastFP and the published index.  Either it
\* leaves both as they are, but that lastFP may be lost or an index that is
\* found adopted,
Keeps == /\ UNCHANGED <<stamp, published>>
         /\ \/ UNCHANGED <<lastFP, adopted>>
            \/ lastFP' = NoFP
            \/ adopted' /\ published # NoIndex

\* or it publishes an index that is not behind lastFP, nor ahead of the corpus.
Replaces == /\ stamp' = stamp
            /\ published' \in [Sources -> Nat]
            /\ \A f \in Sources : published'[f] <= stamp[f]
            /\ lastFP' # NoFP => /\ lastFP' \in [Sources -> Nat]
                                 /\ \A f \in Sources : lastFP'[f] <= published'[f]

LEMMA CycleTells ==
    ASSUME CycleInv, ~Once, Cycle
    PROVE  IF AllRead THEN Replaces ELSE Keeps
<1>1. CASE AllRead
  <2>1. wpc = "read" /\ \A f \in Sources : got[f] # Unread
    BY <1>1 DEF AllRead
  <2>2. Publish
    BY <2>1 DEF Cycle, Tick, ProbeSource, Observe, FirstObservation, Settle, ReadSource, Readable
  <2>3. /\ got \in [Sources -> Nat] /\ Base \in [Sources -> Nat]
        /\ \A f \in Sources : Base[f] <= got[f] /\ got[f] <= stamp[f]
    BY <1>1, PublishReads
  <2>4. published' = got /\ stamp' = stamp /\ lastFP' = Base
    BY <2>2 DEF Publish, EndCycle, FPAfterRebuild, Base
  <2> HIDE DEF Base
  <2> QED
    BY <1>1, <2>3, <2>4 DEF Replaces
<1>2. CASE ~AllRead
  <2>1. CASE FirstObservation
    BY <1>2, <2>1 DEF FirstObservation, EndCycle, StartRebuild, known, Keeps
  <2>2. CASE Tick \/ ProbeSource \/ Observe \/ Settle \/ \E f \in Sources : ReadSource(f)
    BY <1>2, <2>2 DEF Tick, ProbeSource, Observe, Settle, ReadSource, EndCycle, StartRebuild,
                      LastFPWhenDeferred, known, Keeps
  <2> QED
    BY <1>2, <2>1, <2>2 DEF Cycle, Publish
<1> QED
  BY <1>1, <1>2

LEMMA FaultTells ==
    ASSUME CycleInv, KnownInv, ~Once
    PROVE  /\ Fail \/ Reset => Keeps
           /\ PublishUnanswered => Replaces
<1>1. Fail \/ Reset => Keeps
  BY DEF Fail, Reset, EndCycle, Keeps
<1>2. ASSUME PublishUnanswered PROVE Replaces
  <2>1. /\ got \in [Sources -> Nat]
        /\ \A f \in Sources : got[f] # Unread /\ got[f] <= stamp[f]
    BY <1>2, PublishReads DEF PublishUnanswered, AllRead
  <2>2. published' = got /\ stamp' = stamp /\ lastFP' = lastFP
    BY <1>2 DEF PublishUnanswered, EndCycle
  <2> QED
    BY <2>1, <2>2 DEF KnownInv, Replaces
<1> QED
  BY <1>1, <1>2

\* What is left of lastFP when nothing is published: what it was, or it is
\* forgotten, or it stands for an index that was found.
LEMMA EndTells ==
    ASSUME LastInv, UNCHANGED <<stamp, published>>,
           NEW newFP, NEW found, EndCycle(newFP, found),
           newFP = NoFP \/ found = TRUE \/ (newFP = lastFP /\ found = adopted)
    PROVE  LastInv'
<1>1. /\ got' = [f \in Sources |-> Unread] /\ adopted' = found
      /\ lastFP' = newFP \/ lastFP' = NoFP
  BY DEF EndCycle
<1> QED
  BY <1>1 DEF LastInv

LEMMA LastStep ==
    ASSUME WatchInv, [Next]_vars
    PROVE  LastInv'
<1>1. CASE Upload
  <2>1. /\ \A g \in Sources : stamp[g] \in Nat /\ stamp'[g] \in Nat /\ stamp[g] <= stamp'[g]
        /\ UNCHANGED <<published, got, lastFP, adopted>>
    BY <1>1, UploadGrows DEF WatchInv, CycleInv
  <2> QED
    BY <2>1 DEF WatchInv, LastInv
<1>2. CASE UNCHANGED <<stamp, published, got, lastFP, adopted>>
  BY <1>2 DEF WatchInv, LastInv
<1>3. ASSUME UNCHANGED <<stamp, published>>, EndCycle(lastFP, adopted) PROVE LastInv'
  BY <1>3, EndTells DEF WatchInv
<1>4. CASE Tick \/ ProbeSource
  BY <1>2, <1>4 DEF Tick, ProbeSource, known
<1>5. CASE Observe
  BY <1>2, <1>3, <1>5 DEF Observe, known
<1>6. CASE FirstObservation
  <2>1. CASE EndCycle(fp, TRUE)
    BY <1>6, <2>1, EndTells DEF FirstObservation, WatchInv
  <2>2. CASE StartRebuild(TRUE)
    BY <1>2, <1>6, <2>2 DEF FirstObservation, StartRebuild, known
  <2> QED
    BY <1>6, <2>1, <2>2 DEF FirstObservation
<1>7. CASE Settle
  BY <1>2, <1>3, <1>7 DEF Settle, StartRebuild, LastFPWhenDeferred, known
<1>8. ASSUME NEW f \in Sources, ReadSource(f) PROVE LastInv'
  <2>1. CASE EndCycle(lastFP, adopted)
    BY <1>3, <1>8, <2>1 DEF ReadSource
  <2>2. CASE got' = [got EXCEPT ![f] = stamp[f]] /\ UNCHANGED <<lastFP, adopted>>
    <3>1. stamp' = stamp /\ published' = published
      BY <1>8 DEF ReadSource
    <3>2. stamp[f] \in Nat /\ \A g \in Sources : got'[g] = IF g = f THEN stamp[f] ELSE got[g]
      BY <2>2 DEF WatchInv, CycleInv
    <3> QED
      BY <2>2, <3>1, <3>2 DEF WatchInv, LastInv
  <2> QED
    BY <1>8, <2>1, <2>2 DEF ReadSource, known
<1>9. CASE Publish
  <2>1. /\ got \in [Sources -> Nat] /\ Base \in [Sources -> Nat]
        /\ \A f \in Sources : Base[f] <= got[f] /\ got[f] <= stamp[f]
    BY <1>9, PublishReads DEF Publish, WatchInv
  <2>2. /\ published' = got /\ stamp' = stamp /\ got' = [f \in Sources |-> Unread]
        /\ lastFP' = Base \/ lastFP' = NoFP
    BY <1>9 DEF Publish, EndCycle, FPAfterRebuild, Base
  <2> HIDE DEF Base
  <2> QED
    BY <2>1, <2>2 DEF LastInv
<1>10. CASE PublishUnanswered
  <2>1. got \in [Sources -> Nat] /\ \A f \in Sources : got[f] # Unread /\ got[f] <= stamp[f]
    BY <1>10, PublishReads DEF PublishUnanswered, WatchInv, AllRead
  <2>2. /\ published' = got /\ stamp' = stamp /\ got' = [f \in Sources |-> Unread]
        /\ adopted' = adopted /\ (lastFP' = lastFP \/ lastFP' = NoFP)
    BY <1>10 DEF PublishUnanswered, EndCycle
  <2> QED
    BY <2>1, <2>2 DEF WatchInv, LastInv
<1>11. CASE Fail \/ Restart
  BY <1>11, EndTells DEF Fail, Restart, Reset, WatchInv
<1>12. CASE UNCHANGED vars
  BY <1>2, <1>12 DEF vars, cycleVars, known
<1> QED
  BY <1>1, <1>4, <1>5, <1>6, <1>7, <1>8, <1>9, <1>10, <1>11, <1>12 DEF Next, Cycle

LEMMA WatchInit == Init => WatchInv
BY CycleInit DEF Init, WatchInv, LastInv

LEMMA WatchStep ==
    ASSUME WatchInv, [Next]_vars
    PROVE  WatchInv'
BY CycleStep, LastStep DEF WatchInv

LEMMA SteadyFollows == WatchInv => SteadyMeansFresh
<1> SUFFICES ASSUME WatchInv, lastFP = stamp, ~adopted PROVE published = stamp
  BY DEF SteadyMeansFresh, Fresh
<1>1. stamp \in [Sources -> Nat] /\ lastFP # NoFP
  BY WatcherAssumption DEF WatchInv, CycleInv, Sources
<1>2. /\ published \in [Sources -> Nat]
      /\ \A f \in Sources : lastFP[f] <= published[f] /\ published[f] <= stamp[f]
  BY <1>1 DEF WatchInv, LastInv
<1>3. \A f \in Sources : published[f] = stamp[f]
  BY <1>1, <1>2
<1> QED
  BY <1>1, <1>2, <1>3

\* A watcher skips a poll only when the published index was built from the
\* files as they now are, or when it goes by an index that it found.
THEOREM WatcherSteadyMeansFresh == Spec => []SteadyMeansFresh
<1>1. Init => WatchInv
  BY WatchInit
<1>2. WatchInv /\ [Next]_vars => WatchInv'
  BY WatchStep
<1>3. WatchInv => SteadyMeansFresh
  BY SteadyFollows
<1> QED
  BY <1>1, <1>2, <1>3, PTL DEF Spec

-----------------------------------------------------------------------------
(* Nothing but whole files is published, in every setting.                 *)

\* What has been read was whole when it was read, as is what was published.
WholeInv == /\ DOMAIN got = Sources
            /\ \A f \in Sources : got[f] # Unread => Whole(got[f])
            /\ PublishedWhole

LEMMA WholeInit == Init => WholeInv
BY DEF Init, WholeInv, PublishedWhole

\* A cycle that ends forgets what it has read.
LEMMA EndForgets ==
    ASSUME WholeInv, NEW newFP, NEW found, EndCycle(newFP, found), PublishedWhole'
    PROVE  WholeInv'
BY DEF WholeInv, EndCycle

LEMMA WholeStep == WholeInv /\ [Next]_vars => WholeInv'
<1> SUFFICES ASSUME WholeInv, [Next]_vars PROVE WholeInv'
  OBVIOUS
<1>1. CASE UNCHANGED <<published, got>>
  BY <1>1 DEF WholeInv, PublishedWhole
<1>2. ASSUME UNCHANGED published, NEW newFP, NEW found, EndCycle(newFP, found) PROVE WholeInv'
  <2>1. PublishedWhole'
    BY <1>2 DEF WholeInv, PublishedWhole
  <2> QED
    BY <1>2, <2>1, EndForgets
<1>3. ASSUME AllRead, published' = got, NEW newFP, NEW found, EndCycle(newFP, found) PROVE WholeInv'
  <2>1. PublishedWhole'
    BY <1>3 DEF WholeInv, PublishedWhole, AllRead
  <2> QED
    BY <1>3, <2>1, EndForgets
<1>4. CASE Upload
  BY <1>1, <1>4 DEF Upload, PutObject, BeginWrite, EndWrite, cycleVars
<1>5. CASE Tick \/ ProbeSource
  BY <1>1, <1>5 DEF Tick, ProbeSource
<1>6. CASE Observe
  BY <1>1, <1>2, <1>6 DEF Observe
<1>7. CASE FirstObservation
  BY <1>1, <1>2, <1>7 DEF FirstObservation, StartRebuild
<1>8. CASE Settle
  BY <1>1, <1>2, <1>8 DEF Settle, StartRebuild
<1>9. ASSUME NEW f \in Sources, ReadSource(f) PROVE WholeInv'
  <2>1. CASE Accepts(stamp[f])
    <3>1. got' = [got EXCEPT ![f] = stamp[f]] /\ UNCHANGED published
      BY <1>9, <2>1 DEF ReadSource
    <3> QED
      BY <2>1, <3>1 DEF WholeInv, PublishedWhole, Accepts
  <2>2. CASE ~Accepts(stamp[f])
    BY <1>2, <1>9, <2>2 DEF ReadSource
  <2> QED
    BY <2>1, <2>2
<1>10. CASE Publish
  BY <1>3, <1>10 DEF Publish
<1>11. CASE PublishUnanswered
  BY <1>3, <1>11 DEF PublishUnanswered
<1>12. CASE Fail \/ Restart
  BY <1>2, <1>12 DEF Fail, Restart, Reset
<1>13. CASE UNCHANGED vars
  BY <1>1, <1>13 DEF vars, cycleVars
<1> QED
  BY <1>4, <1>5, <1>6, <1>7, <1>8, <1>9, <1>10, <1>11, <1>12, <1>13 DEF Next, Cycle

\* A process that starts again keeps what does not depend on its memory.
LEMMA ResetKeeps ==
    ASSUME CycleInv, KnownInv, WholeInv, Reset
    PROVE  CycleInv' /\ KnownInv' /\ WholeInv'
<1>1. CycleInv' /\ KnownInv'
  BY EndKeeps, KnownEnds DEF Reset
<1>2. PublishedWhole'
  BY DEF Reset, WholeInv, PublishedWhole
<1> QED
  BY <1>1, <1>2, EndForgets DEF Reset

\* No index is built from a file that was still being written, however reads
\* and writes interleave, for local and remote sources and any target.
THEOREM OnlyWholeFilesPublished == Spec => []PublishedWhole
<1>1. Init => WholeInv
  BY WholeInit
<1>2. WholeInv /\ [Next]_vars => WholeInv'
  BY WholeStep
<1>3. WholeInv => PublishedWhole
  BY DEF WholeInv
<1> QED
  BY <1>1, <1>2, <1>3, PTL DEF Spec

-----------------------------------------------------------------------------
(* The types.                                                              *)

\* A remote object is never half written, and no file is ahead of its drops.
StampBound == \A f \in Sources : stamp[f] <= 2 * MaxGen /\ (f \notin Local => Whole(stamp[f]))

Bounds == /\ StampBound
          /\ published \in {NoIndex} \cup [Sources -> Nat]
          /\ lastFP \in {NoFP} \cup [Sources -> Nat]
          /\ faults \in 0 .. MaxFaults /\ restarts \in 0 .. MaxRestarts

LEMMA BoundsInit == Init => Bounds
BY WatcherAssumption DEF Init, Bounds, StampBound, Whole

LEMMA BoundsUpload ==
    ASSUME CycleInv, StampBound, Upload
    PROVE  StampBound'
<1> PICK f \in Sources : PutObject(f) \/ BeginWrite(f) \/ EndWrite(f)
  BY DEF Upload
<1> USE WatcherAssumption
<1>1. \A g \in Sources : g # f => stamp'[g] = stamp[g]
  BY DEF PutObject, BeginWrite, EndWrite, CycleInv
<1>2. stamp[f] \in Nat /\ stamp[f] <= 2 * MaxGen /\ MaxGen \in Nat
  BY DEF CycleInv, StampBound
<1>3. CASE PutObject(f)
  <2>1. stamp'[f] = stamp[f] + 2 /\ stamp[f] < 2 * MaxGen /\ stamp[f] % 2 = 0
    BY <1>3 DEF PutObject, CycleInv, StampBound, Whole
  <2>2. stamp'[f] <= 2 * MaxGen /\ stamp'[f] % 2 = 0
    BY <1>2, <2>1
  <2> QED
    BY <1>1, <2>2 DEF StampBound, Whole
<1>4. CASE BeginWrite(f)
  <2>1. stamp'[f] = stamp[f] + 1 /\ stamp[f] < 2 * MaxGen /\ f \in Local
    BY <1>4 DEF BeginWrite, CycleInv
  <2> QED
    BY <1>1, <1>2, <2>1 DEF StampBound
<1>5. CASE EndWrite(f)
  <2>1. stamp'[f] = stamp[f] + 1 /\ stamp[f] % 2 # 0
    BY <1>5 DEF EndWrite, CycleInv, Whole
  <2>2. stamp'[f] <= 2 * MaxGen /\ f \in Local
    BY <1>2, <2>1 DEF StampBound, Whole
  <2> QED
    BY <1>1, <2>2 DEF StampBound
<1> QED
  BY <1>3, <1>4, <1>5

LEMMA BoundsStep ==
    ASSUME CycleInv, Bounds, [Next]_vars PROVE Bounds'
<1> USE WatcherAssumption
<1>1. CASE Upload
  <2>1. UNCHANGED <<published, lastFP, faults, restarts>>
    BY <1>1 DEF Upload, PutObject, BeginWrite, EndWrite, known, budgets
  <2> QED
    BY <1>1, <2>1, BoundsUpload DEF Bounds
<1>2. ASSUME stamp' = stamp, published' = published, UNCHANGED budgets,
             lastFP' \in {lastFP, NoFP}
      PROVE  Bounds'
  BY <1>2 DEF Bounds, StampBound, budgets
<1>3. CASE Tick \/ ProbeSource \/ Observe \/ Settle \/ \E f \in Sources : ReadSource(f)
  <2>1. /\ stamp' = stamp /\ published' = published /\ UNCHANGED budgets
        /\ lastFP' \in {lastFP, NoFP}
    BY <1>3 DEF Tick, ProbeSource, Observe, Settle, ReadSource, EndCycle, StartRebuild,
                LastFPWhenDeferred, known
  <2> QED
    BY <1>2, <2>1
<1>4. CASE FirstObservation
  <2>1. Len(fp) = NumSources /\ ProbeInv(fp)
    BY <1>4 DEF FirstObservation, CycleInv
  <2>2. fp \in [Sources -> Nat]
    BY <2>1, CompleteProbe
  <2>3. /\ lastFP' \in {lastFP, NoFP, fp} /\ stamp' = stamp /\ published' = published
        /\ restarts' = restarts /\ faults' \in 0 .. MaxFaults
    BY <1>4 DEF FirstObservation, EndCycle, StartRebuild, known, Bounds
  <2> QED
    BY <2>2, <2>3 DEF Bounds, StampBound
<1>5. CASE Publish \/ PublishUnanswered
  <2>1. /\ wpc = "read" /\ \A f \in Sources : got[f] # Unread
        /\ published' = got /\ stamp' = stamp /\ restarts' = restarts
        /\ lastFP' \in {lastFP, NoFP, Base} /\ faults' \in {faults, faults + 1}
        /\ faults' = faults + 1 => faults < MaxFaults
    BY <1>5 DEF Publish, PublishUnanswered, AllRead, EndCycle, FPAfterRebuild, Base, Bounds, budgets
  <2>2. ProbeInv(Base) /\ Len(Base) = NumSources
    BY <2>1 DEF CycleInv, ReadInv, Base
  <2>3. Base \in [Sources -> Nat] /\ got \in [Sources -> Nat]
    BY <2>1, <2>2, CompleteProbe DEF CycleInv
  <2> QED
    BY <2>1, <2>3 DEF Bounds, StampBound
<1>6. CASE Fail \/ Restart
  BY <1>6 DEF Fail, Restart, Reset, EndCycle, Bounds, StampBound
<1>7. CASE UNCHANGED vars
  BY <1>7 DEF vars, cycleVars, known, budgets, Bounds, StampBound
<1> QED
  BY <1>1, <1>3, <1>4, <1>5, <1>6, <1>7 DEF Next, Cycle

\* The types of the watcher's state, in every setting.
THEOREM WatcherTypeCorrect == Spec => []TypeOK
<1>1. Init => CycleInv /\ Bounds
  BY CycleInit, BoundsInit
<1>2. (CycleInv /\ Bounds) /\ [Next]_vars => (CycleInv /\ Bounds)'
  BY CycleStep, BoundsStep
<1>3. CycleInv /\ Bounds => TypeOK
  BY WatcherAssumption DEF CycleInv, ProbeInv, Bounds, StampBound, TypeOK
<1> QED
  BY <1>1, <1>2, <1>3, PTL DEF Spec
=============================================================================
