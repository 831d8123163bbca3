------------------------- MODULE IndexBuilderProofs -------------------------
(***************************************************************************)
(* Proofs about IndexBuilder, for every corpus, partitioning, number of    *)
(* workers and buffer size.                                                *)
(***************************************************************************)
EXTENDS IndexBuilder, FiniteSetTheorems, SequenceTheorems, TLAPS

-----------------------------------------------------------------------------
(* Facts about the operators of the code.                                  *)

\* Appending a record adds its code to the codes of a buffer.
LEMMA AppendRange ==
    ASSUME NEW S, NEW q \in Seq(S), NEW e \in S
    PROVE  Range(Append(q, e)) = Range(q) \cup {e}
<1>1. Append(q, e) \in Seq(S) /\ Len(Append(q, e)) = Len(q) + 1
  BY AppendProperties
<1>2. Range(Append(q, e)) = {Append(q, e)[i] : i \in 1 .. Len(q) + 1}
  BY <1>1, RangeEquality
<1>3. Range(q) = {q[i] : i \in 1 .. Len(q)}
  BY RangeEquality
<1>4. /\ \A i \in 1 .. Len(q) : Append(q, e)[i] = q[i]
      /\ Append(q, e)[Len(q) + 1] = e
  BY AppendProperties
<1>5. 1 .. Len(q) + 1 = (1 .. Len(q)) \cup {Len(q) + 1} /\ Len(q) \in Nat
  BY LenProperties
<1> QED
  BY <1>2, <1>3, <1>4, <1>5

\* An empty buffer holds no code.
LEMMA EmptyRange == Range(<<>>) = {}
BY DEF Range

\* Two bits of the mask are set exactly when two distinct sources set one.
LEMMA TwoBits ==
    ASSUME NEW T \in SUBSET Sources
    PROVE  Cardinality(T) >= 2 <=> \E s, t \in T : s # t
<1>1. IsFiniteSet(T) /\ Cardinality(T) \in Nat
  BY SourcesAssumption, FS_Subset, FS_CardinalityType
<1>2. ASSUME Cardinality(T) >= 2 PROVE \E s, t \in T : s # t
  <2>1. T # {}
    BY <1>2, FS_EmptySet
  <2>2. PICK s \in T : TRUE
    BY <2>1
  <2>3. Cardinality(T) # 1
    BY <1>1, <1>2
  <2>4. T # {s}
    BY <2>3, FS_Singleton
  <2> QED
    BY <2>2, <2>4
<1>3. ASSUME NEW s \in T, NEW t \in T, s # t PROVE Cardinality(T) >= 2
  <2>1. Cardinality({s}) = 1 /\ IsFiniteSet({s})
    BY FS_Singleton
  <2>2. IsFiniteSet({s} \cup {t}) /\ Cardinality({s} \cup {t}) = 2
    BY <2>1, <1>3, FS_AddElement
  <2>3. Cardinality({s} \cup {t}) <= Cardinality(T)
    BY <1>1, FS_Subset, {s} \cup {t} \in SUBSET T
  <2> QED
    BY <1>1, <2>2, <2>3
<1> QED
  BY <1>2, <1>3

-----------------------------------------------------------------------------
(* Type correctness, including the bound on every in-memory buffer.        *)

LEMMA EmptyPartsTyped ==
    /\ EmptyParts \in [Sources -> [Parts -> Seq(Codes)]]
    /\ \A s \in Sources, p \in Parts : Len(EmptyParts[s][p]) = 0
BY EmptySeq DEF EmptyParts

\* The locals of Build have their types and the buffers are empty.
LEMMA LocalsTyped ==
    ASSUME NoLocals, corpus' \in Corpora
    PROVE  /\ src' \in [Sources -> {"stream", "done", "failed"}]
           /\ pos' \in [Sources -> Nat]
           /\ \A s \in Sources : pos'[s] <= Len(corpus'[s].lines)
           /\ buf' \in [Sources -> [Parts -> Seq(Codes)]]
           /\ \A s \in Sources, p \in Parts : Len(buf'[s][p]) < FlushRecords
           /\ wpc' \in [Workers -> {"pull", "count", "exit"}]
           /\ wpart' \in [Workers -> Parts]
           /\ next' \in Nat
           /\ found' \in [Parts -> SUBSET Codes]
           /\ failed' \in BOOLEAN
           /\ ctx' \in {"live", "cancelled"}
<1>1. \A s \in Sources : Len(corpus'[s].lines) \in Nat
  <2>1. corpus' \in Corpus
    BY BuilderAssumption
  <2> QED
    BY <2>1, LenProperties DEF Corpus
<1>2. \A s \in Sources : pos'[s] <= Len(corpus'[s].lines)
  BY <1>1 DEF NoLocals
<1>3. 0 \in Parts
  BY BuilderAssumption DEF Parts
<1>4. /\ buf' \in [Sources -> [Parts -> Seq(Codes)]]
      /\ \A s \in Sources, p \in Parts : Len(buf'[s][p]) < FlushRecords
  BY EmptyPartsTyped, BuilderAssumption DEF NoLocals
<1>5. wpart' \in [Workers -> Parts]
  BY <1>3 DEF NoLocals
<1> QED
  BY <1>2, <1>4, <1>5 DEF NoLocals

\* Build has returned or died: its locals are gone, the files are left.
LEMMA GoneTyped ==
    ASSUME TypeOK, NoLocals, main' = "idle", corpus' = corpus,
           spill' \in [Sources -> [Parts -> Seq(Codes)]],
           index' \in {NoIndex} \cup [codes : SUBSET Codes, from : Corpora]
    PROVE  TypeOK'
<1>1. corpus' \in Corpora
  BY DEF TypeOK
<1> QED
  BY <1>1, LocalsTyped DEF TypeOK

LEMMA TypeInit == Init => TypeOK
<1> SUFFICES ASSUME Init PROVE TypeOK
  OBVIOUS
<1>1. \A s \in Sources : Len(corpus[s].lines) \in Nat
  <2>1. corpus \in Corpus
    BY BuilderAssumption DEF Init
  <2> QED
    BY <2>1, LenProperties DEF Corpus
<1>2. 0 \in Parts
  BY BuilderAssumption DEF Parts
<1>3. /\ buf \in [Sources -> [Parts -> Seq(Codes)]]
      /\ \A s \in Sources, p \in Parts : Len(buf[s][p]) < FlushRecords
      /\ spill \in [Sources -> [Parts -> Seq(Codes)]]
  BY EmptyPartsTyped, BuilderAssumption DEF Init
<1>4. \A s \in Sources : pos[s] <= Len(corpus[s].lines)
  BY <1>1 DEF Init
<1>5. wpart \in [Workers -> Parts]
  BY <1>2 DEF Init
<1> QED
  BY <1>3, <1>4, <1>5 DEF Init, TypeOK

\* What CountPartition and the merge of perPartition produce are codes.
LEMMA CountTyped ==
    /\ \A p \in Parts : CountPartition(p) \in SUBSET Codes
    /\ found \in [Parts -> SUBSET Codes] => UNION Range(found) \in SUBSET Codes
BY DEF CountPartition, Range

LEMMA TypeStep == TypeOK /\ [Next]_vars => TypeOK'
<1> SUFFICES ASSUME TypeOK, [Next]_vars PROVE TypeOK'
  OBVIOUS
<1>0. corpus \in Corpus /\ \A s \in Sources : Len(corpus[s].lines) \in Nat
  <2>1. corpus \in Corpus
    BY BuilderAssumption DEF TypeOK
  <2> QED
    BY <2>1, LenProperties DEF Corpus
<1>1. CASE StartBuild
  <2>1. corpus' \in Corpora
    BY <1>1 DEF StartBuild
  <2>2. NoLocals
    BY <1>1 DEF StartBuild
  <2>3. spill' \in [Sources -> [Parts -> Seq(Codes)]]
    BY <1>1, EmptyPartsTyped DEF StartBuild, ScratchAtStart, TypeOK
  <2> QED
    BY <1>1, <2>1, <2>2, <2>3, LocalsTyped DEF StartBuild, TypeOK
<1>2. ASSUME NEW s \in Sources, SourceStep(s) \/ SourceFault(s) PROVE TypeOK'
  <2>1. CASE ScatterLine(s)
    <3> DEFINE code == Norm[corpus[s].lines[pos[s] + 1]]
    <3>1. pos[s] + 1 \in 1 .. Len(corpus[s].lines) /\ pos' = [pos EXCEPT ![s] = @ + 1]
      BY <1>0, <2>1 DEF ScatterLine, AtEnd, TypeOK
    <3>2. \A t \in Sources : pos'[t] \in Nat /\ pos'[t] <= Len(corpus[t].lines)
      BY <1>0, <3>1 DEF TypeOK
    <3>3. code \in Codes \cup {Rejected}
      <4>1. corpus[s].lines \in Seq(Lines)
        BY <1>0 DEF Corpus
      <4>2. corpus[s].lines[pos[s] + 1] \in Lines
        BY <3>1, <4>1, ElementOfSeq
      <4> QED
        BY <4>2, NormAssumption
    <3>4. /\ spill' \in [Sources -> [Parts -> Seq(Codes)]]
          /\ buf' \in [Sources -> [Parts -> Seq(Codes)]]
          /\ \A t \in Sources, p \in Parts : Len(buf'[t][p]) < FlushRecords
      <4>1. CASE code = Rejected
        BY <2>1, <4>1 DEF ScatterLine, TypeOK
      <4>2. CASE code # Rejected
        <5> DEFINE p == Route[code]
                   b == Append(buf[s][p], code)
        <5>1. code \in Codes /\ p \in Parts
          BY <3>3, <4>2, BuilderAssumption
        <5>2. b \in Seq(Codes) /\ Len(b) = Len(buf[s][p]) + 1 /\ Len(b) \in Nat
          BY <5>1, AppendProperties, LenProperties DEF TypeOK
        <5>3. spill[s][p] \o b \in Seq(Codes)
          BY <5>1, <5>2, ConcatProperties DEF TypeOK
        <5>4. Spill(s, code)
          BY <2>1, <4>2 DEF ScatterLine
        <5>5. CASE Len(b) >= FlushRecords
          <6>1. /\ spill' = [spill EXCEPT ![s][p] = @ \o b]
                /\ buf' = [buf EXCEPT ![s][p] = <<>>]
            BY <5>4, <5>5 DEF Spill, MustFlush
          <6>2. <<>> \in Seq(Codes) /\ Len(<<>>) = 0
            BY EmptySeq
          <6>3. spill' \in [Sources -> [Parts -> Seq(Codes)]]
            BY <5>1, <5>3, <6>1 DEF TypeOK
          <6>4. buf' \in [Sources -> [Parts -> Seq(Codes)]]
            BY <5>1, <6>1, <6>2 DEF TypeOK
          <6>5. \A t \in Sources, q \in Parts : Len(buf'[t][q]) < FlushRecords
            <7>1. 0 < FlushRecords
              BY BuilderAssumption
            <7> SUFFICES ASSUME NEW t \in Sources, NEW q \in Parts
                         PROVE  Len(buf'[t][q]) < FlushRecords
              OBVIOUS
            <7>2. buf'[t][q] = <<>> \/ buf'[t][q] = buf[t][q]
              BY <5>1, <6>1 DEF TypeOK
            <7> QED
              BY <6>2, <7>1, <7>2 DEF TypeOK
          <6> QED
            BY <6>3, <6>4, <6>5
        <5>6. CASE ~(Len(b) >= FlushRecords)
          <6>1. spill' = spill /\ buf' = [buf EXCEPT ![s][p] = b]
            BY <5>4, <5>6 DEF Spill, MustFlush
          <6>2. Len(b) < FlushRecords
            BY <5>2, <5>6, BuilderAssumption
          <6> QED
            BY <5>1, <5>2, <6>1, <6>2 DEF TypeOK
        <5> QED
          BY <5>5, <5>6
      <4> QED
        BY <4>1, <4>2
    <3> QED
      BY <2>1, <3>1, <3>2, <3>4 DEF ScatterLine, countVars, TypeOK
  <2>2. CASE FinishSource(s)
    <3>1. \A p \in Parts : spill[s][p] \o buf[s][p] \in Seq(Codes)
      BY ConcatProperties DEF TypeOK
    <3>2. spill' \in [Sources -> [Parts -> Seq(Codes)]]
      BY <2>2, <3>1 DEF FinishSource, TailFlush, TypeOK
    <3>3. /\ buf' \in [Sources -> [Parts -> Seq(Codes)]]
          /\ \A t \in Sources, p \in Parts : Len(buf'[t][p]) < FlushRecords
      <4>1. <<>> \in Seq(Codes) /\ Len(<<>>) = 0
        BY EmptySeq
      <4> QED
        BY <2>2, <4>1, BuilderAssumption DEF FinishSource, TypeOK
    <3> QED
      BY <2>2, <3>2, <3>3 DEF FinishSource, countVars, TypeOK
  <2>3. CASE StopSource(s) \/ SourceFault(s)
    BY <2>3 DEF StopSource, SourceFault, FailSource, countVars, TypeOK
  <2> QED
    BY <1>2, <2>1, <2>2, <2>3 DEF SourceStep
<1>3. ASSUME NEW w \in Workers, WorkerStep(w) \/ CountFault(w) PROVE TypeOK'
  <2>1. CASE PullPartition(w)
    <3>1. next < NumParts => next \in Parts
      BY BuilderAssumption DEF TypeOK, Parts
    <3>2. next' \in Nat /\ (next >= NumParts \/ next < NumParts)
      BY <2>1, BuilderAssumption DEF PullPartition, TypeOK
    <3>3. wpart' \in [Workers -> Parts]
      BY <2>1, <3>1, <3>2 DEF PullPartition, TypeOK
    <3> QED
      BY <2>1, <3>2, <3>3 DEF PullPartition, scatterVars, TypeOK
  <2>2. CASE CountDone(w)
    BY <2>2, CountTyped DEF CountDone, scatterVars, TypeOK
  <2>3. CASE CountFault(w)
    BY <2>3 DEF CountFault, scatterVars, TypeOK
  <2> QED
    BY <1>3, <2>1, <2>2, <2>3 DEF WorkerStep
<1>4. CASE (JoinSources \/ JoinWorkers) /\ ~JoinErr
  BY <1>4 DEF JoinSources, JoinWorkers, scatterVars, countVars, TypeOK
<1>5. CASE (JoinSources \/ JoinWorkers) /\ JoinErr
  BY <1>5, GoneTyped, EmptyPartsTyped
     DEF JoinSources, JoinWorkers, Return, ScratchAfterReturn, TypeOK
<1>6. CASE WriteIndex
  <2>1. index' \in [codes : SUBSET Codes, from : Corpora]
    BY <1>6, CountTyped DEF WriteIndex, TypeOK
  <2> QED
    BY <1>6, <2>1, GoneTyped, EmptyPartsTyped DEF WriteIndex, Return, ScratchAfterReturn
<1>7. CASE WriteIndexFault
  BY <1>7, GoneTyped, EmptyPartsTyped
     DEF WriteIndexFault, Return, ScratchAfterReturn, TypeOK
<1>8. CASE Cancel
  BY <1>8 DEF Cancel, scatterVars, countVars, TypeOK
<1>9. CASE Crash
  BY <1>9, GoneTyped DEF Crash, TypeOK
<1>10. CASE UNCHANGED vars
  BY <1>10 DEF vars, scatterVars, countVars, TypeOK
<1> QED
  BY <1>1, <1>2, <1>3, <1>4, <1>5, <1>6, <1>7, <1>8, <1>9, <1>10
     DEF Next, MainStep, Faults

\* The state of a build has its type, and no buffer of pass 1 outgrows
\* spillFlushRecords, at every step of any run.
THEOREM TypeCorrect == Spec => []TypeOK
BY TypeInit, TypeStep, PTL DEF Spec

-----------------------------------------------------------------------------
(* Exactness.  The index is written from perPartition, perPartition from   *)
(* the spill files, the spill files from the lines: the invariant says of  *)
(* each hand-over that nothing is lost and nothing foreign is let in, or   *)
(* that an error or a cancellation is recorded which the next join sees.   *)

Exact == SpillExact /\ SourcesAccounted /\ PartitionsAccounted /\ IndexExact

\* The codes of the first n lines, one line at a time.
LEMMA KeptStep ==
    ASSUME NEW lines \in Seq(Lines), NEW n \in Nat, n < Len(lines)
    PROVE  KeptUpTo(lines, n + 1) = KeptUpTo(lines, n) \cup ({Norm[lines[n + 1]]} \ {Rejected})
<1>1. 1 .. n + 1 = (1 .. n) \cup {n + 1}
  OBVIOUS
<1> QED
  BY <1>1 DEF KeptUpTo

\* No line, no code.
LEMMA KeptNone == \A lines : KeptUpTo(lines, 0) = {}
BY DEF KeptUpTo

\* Counting a partition gives its valid codes, provided every spill file
\* holds exactly the codes of its source that route there: "equal codes hash
\* equally", so no copy of a code is looked for in the wrong partition.
LEMMA CountIsRule ==
    ASSUME NEW p \in Parts,
           \A s \in Sources :
              Range(spill[s][p]) = {c \in Kept(corpus[s].lines) : Route[c] = p}
    PROVE  CountPartition(p) = ValidIn(p)
<1> SUFFICES ASSUME NEW c \in Codes
             PROVE  c \in CountPartition(p) <=> c \in ValidIn(p)
  BY DEF CountPartition, ValidIn, ValidCodes
<1> DEFINE T == {s \in Sources : c \in Range(spill[s][p])}
<1>1. c \in CountPartition(p) <=> Cardinality(T) >= 2
  BY DEF CountPartition
<1>2. Cardinality(T) >= 2 <=> \E s, t \in T : s # t
  <2>1. T \in SUBSET Sources
    OBVIOUS
  <2> HIDE DEF T
  <2> QED
    BY <2>1, TwoBits
<1>3. (\E s, t \in T : s # t) <=> c \in ValidIn(p)
  BY DEF ValidIn, ValidCodes
<1> QED
  BY <1>1, <1>2, <1>3

\* The partitions of a corpus's valid codes make up all of them.
LEMMA MergeIsAll ==
    ASSUME found \in [Parts -> SUBSET Codes],
           \A p \in Parts : found[p] = ValidIn(p)
    PROVE  UNION Range(found) = ValidCodes(corpus)
<1>1. UNION Range(found) = UNION {ValidIn(p) : p \in Parts}
  BY DEF Range
<1>2. \A c \in ValidCodes(corpus) : Route[c] \in Parts
  BY BuilderAssumption DEF ValidCodes
<1> QED
  BY <1>1, <1>2 DEF ValidIn

\* Before a worker has pulled, pass 2 owes nothing.
LEMMA NoWorkYet ==
    ASSUME next = 0, \A w \in Workers : wpc[w] = "pull", main # "write"
    PROVE  PartitionsAccounted
<1>1. \A p \in Parts : ~(p < next)
  BY BuilderAssumption DEF Parts
<1> QED
  BY <1>1 DEF PartitionsAccounted

LEMMA ExactInit == Init => Exact
<1> SUFFICES ASSUME Init PROVE Exact
  OBVIOUS
<1>1. PartitionsAccounted
  BY NoWorkYet DEF Init
<1>2. SpillExact /\ SourcesAccounted /\ IndexExact
  BY DEF Init, SpillExact, SourcesAccounted, IndexExact
<1> QED
  BY <1>1, <1>2 DEF Exact

\* A build that is over, or has just begun, owes nothing but the index.
LEMMA ExactFresh ==
    ASSUME NoLocals, main' \in {"idle", "scatter"}
    PROVE  SourcesAccounted' /\ PartitionsAccounted'
<1>1. /\ \A s \in Sources : src'[s] = "stream"
      /\ \A w \in Workers : wpc'[w] = "pull"
      /\ next' = 0
  BY DEF NoLocals
<1>2. \A p \in Parts : ~(p < next')
  BY <1>1, BuilderAssumption DEF Parts
<1> QED
  BY <1>1, <1>2 DEF SourcesAccounted, PartitionsAccounted

\* Every way a build ends without writing keeps the invariant.
LEMMA ExactGone ==
    ASSUME Exact, NoLocals, main' = "idle", index' = index
    PROVE  Exact'
BY ExactFresh DEF Exact, SpillExact, IndexExact

\* Pass 1 does not touch what pass 2 is accountable for.
LEMMA ScatterLeavesCount ==
    ASSUME SourcesAccounted, main = "scatter", main' = "scatter",
           UNCHANGED <<countVars, index>>, IndexExact
    PROVE  /\ PartitionsAccounted' /\ IndexExact'
           /\ next' = 0 /\ \A w \in Workers : wpc'[w] = "pull"
<1>1. next' = 0 /\ \A w \in Workers : wpc'[w] = "pull"
  BY DEF SourcesAccounted, countVars
<1>2. \A p \in Parts : ~(p < next')
  BY <1>1, BuilderAssumption DEF Parts
<1> QED
  BY <1>1, <1>2 DEF PartitionsAccounted, IndexExact

\* One line of one source: its code reaches the buffer or the spill file of
\* its partition, and every other code stays where it was.
LEMMA ScatterExact ==
    ASSUME TypeOK, SpillExact, NEW s \in Sources, ScatterLine(s)
    PROVE  SpillExact'
<1> DEFINE lines == corpus[s].lines
           code == Norm[lines[pos[s] + 1]]
<1>1. lines \in Seq(Lines)
  <2>1. corpus \in Corpus
    BY BuilderAssumption DEF TypeOK
  <2> QED
    BY <2>1 DEF Corpus
<1>2. /\ main = "scatter" /\ corpus' = corpus
      /\ pos' = [pos EXCEPT ![s] = @ + 1]
      /\ pos[s] \in Nat /\ pos[s] < Len(lines)
  BY <1>1, LenProperties DEF ScatterLine, Streaming, AtEnd, TypeOK
<1>3. code \in Codes \cup {Rejected}
  <2>1. lines[pos[s] + 1] \in Lines
    BY <1>1, <1>2, ElementOfSeq, LenProperties
  <2> QED
    BY <2>1, NormAssumption
<1>4. KeptUpTo(lines, pos'[s]) = KeptUpTo(lines, pos[s]) \cup ({code} \ {Rejected})
  <2>1. pos'[s] = pos[s] + 1
    BY <1>2 DEF TypeOK
  <2> QED
    BY <1>1, <1>2, <2>1, KeptStep
<1> SUFFICES ASSUME NEW t \in Sources, NEW p \in Parts
             PROVE  Range(spill'[t][p]) \cup Range(buf'[t][p])
                        = {c \in KeptUpTo(corpus[t].lines, pos'[t]) : Route[c] = p}
  BY <1>2 DEF SpillExact
<1>5. Range(spill[t][p]) \cup Range(buf[t][p])
         = {c \in KeptUpTo(corpus[t].lines, pos[t]) : Route[c] = p}
  BY <1>2 DEF SpillExact
<1>6. t # s => pos'[t] = pos[t]
  BY <1>2 DEF TypeOK
<1> HIDE DEF lines, code
<1>7. CASE code = Rejected
  <2>1. spill' = spill /\ buf' = buf
    BY <1>7 DEF ScatterLine, code, lines
  <2>2. KeptUpTo(corpus[t].lines, pos'[t]) = KeptUpTo(corpus[t].lines, pos[t])
    <3>1. CASE t = s
      BY <1>4, <1>7, <3>1 DEF lines
    <3>2. CASE t # s
      BY <1>6, <3>2
    <3> QED
      BY <3>1, <3>2
  <2> QED
    BY <1>5, <2>1, <2>2
<1>8. CASE code # Rejected
  <2> DEFINE q == Route[code]
             b == Append(buf[s][q], code)
  <2>1. code \in Codes /\ q \in Parts
    BY <1>3, <1>8, BuilderAssumption
  <2>2. b \in Seq(Codes) /\ Range(b) = Range(buf[s][q]) \cup {code}
    BY <2>1, AppendRange, AppendProperties DEF TypeOK
  <2>3. Spill(s, code)
    BY <1>8 DEF ScatterLine, code, lines
  <2>4. CASE t = s /\ p = q
    <3>1. Range(spill'[s][q]) \cup Range(buf'[s][q])
             = Range(spill[s][q]) \cup Range(buf[s][q]) \cup {code}
      <4>1. CASE MustFlush(b)
        <5>1. /\ spill' = [spill EXCEPT ![s][q] = @ \o b]
              /\ buf' = [buf EXCEPT ![s][q] = <<>>]
          BY <2>3, <4>1 DEF Spill
        <5>2. spill'[s][q] = spill[s][q] \o b /\ buf'[s][q] = <<>>
          BY <2>1, <5>1 DEF TypeOK
        <5>3. spill[s][q] \in Seq(Codes)
          BY <2>1 DEF TypeOK
        <5>4. Range(spill'[s][q]) = Range(spill[s][q]) \cup Range(b)
          <6> HIDE DEF q, b
          <6> QED
            BY <2>2, <5>2, <5>3, RangeConcatenation
        <5> QED
          BY <2>2, <5>2, <5>4, EmptyRange
      <4>2. CASE ~MustFlush(b)
        <5>1. spill' = spill /\ buf' = [buf EXCEPT ![s][q] = b]
          BY <2>3, <4>2 DEF Spill
        <5>2. buf'[s][q] = b
          BY <2>1, <5>1 DEF TypeOK
        <5> QED
          BY <2>2, <5>1, <5>2
      <4> QED
        BY <4>1, <4>2
    <3>2. {c \in KeptUpTo(lines, pos'[s]) : Route[c] = q}
             = {c \in KeptUpTo(lines, pos[s]) : Route[c] = q} \cup {code}
      BY <1>4, <1>8
    <3> QED
      BY <1>5, <2>4, <3>1, <3>2 DEF lines
  <2>5. CASE ~(t = s /\ p = q)
    <3>1. spill'[t][p] = spill[t][p] /\ buf'[t][p] = buf[t][p]
      <4> HIDE DEF q
      <4>1. CASE MustFlush(b)
        <5>1. /\ spill' = [spill EXCEPT ![s][q] = @ \o b]
              /\ buf' = [buf EXCEPT ![s][q] = <<>>]
          BY <2>3, <4>1 DEF Spill, q
        <5> QED
          BY <2>1, <2>5, <5>1 DEF TypeOK
      <4>2. CASE ~MustFlush(b)
        <5>1. spill' = spill /\ buf' = [buf EXCEPT ![s][q] = b]
          BY <2>3, <4>2 DEF Spill, q
        <5> QED
          BY <2>1, <2>5, <5>1 DEF TypeOK
      <4> QED
        BY <4>1, <4>2
    <3>2. {c \in KeptUpTo(corpus[t].lines, pos'[t]) : Route[c] = p}
             = {c \in KeptUpTo(corpus[t].lines, pos[t]) : Route[c] = p}
      <4>1. CASE t = s
        BY <1>4, <2>5, <4>1 DEF lines
      <4>2. CASE t # s
        BY <1>6, <4>2
      <4> QED
        BY <4>1, <4>2
    <3> QED
      BY <1>5, <3>1, <3>2
  <2> QED
    BY <2>4, <2>5
<1> QED
  BY <1>7, <1>8

\* The tail flush moves the codes from the buffers to the spill files.
LEMMA FinishExact ==
    ASSUME TypeOK, SpillExact, NEW s \in Sources, FinishSource(s)
    PROVE  SpillExact'
<1> SUFFICES ASSUME NEW t \in Sources, NEW p \in Parts
             PROVE  Range(spill'[t][p]) \cup Range(buf'[t][p])
                        = Range(spill[t][p]) \cup Range(buf[t][p])
  BY DEF FinishSource, Streaming, SpillExact
<1>1. CASE t = s
  <2>1. spill'[s][p] = spill[s][p] \o buf[s][p] /\ buf'[s][p] = <<>>
    BY DEF FinishSource, TailFlush, TypeOK
  <2>2. spill[s][p] \in Seq(Codes) /\ buf[s][p] \in Seq(Codes)
    BY DEF TypeOK
  <2>3. Range(spill[s][p] \o buf[s][p]) = Range(spill[s][p]) \cup Range(buf[s][p])
    BY <2>2, RangeConcatenation
  <2> QED
    BY <1>1, <2>1, <2>3, EmptyRange
<1>2. CASE t # s
  <2>1. spill'[t] = spill[t] /\ buf'[t] = buf[t]
    BY <1>2 DEF FinishSource, TypeOK
  <2> QED
    BY <2>1
<1> QED
  BY <1>1, <1>2

\* When every source is done its spill files alone hold its codes.
LEMMA SpilledAll ==
    ASSUME TypeOK, SpillExact, SourcesAccounted, main \in {"count", "write"}
    PROVE  \A s \in Sources, p \in Parts :
              Range(spill[s][p]) = {c \in Kept(corpus[s].lines) : Route[c] = p}
<1> SUFFICES ASSUME NEW s \in Sources, NEW p \in Parts
             PROVE  Range(spill[s][p]) = {c \in Kept(corpus[s].lines) : Route[c] = p}
  OBVIOUS
<1>1. pos[s] = Len(corpus[s].lines) /\ buf[s][p] = <<>>
  BY DEF SourcesAccounted, AtEnd
<1> QED
  BY <1>1, EmptyRange DEF SpillExact, Kept

\* Pass 1 as a whole.
LEMMA SourceExact ==
    ASSUME TypeOK, Exact, NEW s \in Sources, SourceStep(s) \/ SourceFault(s)
    PROVE  Exact'
<1> USE DEF Exact
<1>1. main = "scatter" /\ main' = "scatter" /\ corpus' = corpus /\ UNCHANGED <<countVars, index>>
  BY DEF SourceStep, ScatterLine, FinishSource, StopSource, SourceFault, FailSource, Streaming
<1>2. /\ PartitionsAccounted' /\ IndexExact'
      /\ next' = 0 /\ \A w \in Workers : wpc'[w] = "pull"
  BY <1>1, ScatterLeavesCount
<1>3. CASE ScatterLine(s)
  <2>1. SpillExact'
    BY <1>3, ScatterExact
  <2>2. \A t \in Sources : src'[t] = src[t] /\ (src[t] # "stream" =>
            pos'[t] = pos[t] /\ buf'[t] = buf[t])
    <3>1. src' = src /\ src[s] = "stream" /\ pos' = [pos EXCEPT ![s] = @ + 1]
      BY <1>3 DEF ScatterLine, Streaming
    <3>2. \A t \in Sources : t # s => buf'[t] = buf[t]
      BY <1>3 DEF ScatterLine, Spill, TypeOK
    <3> QED
      BY <3>1, <3>2 DEF TypeOK
  <2>3. failed' = failed
    BY <1>3 DEF ScatterLine
  <2>4. SourcesAccounted'
    BY <1>1, <1>2, <2>2, <2>3 DEF SourcesAccounted, AtEnd
  <2> QED
    BY <1>2, <2>1, <2>4
<1>4. CASE FinishSource(s)
  <2>1. SpillExact'
    BY <1>4, FinishExact
  <2>2. /\ src' = [src EXCEPT ![s] = "done"] /\ AtEnd(s) /\ corpus[s].intact
        /\ pos' = pos /\ failed' = failed
        /\ \A p \in Parts : buf'[s][p] = <<>>
        /\ \A t \in Sources : t # s => buf'[t] = buf[t]
    BY <1>4 DEF FinishSource, StreamVerifies, TypeOK
  <2>3. SourcesAccounted'
    <3> SUFFICES ASSUME NEW t \in Sources
                 PROVE  /\ src'[t] = "done" => /\ AtEnd(t)' /\ corpus'[t].intact
                                               /\ \A p \in Parts : buf'[t][p] = <<>>
                        /\ src'[t] = "failed" => failed'
      BY <1>1, <1>2 DEF SourcesAccounted
    <3>1. CASE t = s
      BY <1>1, <2>2, <3>1 DEF AtEnd, TypeOK
    <3>2. CASE t # s
      BY <1>1, <2>2, <3>2 DEF AtEnd, TypeOK, SourcesAccounted
    <3> QED
      BY <3>1, <3>2
  <2> QED
    BY <1>2, <2>1, <2>3
<1>5. CASE StopSource(s) \/ SourceFault(s)
  <2>1. /\ src' = [src EXCEPT ![s] = "failed"] /\ failed'
        /\ UNCHANGED <<pos, buf, spill>>
    BY <1>5 DEF StopSource, SourceFault, FailSource
  <2>2. SpillExact'
    BY <1>1, <2>1 DEF SpillExact
  <2>3. SourcesAccounted'
    BY <1>1, <1>2, <2>1 DEF SourcesAccounted, AtEnd, TypeOK
  <2> QED
    BY <1>2, <2>2, <2>3
<1> QED
  BY <1>3, <1>4, <1>5 DEF SourceStep

\* Pass 2: what a pull, a count and a failed count do to the account.
LEMMA WorkerExact ==
    ASSUME TypeOK, Exact, NEW w \in Workers, WorkerStep(w) \/ CountFault(w)
    PROVE  Exact'
<1> USE DEF Exact
<1>1. /\ main = "count" /\ main' = "count" /\ ctx' = ctx
      /\ corpus' = corpus /\ UNCHANGED <<scatterVars, spill, index>>
  BY DEF WorkerStep, PullPartition, CountDone, CountFault
<1>2. failed => failed'
  BY DEF WorkerStep, PullPartition, CountDone, CountFault
<1>3. SpillExact' /\ SourcesAccounted' /\ IndexExact'
  BY <1>1, <1>2 DEF SpillExact, SourcesAccounted, AtEnd, IndexExact, scatterVars
<1>4. \A p \in Parts : ValidIn(p)' = ValidIn(p)
  BY <1>1 DEF ValidIn
<1>5. CASE PullPartition(w)
  <2>1. next' = next + 1 /\ found' = found /\ failed' = failed /\ next \in Nat
    BY <1>5 DEF PullPartition, TypeOK
  <2>2. CASE next >= NumParts \/ ctx = "cancelled"
    <3>1. wpc' = [wpc EXCEPT ![w] = "exit"] /\ wpart' = wpart /\ wpc[w] = "pull"
      BY <1>5, <2>2 DEF PullPartition
    <3>2. ASSUME NEW v \in Workers, wpc'[v] = "exit"
          PROVE  next' >= NumParts \/ failed' \/ ctx' = "cancelled"
      <4>1. CASE v = w
        BY <1>1, <2>1, <2>2, BuilderAssumption
      <4>2. CASE v # w
        <5>1. wpc[v] = "exit"
          BY <3>1, <3>2, <4>2 DEF TypeOK
        <5> QED
          BY <1>1, <2>1, <5>1, BuilderAssumption DEF PartitionsAccounted
      <4> QED
        BY <4>1, <4>2
    <3>3. ASSUME NEW p \in Parts, p < next'
          PROVE  \/ found'[p] = ValidIn(p)'
                 \/ \E v \in Workers : wpc'[v] = "count" /\ wpart'[v] = p
                 \/ failed' \/ ctx' = "cancelled"
      <4>1. p < next \/ ctx = "cancelled"
        BY <2>1, <2>2, <3>3, BuilderAssumption DEF Parts
      <4>2. \A v \in Workers : wpc[v] = "count" => wpc'[v] = "count"
        BY <3>1 DEF TypeOK
      <4> QED
        BY <1>1, <1>4, <2>1, <3>1, <4>1, <4>2 DEF PartitionsAccounted
    <3> QED
      BY <1>1, <1>3, <3>2, <3>3 DEF PartitionsAccounted
  <2>3. CASE ~(next >= NumParts \/ ctx = "cancelled")
    <3>1. /\ wpc' = [wpc EXCEPT ![w] = "count"] /\ wpc[w] = "pull"
          /\ wpart' = [wpart EXCEPT ![w] = next]
      BY <1>5, <2>3 DEF PullPartition
    <3>2. \A v \in Workers : wpc'[v] = "exit" => wpc[v] = "exit"
      BY <3>1 DEF TypeOK
    <3>3. ASSUME NEW p \in Parts, p < next'
          PROVE  \/ found'[p] = ValidIn(p)'
                 \/ \E v \in Workers : wpc'[v] = "count" /\ wpart'[v] = p
                 \/ failed' \/ ctx' = "cancelled"
      <4>1. CASE p = next
        <5>1. wpc'[w] = "count" /\ wpart'[w] = p
          BY <3>1, <4>1 DEF TypeOK
        <5> QED
          BY <5>1
      <4>2. CASE p # next
        <5>1. p < next
          BY <2>1, <3>3, <4>2, BuilderAssumption DEF Parts
        <5>2. \A v \in Workers : wpc[v] = "count" => wpc'[v] = "count" /\ wpart'[v] = wpart[v]
          BY <3>1 DEF TypeOK
        <5> QED
          BY <1>1, <1>4, <2>1, <5>1, <5>2 DEF PartitionsAccounted
      <4> QED
        BY <4>1, <4>2
    <3>4. \A v \in Workers : wpc'[v] = "exit" => next' >= NumParts \/ failed' \/ ctx' = "cancelled"
      BY <1>1, <2>1, <3>2, BuilderAssumption DEF PartitionsAccounted
    <3> QED
      BY <1>1, <1>3, <3>3, <3>4 DEF PartitionsAccounted
  <2> QED
    BY <2>2, <2>3
<1>6. CASE CountDone(w)
  <2> DEFINE q == wpart[w]
  <2>1. /\ found' = [found EXCEPT ![q] = CountPartition(q)]
        /\ wpc' = [wpc EXCEPT ![w] = "pull"] /\ wpc[w] = "count"
        /\ wpart' = wpart /\ next' = next /\ failed' = failed
    BY <1>6 DEF CountDone
  <2>2. q \in Parts
    BY DEF TypeOK
  <2>3. CountPartition(q) = ValidIn(q)
    BY <1>1, <2>2, SpilledAll, CountIsRule
  <2> HIDE DEF q
  <2>4. ASSUME NEW p \in Parts, p < next'
        PROVE  \/ found'[p] = ValidIn(p)'
               \/ \E v \in Workers : wpc'[v] = "count" /\ wpart'[v] = p
               \/ failed' \/ ctx' = "cancelled"
    <3>1. CASE p = q
      <4>1. found'[p] = ValidIn(p)
        BY <2>1, <2>2, <2>3, <3>1 DEF TypeOK
      <4> QED
        BY <1>4, <4>1
    <3>2. CASE p # q
      <4>1. found'[p] = found[p]
        BY <2>1, <2>2, <3>2 DEF TypeOK
      <4>2. \A v \in Workers : wpc[v] = "count" /\ wpart[v] = p => wpc'[v] = "count"
        BY <2>1, <3>2 DEF TypeOK, q
      <4> QED
        BY <1>1, <1>4, <2>1, <2>4, <4>1, <4>2 DEF PartitionsAccounted
    <3> QED
      BY <3>1, <3>2
  <2>5. \A v \in Workers : wpc'[v] = "exit" => wpc[v] = "exit"
    BY <2>1 DEF TypeOK
  <2> QED
    BY <1>1, <1>3, <2>1, <2>4, <2>5 DEF PartitionsAccounted
<1>7. CASE CountFault(w)
  <2>1. failed'
    BY <1>7 DEF CountFault
  <2> QED
    BY <1>1, <1>3, <2>1 DEF PartitionsAccounted
<1> QED
  BY <1>5, <1>6, <1>7 DEF WorkerStep

\* A join that answers no error passes on work that is complete.
LEMMA JoinExact ==
    ASSUME TypeOK, Exact, JoinSources \/ JoinWorkers, ~JoinErr
    PROVE  Exact'
<1> USE DEF Exact
<1>1. /\ ~failed /\ ctx # "cancelled" /\ UNCHANGED <<failed, ctx, corpus, spill, index>>
      /\ src' = src /\ pos' = pos /\ buf' = buf
      /\ wpc' = wpc /\ wpart' = wpart /\ next' = next /\ found' = found
  BY DEF JoinSources, JoinWorkers, JoinErr, scatterVars, countVars
<1>2. CASE JoinSources
  <2>1. main = "scatter" /\ main' = "count" /\ \A s \in Sources : src[s] # "stream"
    BY <1>2 DEF JoinSources, SourcesJoined
  <2>2. \A s \in Sources : src[s] = "done"
    BY <1>1, <2>1 DEF SourcesAccounted, TypeOK
  <2>3. next' = 0 /\ \A w \in Workers : wpc'[w] = "pull"
    BY <1>1, <2>1 DEF SourcesAccounted
  <2>4. \A p \in Parts : ~(p < next')
    BY <2>3, BuilderAssumption DEF Parts
  <2> QED
    BY <1>1, <2>1, <2>2, <2>3, <2>4
       DEF SpillExact, SourcesAccounted, AtEnd, PartitionsAccounted, IndexExact
<1>3. CASE JoinWorkers
  <2>1. main = "count" /\ main' = "write" /\ \A w \in Workers : wpc[w] = "exit"
    BY <1>3 DEF JoinWorkers
  <2>2. next >= NumParts
    BY <1>1, <2>1, BuilderAssumption DEF PartitionsAccounted
  <2>3. \A p \in Parts : p < next
    BY <2>2, BuilderAssumption DEF Parts, TypeOK
  <2>4. \A p \in Parts : found[p] = ValidIn(p)
    BY <1>1, <2>1, <2>3 DEF PartitionsAccounted
  <2>5. \A p \in Parts : ValidIn(p)' = ValidIn(p)
    BY <1>1 DEF ValidIn
  <2>6. PartitionsAccounted'
    BY <1>1, <2>1, <2>2, <2>4, <2>5 DEF PartitionsAccounted
  <2> QED
    BY <1>1, <2>1, <2>6 DEF SpillExact, SourcesAccounted, AtEnd, IndexExact
<1> QED
  BY <1>2, <1>3

\* The index that is written is exact and of a whole corpus.
LEMMA WrittenExact ==
    ASSUME TypeOK, Exact, main = "write"
    PROVE  UNION Range(found) = ValidCodes(corpus) /\ Intact(corpus)
<1>1. UNION Range(found) = ValidCodes(corpus)
  BY MergeIsAll DEF Exact, PartitionsAccounted, TypeOK
<1>2. Intact(corpus)
  BY DEF Exact, SourcesAccounted, Intact
<1> QED
  BY <1>1, <1>2

LEMMA ExactStep ==
    ASSUME ~TempDirGiven, TypeOK, Exact, [Next]_vars
    PROVE  Exact'
<1>1. CASE StartBuild
  <2>1. NoLocals /\ main' = "scatter" /\ index' = index /\ spill' = EmptyParts
    BY <1>1 DEF StartBuild, ScratchAtStart
  <2>2. SourcesAccounted' /\ PartitionsAccounted'
    BY <2>1, ExactFresh
  <2>3. SpillExact'
    BY <2>1, EmptyRange, KeptNone DEF NoLocals, EmptyParts, SpillExact
  <2> QED
    BY <2>1, <2>2, <2>3 DEF Exact, IndexExact
<1>2. ASSUME NEW s \in Sources, SourceStep(s) \/ SourceFault(s) PROVE Exact'
  BY <1>2, SourceExact
<1>3. ASSUME NEW w \in Workers, WorkerStep(w) \/ CountFault(w) PROVE Exact'
  BY <1>3, WorkerExact
<1>4. CASE (JoinSources \/ JoinWorkers) /\ ~JoinErr
  BY <1>4, JoinExact
<1>5. CASE ((JoinSources \/ JoinWorkers) /\ JoinErr) \/ WriteIndexFault \/ Crash
  <2>1. NoLocals /\ main' = "idle" /\ index' = index
    BY <1>5 DEF JoinSources, JoinWorkers, WriteIndexFault, Crash, Return
  <2> QED
    BY <2>1, ExactGone
<1>6. CASE WriteIndex
  <2>1. /\ NoLocals /\ main' = "idle"
        /\ index' = [codes |-> UNION Range(found), from |-> corpus]
    BY <1>6 DEF WriteIndex, Return
  <2>2. UNION Range(found) = ValidCodes(corpus) /\ Intact(corpus)
    BY <1>6, WrittenExact DEF WriteIndex
  <2>3. IndexExact'
    BY <2>1, <2>2 DEF IndexExact
  <2>4. SourcesAccounted' /\ PartitionsAccounted'
    BY <2>1, ExactFresh
  <2>5. SpillExact'
    BY <2>1 DEF SpillExact
  <2> QED
    BY <2>3, <2>4, <2>5 DEF Exact
<1>7. CASE Cancel
  <2>1. /\ ctx' = "cancelled" /\ failed' = failed /\ main' = main
        /\ UNCHANGED <<corpus, src, pos, buf, spill, wpc, wpart, next, found, index>>
    BY <1>7 DEF Cancel, scatterVars, countVars
  <2>2. \A p \in Parts : ValidIn(p)' = ValidIn(p)
    BY <2>1 DEF ValidIn
  <2> QED
    BY <2>1, <2>2 DEF Exact, SpillExact, SourcesAccounted, AtEnd, PartitionsAccounted, IndexExact
<1>8. CASE UNCHANGED vars
  <2>1. /\ UNCHANGED <<failed, main, ctx>>
        /\ UNCHANGED <<corpus, src, pos, buf, spill, wpc, wpart, next, found, index>>
    BY <1>8 DEF vars, scatterVars, countVars
  <2>2. \A p \in Parts : ValidIn(p)' = ValidIn(p)
    BY <2>1 DEF ValidIn
  <2> QED
    BY <2>1, <2>2 DEF Exact, SpillExact, SourcesAccounted, AtEnd, PartitionsAccounted, IndexExact
<1> QED
  BY <1>1, <1>2, <1>3, <1>4, <1>5, <1>6, <1>7, <1>8 DEF Next, MainStep, Faults

LEMMA ExactAlways == ~TempDirGiven => (Spec => [](TypeOK /\ Exact))
<1> SUFFICES ASSUME ~TempDirGiven PROVE Spec => [](TypeOK /\ Exact)
  OBVIOUS
<1>1. Init => TypeOK /\ Exact
  BY TypeInit, ExactInit
<1>2. (TypeOK /\ Exact) /\ [Next]_vars => (TypeOK /\ Exact)'
  BY TypeStep, ExactStep
<1> QED
  BY <1>1, <1>2, PTL DEF Spec

\* The index file holds exactly the valid codes of a whole corpus, the one
\* its metadata names, under every interleaving, fault, cancellation and
\* crash, as long as every run works in a fresh scratch directory.
THEOREM IndexAlwaysExact == ~TempDirGiven => (Spec => []IndexExact)
<1> SUFFICES ASSUME ~TempDirGiven PROVE Spec => []IndexExact
  OBVIOUS
<1>1. TypeOK /\ Exact => IndexExact
  BY DEF Exact
<1>2. Spec => [](TypeOK /\ Exact)
  BY ExactAlways
<1> QED
  BY <1>1, <1>2, PTL

\* While a build runs, no line it has consumed is lost or counted for another
\* partition, wherever the line is: in a buffer or in its file.
THEOREM SpillAlwaysExact == ~TempDirGiven => (Spec => []SpillExact)
<1> SUFFICES ASSUME ~TempDirGiven PROVE Spec => []SpillExact
  OBVIOUS
<1>1. TypeOK /\ Exact => SpillExact
  BY DEF Exact
<1>2. Spec => [](TypeOK /\ Exact)
  BY ExactAlways
<1> QED
  BY <1>1, <1>2, PTL

\* No partition that a worker has taken is forgotten: it is counted, and
\* rightly, or some worker is at it, or the build is bound to fail.
THEOREM PartitionsAlwaysAccounted == ~TempDirGiven => (Spec => []PartitionsAccounted)
<1> SUFFICES ASSUME ~TempDirGiven PROVE Spec => []PartitionsAccounted
  OBVIOUS
<1>1. TypeOK /\ Exact => PartitionsAccounted
  BY DEF Exact
<1>2. Spec => [](TypeOK /\ Exact)
  BY ExactAlways
<1> QED
  BY <1>1, <1>2, PTL

-----------------------------------------------------------------------------
(* Refinement: Build keeps the promise of ExactIndex.                      *)

LEMMA PromiseInit == Init => Promise!AInit
BY DEF Init, Promise!AInit

LEMMA PromiseStep ==
    ASSUME TypeOK, TypeOK', Exact, [Next]_vars
    PROVE  [Promise!ANext]_(Promise!avars)
<1> USE DEF Promise!ANext, Promise!avars
<1>1. corpus \in Corpus /\ corpus # NoCorpus /\ corpus' \in Corpus /\ corpus' # NoCorpus
  BY BuilderAssumption DEF TypeOK
<1>2. CASE StartBuild
  BY <1>1, <1>2 DEF StartBuild, Promise!Begin, Promise!Corpus, Corpus
<1>3. CASE WriteIndex
  <2>1. /\ main = "write" /\ main' = "idle"
        /\ index' = [codes |-> UNION Range(found), from |-> corpus]
    BY <1>3 DEF WriteIndex, Return
  <2>2. UNION Range(found) = Promise!ValidCodes(corpus) /\ Promise!Intact(corpus)
    BY <2>1, WrittenExact
       DEF ValidCodes, Intact, Kept, KeptUpTo,
           Promise!ValidCodes, Promise!Intact, Promise!Kept, Promise!KeptUpTo
  <2> QED
    BY <1>1, <2>1, <2>2 DEF Promise!Replace, Promise!ExactFor
<1>4. CASE main # "idle" /\ main' = "idle" /\ index' = index
  BY <1>1, <1>4 DEF Promise!GiveUp
<1>5. CASE main # "idle" /\ main' # "idle" /\ UNCHANGED <<corpus, index>>
  BY <1>5
<1>6. CASE UNCHANGED vars
  BY <1>6 DEF vars
<1>7. ASSUME NEW s \in Sources, SourceStep(s) \/ SourceFault(s)
      PROVE  main # "idle" /\ main' # "idle" /\ UNCHANGED <<corpus, index>>
  BY <1>7 DEF SourceStep, ScatterLine, FinishSource, StopSource, SourceFault,
              FailSource, Streaming
<1>8. ASSUME NEW w \in Workers, WorkerStep(w) \/ CountFault(w)
      PROVE  main # "idle" /\ main' # "idle" /\ UNCHANGED <<corpus, index>>
  BY <1>8 DEF WorkerStep, PullPartition, CountDone, CountFault
<1>9. JoinSources \/ JoinWorkers =>
         \/ main # "idle" /\ main' = "idle" /\ index' = index
         \/ main # "idle" /\ main' # "idle" /\ UNCHANGED <<corpus, index>>
  BY DEF JoinSources, JoinWorkers, Return
<1>10. WriteIndexFault \/ Crash => main # "idle" /\ main' = "idle" /\ index' = index
  BY DEF WriteIndexFault, Crash, Return
<1>11. Cancel => main # "idle" /\ main' # "idle" /\ UNCHANGED <<corpus, index>>
  BY DEF Cancel
<1> QED
  BY <1>2, <1>3, <1>4, <1>5, <1>6, <1>7, <1>8, <1>9, <1>10, <1>11
     DEF Next, MainStep, Faults

\* Build implements ExactIndex: each of its steps is a step of a build that
\* replaces the index whole and exactly or leaves it alone.
THEOREM BuildImplementsPromise == ~TempDirGiven => (Spec => ImplementsExactIndex)
<1> SUFFICES ASSUME ~TempDirGiven PROVE Spec => Promise!ASpec
  BY DEF ImplementsExactIndex
<1>1. Init => TypeOK /\ Exact /\ Promise!AInit
  BY TypeInit, ExactInit, PromiseInit
<1>2. (TypeOK /\ Exact) /\ [Next]_vars => (TypeOK /\ Exact)'
  BY TypeStep, ExactStep
<1>3. TypeOK /\ TypeOK' /\ Exact /\ [Next]_vars => [Promise!ANext]_(Promise!avars)
  BY PromiseStep
<1> QED
  BY <1>1, <1>2, <1>3, PTL DEF Spec, Promise!ASpec
=============================================================================
