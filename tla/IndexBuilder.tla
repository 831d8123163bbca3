---------------------------- MODULE IndexBuilder ----------------------------
(***************************************************************************)
(* coupon.Build: the two-pass reduction of a corpus to an index file.      *)
(*                                                                         *)
(* Pass 1 runs one goroutine per source: it streams the file and scatters  *)
(* its codes into spill files, one per (source, partition), through        *)
(* in-memory buffers.  Pass 2 runs a pool of workers that pull partitions  *)
(* off a shared counter and count, in each, the codes of two sources.  The *)
(* goroutines interleave with each other, with a cancellation of the       *)
(* context, with I/O faults and with a crash of the process; the tool is   *)
(* run again and again over a corpus that may differ each time.            *)
(*                                                                         *)
(* Abstracted: the bytes of a record (a code is one value, so NUL padding  *)
(* and the packed comparison disappear), the hash (any Route will do), the *)
(* order of the output.  An overlong line is one more rejected spelling.   *)
(* WriteIndex is one step here: the file is the old one or the new one.    *)
(***************************************************************************)
EXTENDS CouponRules

CONSTANTS Corpora,      \* corpora the tool can be pointed at
          NumParts,     \* BuildOptions.Partitions
          Route,        \* the partition of a code
          Workers,      \* goroutines of pass 2
          FlushRecords, \* spillFlushRecords
          CtxStride,    \* lines between two looks at the context
          TempDirGiven, \* BuildOptions.TempDir names a directory
          NoIndex, NoCorpus

Parts == 0 .. NumParts - 1

ASSUME BuilderAssumption ==
    /\ Corpora \subseteq Corpus
    /\ NumParts \in Nat \ {0}
    /\ Route \in [Codes -> Parts]
    /\ Workers # {}
    /\ FlushRecords \in Nat \ {0}
    /\ CtxStride \in Nat \ {0}
    /\ TempDirGiven \in BOOLEAN
    /\ NoCorpus \notin Corpora

VARIABLES
    corpus,   \* the files named by opts.Sources
    main,     \* where Build is: "idle", "scatter", "count" or "write"
    src,      \* per source goroutine: "stream", "done" or "failed"
    pos,      \* lines the source goroutine has consumed
    buf,      \* bufs[p] of each source goroutine
    spill,    \* the spill files of the scratch directory of this build
    wpc,      \* per worker: "pull", "count" or "exit"
    wpart,    \* the partition the worker counts
    next,     \* the shared counter of forEachPartition
    found,    \* perPartition; a slot never filled is empty
    failed,   \* firstErr is set
    ctx,      \* "live" or "cancelled"
    index     \* the file at opts.OutPath

scatterVars == <<src, pos, buf>>
countVars == <<wpc, wpart, next, found>>
vars == <<corpus, main, scatterVars, spill, countVars, failed, ctx, index>>

EmptyParts == [s \in Sources |-> [p \in Parts |-> <<>>]]

-----------------------------------------------------------------------------
(* The rules of the code that the steps below rest on, each preceded by    *)
(* faulty variants of it that the properties must be able to tell from it. *)

\* The buffer is flushed once it holds spillFlushRecords records.
MustFlushLate(b) == Len(b) > FlushRecords
MustFlush(b) == Len(b) >= FlushRecords

\* What the tail flush of scatterFile leaves on disk for one partition.
TailFlushLost(onDisk, b) == onDisk
TailFlush(onDisk, b) == onDisk \o b

\* The end of a stream is accepted only if its gzip trailer verifies.
StreamVerifiesUnread(file) == TRUE
StreamVerifies(file) == file.intact

\* countPartition ORs one bit per source over each run of equal codes and
\* keeps the codes with two bits set.
CountPartitionRecords(p) ==
    LET recs == UNION {{s} \X DOMAIN spill[s][p] : s \in Sources}
    IN  {c \in Codes : Cardinality({r \in recs : spill[r[1]][p][r[2]] = c}) >= 2}
CountPartition(p) ==
    {c \in Codes : Cardinality({s \in Sources : c \in Range(spill[s][p])}) >= 2}

\* forEachSource and forEachPartition answer firstErr, then ctx.Err().
JoinErrNoCtx == failed
JoinErr == failed \/ ctx = "cancelled"

\* wg.Wait of pass 1: Done is deferred, so a failed source is waited for too.
SourcesJoinedOnSuccess == \A s \in Sources : src[s] = "done"
SourcesJoined == \A s \in Sources : src[s] # "stream"

\* Where pass 1 streams from and to when Build starts: the scratch
\* directory is removed on every return, and not by a crash.
ScratchAfterReturn == EmptyParts
ScratchAtStart == IF TempDirGiven THEN spill ELSE EmptyParts

-----------------------------------------------------------------------------

\* Build's locals as they are before it runs and after it is gone.
NoLocals == /\ src' = [s \in Sources |-> "stream"]
            /\ pos' = [s \in Sources |-> 0]
            /\ buf' = EmptyParts
            /\ wpc' = [w \in Workers |-> "pull"]
            /\ wpart' = [w \in Workers |-> 0]
            /\ next' = 0
            /\ found' = [p \in Parts |-> {}]
            /\ failed' = FALSE
            /\ ctx' = "live"

Init == /\ corpus \in Corpora
        /\ main = "idle"
        /\ src = [s \in Sources |-> "stream"]
        /\ pos = [s \in Sources |-> 0]
        /\ buf = EmptyParts
        /\ spill = EmptyParts
        /\ wpc = [w \in Workers |-> "pull"]
        /\ wpart = [w \in Workers |-> 0]
        /\ next = 0
        /\ found = [p \in Parts |-> {}]
        /\ failed = FALSE
        /\ ctx = "live"
        /\ index = NoIndex

\* The tool is run, over the corpus as it now is.
StartBuild == /\ main = "idle"
              /\ main' = "scatter"
              /\ corpus' \in Corpora
              /\ spill' = ScratchAtStart
              /\ NoLocals
              /\ UNCHANGED index

\* Build returns: defer os.RemoveAll(tempDir).
Return == /\ main' = "idle"
          /\ spill' = ScratchAfterReturn
          /\ NoLocals
          /\ UNCHANGED corpus

-----------------------------------------------------------------------------
(* Pass 1: scatterFile, one goroutine per source.                          *)

Streaming(s) == main = "scatter" /\ src[s] = "stream"

AtEnd(s) == pos[s] = Len(corpus[s].lines)

\* streamLines looks at the context before every CtxStride-th line only.
Interrupted(s) == pos[s] % CtxStride = 0 /\ ctx = "cancelled"

FailSource(s) == /\ src' = [src EXCEPT ![s] = "failed"]
                 /\ failed' = TRUE
                 /\ UNCHANGED <<corpus, main, pos, buf, spill, countVars, ctx, index>>

\* One line: normalise, append the record to its partition, flush when full.
Spill(s, c) ==
    LET p == Route[c]
        b == Append(buf[s][p], c)
    IN  IF MustFlush(b)
        THEN /\ spill' = [spill EXCEPT ![s][p] = @ \o b]
             /\ buf' = [buf EXCEPT ![s][p] = <<>>]
        ELSE /\ buf' = [buf EXCEPT ![s][p] = b]
             /\ UNCHANGED spill

ScatterLine(s) ==
    /\ Streaming(s) /\ ~AtEnd(s) /\ ~Interrupted(s)
    /\ pos' = [pos EXCEPT ![s] = @ + 1]
    /\ LET code == Norm[corpus[s].lines[pos[s] + 1]]
       IN  IF code = Rejected THEN UNCHANGED <<buf, spill>> ELSE Spill(s, code)
    /\ UNCHANGED <<corpus, main, src, countVars, failed, ctx, index>>

\* EOF and drainTail, then the buffers that never filled are flushed.
FinishSource(s) ==
    /\ Streaming(s) /\ AtEnd(s) /\ ~Interrupted(s)
    /\ StreamVerifies(corpus[s])
    /\ src' = [src EXCEPT ![s] = "done"]
    /\ spill' = [spill EXCEPT ![s] = [p \in Parts |-> TailFlush(spill[s][p], buf[s][p])]]
    /\ buf' = [buf EXCEPT ![s] = [p \in Parts |-> <<>>]]
    /\ UNCHANGED <<corpus, main, pos, countVars, failed, ctx, index>>

\* A cancelled context is noticed, or the end of a damaged stream is reached.
StopSource(s) ==
    /\ Streaming(s)
    /\ Interrupted(s) \/ (AtEnd(s) /\ ~StreamVerifies(corpus[s]))
    /\ FailSource(s)

\* A read, an append to a spill file or the final Stat fails.
SourceFault(s) == Streaming(s) /\ FailSource(s)

JoinSources ==
    /\ main = "scatter" /\ SourcesJoined
    /\ IF JoinErr
       THEN Return /\ UNCHANGED index
       ELSE /\ main' = "count"
            /\ UNCHANGED <<corpus, scatterVars, spill, countVars, failed, ctx, index>>

-----------------------------------------------------------------------------
(* Pass 2: forEachPartition, a pool of workers over a shared counter.      *)

\* next.Add(1), then the check that ends the worker.
PullPartition(w) ==
    /\ main = "count" /\ wpc[w] = "pull"
    /\ next' = next + 1
    /\ IF next >= NumParts \/ ctx = "cancelled"
       THEN wpc' = [wpc EXCEPT ![w] = "exit"] /\ UNCHANGED wpart
       ELSE /\ wpc' = [wpc EXCEPT ![w] = "count"]
            /\ wpart' = [wpart EXCEPT ![w] = next]
    /\ UNCHANGED <<corpus, main, scatterVars, spill, found, failed, ctx, index>>

CountDone(w) ==
    /\ main = "count" /\ wpc[w] = "count"
    /\ found' = [found EXCEPT ![wpart[w]] = CountPartition(wpart[w])]
    /\ wpc' = [wpc EXCEPT ![w] = "pull"]
    /\ UNCHANGED <<corpus, main, scatterVars, spill, wpart, next, failed, ctx, index>>

\* readSpill fails: the worker records the error and takes no more work.
CountFault(w) ==
    /\ main = "count" /\ wpc[w] = "count"
    /\ wpc' = [wpc EXCEPT ![w] = "exit"]
    /\ failed' = TRUE
    /\ UNCHANGED <<corpus, main, scatterVars, spill, wpart, next, found, ctx, index>>

JoinWorkers ==
    /\ main = "count" /\ \A w \in Workers : wpc[w] = "exit"
    /\ IF JoinErr
       THEN Return /\ UNCHANGED index
       ELSE /\ main' = "write"
            /\ UNCHANGED <<corpus, scatterVars, spill, countVars, failed, ctx, index>>

-----------------------------------------------------------------------------

\* WriteIndex succeeds; its metadata names the sources of this build.
WriteIndex == /\ main = "write"
              /\ index' = [codes |-> UNION Range(found), from |-> corpus]
              /\ Return

WriteIndexFault == main = "write" /\ Return /\ UNCHANGED index

\* The operator interrupts the tool, or the caller's context ends.
Cancel == /\ main # "idle" /\ ctx = "live"
          /\ ctx' = "cancelled"
          /\ UNCHANGED <<corpus, main, scatterVars, spill, countVars, failed, index>>

\* The process dies: nothing deferred runs, files stay as they are.
Crash == /\ main # "idle"
         /\ main' = "idle"
         /\ NoLocals
         /\ UNCHANGED <<corpus, spill, index>>

SourceStep(s) == ScatterLine(s) \/ FinishSource(s) \/ StopSource(s)
WorkerStep(w) == PullPartition(w) \/ CountDone(w)
MainStep == JoinSources \/ JoinWorkers \/ WriteIndex
Faults == \/ \E s \in Sources : SourceFault(s)
          \/ \E w \in Workers : CountFault(w)
          \/ WriteIndexFault \/ Cancel \/ Crash

Next == \/ StartBuild
        \/ \E s \in Sources : SourceStep(s)
        \/ \E w \in Workers : WorkerStep(w)
        \/ MainStep
        \/ Faults

\* Goroutines are scheduled; nobody has to start a build and faults need
\* not happen.
Fairness == /\ \A s \in Sources : WF_vars(SourceStep(s))
            /\ \A w \in Workers : WF_vars(WorkerStep(w))
            /\ WF_vars(MainStep)

Spec == Init /\ [][Next]_vars /\ Fairness

-----------------------------------------------------------------------------

TypeOK ==
    /\ corpus \in Corpora
    /\ main \in {"idle", "scatter", "count", "write"}
    /\ src \in [Sources -> {"stream", "done", "failed"}]
    /\ pos \in [Sources -> Nat]
    /\ \A s \in Sources : pos[s] <= Len(corpus[s].lines)
    /\ buf \in [Sources -> [Parts -> Seq(Codes)]]
    /\ \A s \in Sources, p \in Parts : Len(buf[s][p]) < FlushRecords
    /\ spill \in [Sources -> [Parts -> Seq(Codes)]]
    /\ wpc \in [Workers -> {"pull", "count", "exit"}]
    /\ wpart \in [Workers -> Parts]
    /\ next \in Nat
    /\ found \in [Parts -> SUBSET Codes]
    /\ failed \in BOOLEAN
    /\ ctx \in {"live", "cancelled"}
    /\ index \in {NoIndex} \cup [codes : SUBSET Codes, from : Corpora]

\* Between its buffer and its spill file a partition of a source holds the
\* codes of exactly the lines consumed so far that route to it: none lost at
\* a flush, none from another source, partition or build.
SpillExact ==
    main # "idle" => \A s \in Sources, p \in Parts :
        Range(spill[s][p]) \cup Range(buf[s][p])
            = {c \in KeptUpTo(corpus[s].lines, pos[s]) : Route[c] = p}

\* A source goroutine that has ended has spilled its whole, verified file or
\* recorded an error, and pass 2 begins only after the former for every file.
SourcesAccounted ==
    /\ \A s \in Sources :
          /\ src[s] = "done" => /\ AtEnd(s) /\ corpus[s].intact
                               /\ \A p \in Parts : buf[s][p] = <<>>
          /\ src[s] = "failed" => failed
    /\ main \in {"count", "write"} => \A s \in Sources : src[s] = "done"
    /\ main = "scatter" => /\ next = 0
                           /\ \A w \in Workers : wpc[w] = "pull"

\* The valid codes of the running build's corpus that route to p.
ValidIn(p) == {c \in ValidCodes(corpus) : Route[c] = p}

\* A partition handed out by the counter is counted exactly, or is being
\* counted, or the build is bound to fail; a worker leaves only when nothing
\* is left to hand out or the build is bound to fail; and what WriteIndex is
\* given has every partition.
PartitionsAccounted ==
    /\ \A p \in Parts : p < next =>
          \/ found[p] = ValidIn(p)
          \/ \E w \in Workers : wpc[w] = "count" /\ wpart[w] = p
          \/ failed \/ ctx = "cancelled"
    /\ \A w \in Workers : wpc[w] = "exit" =>
          next >= NumParts \/ failed \/ ctx = "cancelled"
    /\ main = "write" => \A p \in Parts : found[p] = ValidIn(p)

\* "The result is exact by construction" (the comment of Build): whatever
\* the scheduling, the faults and the restarts, the index file holds exactly
\* the valid codes of the corpus its metadata names, and that corpus was
\* whole.
IndexExact == index # NoIndex => /\ index.codes = ValidCodes(index.from)
                                 /\ Intact(index.from)

\* Build implements its promise: an index appears in one step, for the
\* corpus the running build was started on, or not at all.
Promise == INSTANCE ExactIndex
             WITH building <- IF main = "idle" THEN NoCorpus ELSE corpus
ImplementsExactIndex == Promise!ASpec

\* A build ends, whichever goroutines fail or are cancelled: no join waits
\* for a goroutine that has gone.
BuildEnds == (main # "idle") ~> (main = "idle")
=============================================================================
