----------------------------- MODULE IndexCodec -----------------------------
(***************************************************************************)
(* The bytes of a coupon index: the records that were spilled for a        *)
(* partition are sorted and scanned for codes of two sources, the codes    *)
(* are written as padded and sorted records under a CRC, a file whose      *)
(* header, length or records are damaged is refused, and a lookup is a     *)
(* binary search over the records.                                         *)
(*                                                                         *)
(* Codes are short and the alphabet small, and the metadata takes a whole  *)
(* number of records, of which only matters whether they are what was      *)
(* written, other JSON or none.  The CRC tells records apart that differ   *)
(* by one damage; it does not cover the metadata.                          *)
(***************************************************************************)
EXTENDS Integers, Sequences, FiniteSets, SequencesExt

CONSTANTS MinLen, MaxLen, \* bytes of a code
          Alphabet,       \* the bytes of codes
          Corpora,        \* what is spilled: the codes of each source
          Parts,          \* partitions
          PartOf,         \* the partition of each code
          Questions,      \* codes that are looked up
          MetaLen         \* records that the metadata takes

\* The codes that Normalize accepts.
Codes == {code \in Seq(Alphabet) : Len(code) \in MinLen .. MaxLen}

ASSUME CodecAssumption ==
    /\ MaxLen \in Nat /\ MinLen \in 1 .. MaxLen /\ MetaLen \in Nat \ {0}
    /\ Alphabet \subseteq 1 .. 127
    /\ \A code \in DOMAIN PartOf : code \in Codes /\ PartOf[code] \in Parts
    /\ \A spilled \in Corpora : \E n \in 0 .. 8 : spilled \in [1 .. n -> Seq(DOMAIN PartOf)]
    /\ Questions \subseteq Seq(Alphabet) \ {<< >>}

VARIABLES
    phase,   \* "count", "written", "loaded", "refused" or "answered"
    corpus,  \* the codes of each source's spill files, in their order
    left,    \* the partitions that have not been counted
    recs, i, j, mask, \* countPartition: sorted records, its run, the run's sources
    codes,   \* the codes it has found
    file,    \* the index file
    loaded,  \* the records in memory
    key, lo, hi, \* Contains
    found    \* its answer

counting == <<left, recs, i, j, mask, codes>>
lookup == <<key, lo, hi, found>>
vars == <<phase, corpus, counting, file, loaded, lookup>>

-----------------------------------------------------------------------------
(* Rules of the code, each preceded by faulty variants.                    *)

\* NUL is no byte of a code.
PaddingDigit == 1
Padding == 0

\* A record: the code, padded.
Pad(code) == [n \in 1 .. MaxLen |-> IF n <= Len(code) THEN code[n] ELSE Padding]

\* bytes.Compare, and the comparison of (hi, lo) in big-endian.
Before(a, b) == \E n \in 1 .. MaxLen : a[n] < b[n] /\ \A k \in 1 .. n - 1 : a[k] = b[k]

\* The mask of a run after one more record of it; a source is one bit.
MaskedLine(src) == mask \cup {<<src, j>>}
Masked(src) == mask \cup {src}

\* The elements of a set in an order that is given by its pairs.
InOrderOf(S, precedes) ==
    [n \in 1 .. Cardinality(S) |-> CHOOSE x \in S : Cardinality({y \in S : <<y, x>> \in precedes}) = n - 1]

\* The order of records; which of two that are the same is first does not matter.
Sooner(a, b, tie) == Before(a, b) \/ (a = b /\ tie)

\* The positions of codes in the order of their records.
WriteOrder ==
    {mn \in (DOMAIN codes) \X (DOMAIN codes) :
        Sooner(Pad(codes[mn[1]]), Pad(codes[mn[2]]), mn[1] < mn[2])}

\* WriteIndex sorts what the partitions give.
Written == LET order == InOrderOf(DOMAIN codes, WriteOrder)
           IN [n \in DOMAIN order |-> Pad(codes[order[n]])]

\* The CRC covers the records.
CrcMatchesHeader(f) == f.magic
CrcMatches(f) == SubSeq(f.body, f.metaLen + 1, Len(f.body)) = f.crc

InOrder(rs) == \A n \in 1 .. Len(rs) - 1 : ~Before(rs[n + 1], rs[n])

-----------------------------------------------------------------------------

Unwritten == [magic |-> FALSE, count |-> 0, metaLen |-> 0, crc |-> << >>, body |-> << >>]

Init == /\ phase = "count"
        /\ corpus \in Corpora
        /\ left = Parts
        /\ recs = << >> /\ i = 1 /\ j = 1 /\ mask = {} /\ codes = << >>
        /\ file = Unwritten
        /\ loaded = << >>
        /\ key = << >> /\ lo = 0 /\ hi = 0 /\ found = FALSE

\* The records that were spilled for a partition: of which source, and where.
Spilled == UNION {{src} \X DOMAIN corpus[src] : src \in DOMAIN corpus}
CodeAt(ln) == corpus[ln[1]][ln[2]]
Lines(p) == {ln \in Spilled : PartOf[CodeAt(ln)] = p}

Earlier(a, b) == a[1] < b[1] \/ (a[1] = b[1] /\ a[2] < b[2])

ScanOrder(p) ==
    {ab \in Lines(p) \X Lines(p) :
        Sooner(Pad(CodeAt(ab[1])), Pad(CodeAt(ab[2])), Earlier(ab[1], ab[2]))}

\* They are read source by source, and sorted.
SortedRecords(p) ==
    LET order == InOrderOf(Lines(p), ScanOrder(p))
    IN [n \in DOMAIN order |-> [rec |-> Pad(CodeAt(order[n])), src |-> order[n][1]]]

\* Workers take the partitions in any order.
PullPartition == /\ phase = "count" /\ i > Len(recs)
                 /\ \E p \in left : left' = left \ {p} /\ recs' = SortedRecords(p)
                 /\ i' = 1 /\ j' = 1 /\ mask' = {}
                 /\ UNCHANGED <<phase, corpus, codes, file, loaded, lookup>>

InRun == j <= Len(recs) /\ recs[j].rec = recs[i].rec

ScanRecord == /\ phase = "count" /\ InRun
              /\ mask' = Masked(recs[j].src)
              /\ j' = j + 1
              /\ UNCHANGED <<phase, corpus, left, recs, i, codes, file, loaded, lookup>>

\* bytes.TrimRight of the padding.
Padded(rec, n) == (\A k \in n + 1 .. MaxLen : rec[k] = Padding) /\ (n > 0 => rec[n] # Padding)
Trimmed(rec) == SubSeq(rec, 1, CHOOSE n \in 0 .. MaxLen : Padded(rec, n))

EndRun == /\ phase = "count" /\ i <= Len(recs) /\ ~InRun
          /\ codes' = IF Cardinality(mask) >= 2 THEN Append(codes, Trimmed(recs[i].rec)) ELSE codes
          /\ i' = j /\ mask' = {}
          /\ UNCHANGED <<phase, corpus, left, recs, j, file, loaded, lookup>>

\* The metadata, by what has become of a record of it: as it was written,
\* changed to other JSON, or to what is no JSON.
MetaWritten == << >>
MetaOther == <<Padding>>
MetaBroken == <<Padding, Padding>>

Encoded == [magic |-> TRUE, count |-> Len(Written), metaLen |-> MetaLen,
            crc |-> Written, body |-> [n \in 1 .. MetaLen |-> MetaWritten] \o Written]

WriteIndex == /\ phase = "count" /\ left = {} /\ i > Len(recs)
              /\ file' = Encoded
              /\ phase' = "written"
              /\ UNCHANGED <<corpus, counting, loaded, lookup>>

\* A disk or a copy that loses the end of a file, or changes a byte of it.
Damaged(f) ==
    {[f EXCEPT !.magic = FALSE]}
    \cup {[f EXCEPT !.count = n] : n \in 0 .. 9} \cup {[f EXCEPT !.metaLen = n] : n \in 0 .. 9}
    \cup {[f EXCEPT !.crc = << >>]}
    \cup {[f EXCEPT !.body = SubSeq(@, 1, n)] : n \in 0 .. Len(f.body) - 1}
    \cup {[f EXCEPT !.body[n] = m] : n \in (1 .. MetaLen) \cap DOMAIN f.body, m \in {MetaOther, MetaBroken}}
    \cup {[f EXCEPT !.body[n][k] = b] : n \in MetaLen + 1 .. Len(f.body), k \in 1 .. MaxLen, b \in Alphabet}

\* Several in a row, up to one that the CRC notices: that a further one makes it
\* match again is left out, as is a collision.
Damage == /\ phase = "written" /\ CrcMatches(file)
          /\ file' \in Damaged(file)
          /\ UNCHANGED <<phase, corpus, counting, loaded, lookup>>

\* The metadata must parse: all of it and nothing but it is JSON.
MetaParses(f) == f.metaLen = MetaLen /\ \A n \in 1 .. MetaLen : f.body[n] # MetaBroken

Loads(f) == /\ f.magic
            /\ Len(f.body) = f.metaLen + f.count
            /\ CrcMatches(f)
            /\ MetaParses(f)
            /\ InOrder(SubSeq(f.body, f.metaLen + 1, Len(f.body)))

LoadIndex == /\ phase = "written"
             /\ IF Loads(file)
                THEN /\ loaded' = SubSeq(file.body, file.metaLen + 1, Len(file.body))
                     /\ phase' = "loaded"
                ELSE phase' = "refused" /\ UNCHANGED loaded
             /\ UNCHANGED <<corpus, counting, file, lookup>>

\* Contains, up to its search.
Ask == /\ phase = "loaded" /\ key = << >>
       /\ key' \in Questions
       /\ IF Len(key') \in MinLen .. MaxLen THEN hi' = Len(loaded) /\ UNCHANGED phase
          ELSE phase' = "answered" /\ UNCHANGED hi
       /\ UNCHANGED <<corpus, counting, file, loaded, lo, found>>

\* A step of sort.Search.
Probe == /\ phase = "loaded" /\ key # << >> /\ lo < hi
         /\ LET mid == (lo + hi) \div 2
            IN IF Before(loaded[mid + 1], Pad(key))
               THEN lo' = mid + 1 /\ UNCHANGED hi
               ELSE hi' = mid /\ UNCHANGED lo
         /\ UNCHANGED <<phase, corpus, counting, file, loaded, key, found>>

Answer == /\ phase = "loaded" /\ key # << >> /\ lo >= hi
          /\ found' = (lo < Len(loaded) /\ loaded[lo + 1] = Pad(key))
          /\ phase' = "answered"
          /\ UNCHANGED <<corpus, counting, file, loaded, key, lo, hi>>

Read == Ask \/ Probe \/ Answer
Next == PullPartition \/ ScanRecord \/ EndRun \/ WriteIndex \/ Damage \/ LoadIndex \/ Read

Spec == Init /\ [][Next]_vars

-----------------------------------------------------------------------------

SourcesOf(code) == {src \in DOMAIN corpus : code \in ToSet(corpus[src])}
Valid == {code \in DOMAIN PartOf : Cardinality(SourcesOf(code)) >= 2}

\* The scan of sorted runs and their masks finds the codes of two sources, a
\* code that one source repeats not among them, and each of them once.
ScanIsTheRule == phase = "written" => ToSet(codes) = Valid /\ Len(codes) = Cardinality(Valid)

\* The file is what WriteIndex left, but that the metadata may be other JSON.
Intact(f) == /\ f.magic /\ f.metaLen = MetaLen
             /\ f.count = Len(Written) /\ f.crc = Written
             /\ Len(f.body) = MetaLen + Len(Written)
             /\ SubSeq(f.body, MetaLen + 1, Len(f.body)) = Written
             /\ \A n \in 1 .. MetaLen : f.body[n] # MetaBroken

\* "A server must refuse to serve coupon answers it cannot trust" (the comment
\* of LoadIndex): a file that was cut short, or changed in its header, in its
\* records or so that its metadata is no JSON, is refused, and no other file
\* is.  Metadata that was changed to other JSON is not noticed; the records
\* that are loaded are still those of the codes, in strict order.
LoadsWhatWasWritten ==
    /\ phase \in {"loaded", "answered"} =>
          /\ Intact(file)
          /\ ToSet(loaded) = {Pad(codes[n]) : n \in DOMAIN codes}
          /\ \A m, n \in DOMAIN loaded : m < n => Before(loaded[m], loaded[n])
    /\ phase = "refused" => ~Intact(file)

\* The answer of the binary search is membership, of codes that are prefixes of
\* each other too, and of questions that are no code.
AnswersMembership == phase = "answered" => found = (key \in Valid)
=============================================================================
