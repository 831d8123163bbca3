--------------------------- MODULE IndexFileProofs --------------------------
(***************************************************************************)
(* Proofs about the index: its bytes, the file that holds them, and the    *)
(* set of codes that is made of it in Redis.                               *)
(*                                                                         *)
(* The bytes.  Padding tells codes apart and comparison is a strict total  *)
(* order of records, so sorting has the records of a code in one run, of   *)
(* which the mask gathers the sources, and the runs are the codes in their *)
(* order.  A file that is damaged, but for metadata that is still JSON,    *)
(* differs from the written one in what LoadIndex looks at, and a search   *)
(* in records that are in strict order keeps the key between its ends.     *)
(*                                                                         *)
(* The file: its path never names a torn version, a synced replacement     *)
(* stays, and the steps of a replacement implement an atomic one, for any  *)
(* number of writers, with and without an fsync of the directory, and      *)
(* whatever crashes and power losses come.  The inode that a writer works  *)
(* on is its own: nobody else writes to it, and it is at the path only     *)
(* after it was written whole, synced and made public.  What is synced     *)
(* survives a power loss.                                                  *)
(*                                                                         *)
(* The set of codes in Redis: no server ever looks into one that is half   *)
(* seeded, or that mixes two seedings, for any number of seeders, servers  *)
(* and indexes, and whatever is lost or dies.  The staging key is the      *)
(* seeder's own, empty before the SADD and exactly the seeder's index from *)
(* then on until the RENAME takes it away.                                 *)
(***************************************************************************)
EXTENDS IndexCodec, AtomicFile, RedisSeed,
        FiniteSetTheorems, FunctionTheorems, SequenceTheorems, TLAPS

-----------------------------------------------------------------------------
(* The bytes of an index: what sorting and padding do.                     *)

\* The elements of a finite set stand in the order that a strict total order
\* gives: each at its rank.
LEMMA RanksOrder ==
    ASSUME NEW S, IsFiniteSet(S), NEW R \in SUBSET (S \X S),
           \A x \in S : <<x, x>> \notin R,
           \A x, y, z \in S : <<x, y>> \in R /\ <<y, z>> \in R => <<x, z>> \in R,
           \A x, y \in S : x = y \/ <<x, y>> \in R \/ <<y, x>> \in R
    PROVE  /\ Cardinality(S) \in Nat
           /\ InOrderOf(S, R) \in [1 .. Cardinality(S) -> S]
           /\ \A x \in S : \E n \in 1 .. Cardinality(S) : InOrderOf(S, R)[n] = x
           /\ \A m, n \in 1 .. Cardinality(S) :
                 m < n => <<InOrderOf(S, R)[m], InOrderOf(S, R)[n]>> \in R
<1> DEFINE c == Cardinality(S)
           Below(x) == {y \in S : <<y, x>> \in R}
           place == [x \in S |-> Cardinality(Below(x)) + 1]
           o == InOrderOf(S, R)
<1>1. c \in Nat
  BY FS_CardinalityType
<1>r. DOMAIN place = S /\ \A x \in S : place[x] = Cardinality(Below(x)) + 1
  OBVIOUS
<1> HIDE DEF place
<1>2. ASSUME NEW x \in S
      PROVE  IsFiniteSet(Below(x)) /\ Cardinality(Below(x)) \in Nat /\ place[x] \in 1 .. c
  <2>1. Below(x) \in SUBSET (S \ {x})
    OBVIOUS
  <2>2. IsFiniteSet(S \ {x}) /\ Cardinality(S \ {x}) = c - 1
    BY FS_RemoveElement
  <2>3. IsFiniteSet(Below(x)) /\ Cardinality(Below(x)) <= Cardinality(S \ {x})
    BY <2>1, <2>2, FS_Subset
  <2>4. Cardinality(Below(x)) \in Nat
    BY <2>3, FS_CardinalityType
  <2>5. place[x] = Cardinality(Below(x)) + 1
    BY <1>r
  <2> HIDE DEF Below, c
  <2> QED
    BY <1>1, <2>2, <2>3, <2>4, <2>5
<1>3. ASSUME NEW x \in S, NEW y \in S, <<x, y>> \in R
      PROVE  place[x] < place[y]
  <2>1. Below(x) \in SUBSET Below(y) /\ x \in Below(y) /\ x \notin Below(x)
    BY <1>3
  <2>2. /\ Cardinality(Below(x)) <= Cardinality(Below(y))
        /\ Cardinality(Below(x)) # Cardinality(Below(y))
    BY <1>2, <2>1, FS_Subset
  <2>3. /\ Cardinality(Below(x)) \in Nat /\ Cardinality(Below(y)) \in Nat
        /\ place[x] = Cardinality(Below(x)) + 1 /\ place[y] = Cardinality(Below(y)) + 1
    BY <1>2, <1>r
  <2> HIDE DEF Below
  <2> QED
    BY <2>2, <2>3
<1>4. place \in Injection(S, 1 .. c)
  <2>1. place \in [S -> 1 .. c]
    <3>1. /\ place = [x \in S |-> Cardinality(Below(x)) + 1]
          /\ \A x \in S : Cardinality(Below(x)) + 1 \in 1 .. c
      BY <1>2, <1>r DEF place
    <3> HIDE DEF Below, c
    <3> QED
      BY <3>1
  <2>2. ASSUME NEW x \in S, NEW y \in S, place[x] = place[y] PROVE x = y
    <3>1. place[x] \in 1 .. c /\ place[y] \in 1 .. c
      BY <1>2
    <3>2. ~(place[x] < place[y]) /\ ~(place[y] < place[x])
      BY <1>1, <2>2, <3>1
    <3> QED
      BY <1>3, <3>2
  <2> HIDE DEF place
  <2> QED
    BY <2>1, <2>2, Fun_IsInj
<1>5. \A n \in 1 .. c : \E x \in S : place[x] = n
  <2>1. IsFiniteSet(1 .. c) /\ Cardinality(1 .. c) = c
    BY <1>1, FS_Interval
  <2>2. place \in Surjection(S, 1 .. c)
    BY <1>4, <2>1, FS_Injection
  <2> QED
    BY <2>2 DEF Surjection
<1>6. /\ o \in [1 .. c -> S]
      /\ \A n \in 1 .. c : place[o[n]] = n
  <2>1. o = [n \in 1 .. c |-> CHOOSE x \in S : Cardinality(Below(x)) = n - 1]
    BY DEF InOrderOf
  <2>2. ASSUME NEW n \in 1 .. c PROVE o[n] \in S /\ place[o[n]] = n
    <3>1. PICK x \in S : place[x] = n
      BY <1>5
    <3>2. Cardinality(Below(x)) = n - 1
      <4>1. Cardinality(Below(x)) \in Nat /\ n = Cardinality(Below(x)) + 1
        BY <1>2, <1>r, <3>1
      <4> HIDE DEF Below
      <4> QED
        BY <4>1
    <3>3. o[n] \in S /\ Cardinality(Below(o[n])) = n - 1
      BY <2>1, <3>2
    <3>4. place[o[n]] = Cardinality(Below(o[n])) + 1 /\ n \in Int
      BY <1>1, <1>r, <3>3
    <3> HIDE DEF o, Below
    <3> QED
      BY <3>3, <3>4
  <2> HIDE DEF place
  <2> QED
    BY <2>1, <2>2
<1> HIDE DEF o, place
<1>7. ASSUME NEW x \in S PROVE \E n \in 1 .. c : o[n] = x
  <2>1. place[x] \in 1 .. c /\ o[place[x]] \in S /\ place[o[place[x]]] = place[x]
    BY <1>2, <1>6
  <2>2. o[place[x]] = x
    BY <1>4, <2>1 DEF Injection, IsInjective
  <2> QED
    BY <2>1, <2>2
<1>8. ASSUME NEW m \in 1 .. c, NEW n \in 1 .. c, m < n PROVE <<o[m], o[n]>> \in R
  <2>1. o[m] \in S /\ o[n] \in S /\ place[o[m]] = m /\ place[o[n]] = n
    BY <1>6
  <2>2. ~(<<o[n], o[m]>> \in R) /\ o[m] # o[n]
    BY <1>1, <1>3, <1>8, <2>1
  <2> QED
    BY <2>1, <2>2
<1> QED
  BY <1>1, <1>6, <1>7, <1>8 DEF o

\* A set of numbers that is not empty has a least one.
LEMMA HasLeast ==
    ASSUME NEW S \in SUBSET Nat, IsFiniteSet(S), S # {}
    PROVE  \E n \in S : \A k \in S : n <= k
<1> DEFINE R == {xy \in S \X S : xy[1] < xy[2]}
           c == Cardinality(S)
           o == InOrderOf(S, R)
<1>1. /\ R \in SUBSET (S \X S)
      /\ \A x, y \in S : <<x, y>> \in R <=> x < y
  OBVIOUS
<1> HIDE DEF R
<1>2. /\ \A x \in S : <<x, x>> \notin R
      /\ \A x, y, z \in S : <<x, y>> \in R /\ <<y, z>> \in R => <<x, z>> \in R
      /\ \A x, y \in S : x = y \/ <<x, y>> \in R \/ <<y, x>> \in R
  BY <1>1
<1>3. /\ c \in Nat /\ o \in [1 .. c -> S]
      /\ \A x \in S : \E n \in 1 .. c : o[n] = x
      /\ \A m, n \in 1 .. c : m < n => <<o[m], o[n]>> \in R
  <2>1. R \in SUBSET (S \X S)
    BY <1>1
  <2> HIDE DEF R
  <2>2. /\ Cardinality(S) \in Nat
        /\ InOrderOf(S, R) \in [1 .. Cardinality(S) -> S]
        /\ \A x \in S : \E n \in 1 .. Cardinality(S) : InOrderOf(S, R)[n] = x
        /\ \A m, n \in 1 .. Cardinality(S) :
              m < n => <<InOrderOf(S, R)[m], InOrderOf(S, R)[n]>> \in R
    BY <1>2, <2>1, RanksOrder
  <2> QED
    BY <2>2
<1> HIDE DEF o, c
<1>4. 1 \in 1 .. c
  <2>1. PICK x \in S : TRUE
    OBVIOUS
  <2>2. PICK n \in 1 .. c : o[n] = x
    BY <1>3
  <2> QED
    BY <1>3, <2>2
<1>5. ASSUME NEW k \in S PROVE o[1] <= k
  <2>1. PICK n \in 1 .. c : o[n] = k
    BY <1>3
  <2>2. n = 1 \/ 1 < n
    BY <1>3
  <2>3. o[1] \in S /\ o[n] \in S
    BY <1>3, <1>4
  <2>4. CASE 1 < n
    <3>1. <<o[1], o[n]>> \in R
      BY <1>3, <1>4, <2>4
    <3>2. o[1] < o[n]
      BY <1>1, <2>3, <3>1
    <3>3. o[1] \in Nat /\ o[n] \in Nat
      BY <2>3
    <3> QED
      BY <2>1, <3>2, <3>3
  <2>5. CASE n = 1
    BY <2>1, <2>3, <2>5
  <2> QED
    BY <2>2, <2>4, <2>5
<1>6. o[1] \in S
  BY <1>3, <1>4
<1> QED
  BY <1>5, <1>6

Records == [1 .. MaxLen -> Nat]

\* bytes.Compare orders records strictly and totally.
LEMMA BeforeIrreflexive == ASSUME NEW a \in Records PROVE ~Before(a, a)
BY DEF Before, Records

LEMMA BeforeTransitive ==
    ASSUME NEW a \in Records, NEW b \in Records, NEW d \in Records, Before(a, b), Before(b, d)
    PROVE  Before(a, d)
<1> USE CodecAssumption
<1>1. PICK m \in 1 .. MaxLen : a[m] < b[m] /\ \A k \in 1 .. m - 1 : a[k] = b[k]
  BY DEF Before
<1>2. PICK n \in 1 .. MaxLen : b[n] < d[n] /\ \A k \in 1 .. n - 1 : b[k] = d[k]
  BY DEF Before
<1>3. \A k \in 1 .. MaxLen : a[k] \in Nat /\ b[k] \in Nat /\ d[k] \in Nat
  BY DEF Records
<1>4. CASE m <= n
  <2>1. a[m] < d[m]
    <3>1. CASE m = n
      BY <1>1, <1>2, <1>3, <3>1
    <3>2. CASE m < n
      <4>1. m \in 1 .. n - 1
        BY <3>2
      <4> QED
        BY <1>1, <1>2, <1>3, <4>1
    <3> QED
      BY <1>4, <3>1, <3>2
  <2>2. \A k \in 1 .. m - 1 : a[k] = d[k]
    <3>1. \A k \in 1 .. m - 1 : k \in 1 .. n - 1
      BY <1>4
    <3> QED
      BY <1>1, <1>2, <3>1
  <2> QED
    BY <2>1, <2>2 DEF Before
<1>5. CASE n < m
  <2>1. n \in 1 .. m - 1
    BY <1>5
  <2>2. a[n] < d[n]
    BY <1>1, <1>2, <1>3, <2>1
  <2>3. \A k \in 1 .. n - 1 : a[k] = d[k]
    <3>1. \A k \in 1 .. n - 1 : k \in 1 .. m - 1
      BY <1>5
    <3> QED
      BY <1>1, <1>2, <3>1
  <2> QED
    BY <2>2, <2>3 DEF Before
<1> QED
  BY <1>4, <1>5

LEMMA BeforeTotal ==
    ASSUME NEW a \in Records, NEW b \in Records
    PROVE  a = b \/ Before(a, b) \/ Before(b, a)
<1> SUFFICES ASSUME a # b PROVE Before(a, b) \/ Before(b, a)
  OBVIOUS
<1> DEFINE D == {n \in 1 .. MaxLen : a[n] # b[n]}
<1>1. D # {}
  <2> SUFFICES ASSUME \A n \in 1 .. MaxLen : a[n] = b[n] PROVE a = b
    OBVIOUS
  <2>1. a = [n \in 1 .. MaxLen |-> a[n]] /\ b = [n \in 1 .. MaxLen |-> b[n]]
    BY DEF Records
  <2> QED
    BY <2>1
<1>2. IsFiniteSet(1 .. MaxLen)
  BY CodecAssumption, FS_Interval
<1>3. D \in SUBSET Nat /\ IsFiniteSet(D)
  <2>1. D \in SUBSET (1 .. MaxLen) /\ D \in SUBSET Nat
    OBVIOUS
  <2> HIDE DEF D
  <2> QED
    BY <1>2, <2>1, FS_Subset
<1>4. PICK n \in D : \A k \in D : n <= k
  <2> HIDE DEF D
  <2> QED
    BY <1>1, <1>3, HasLeast
<1>5. \A k \in 1 .. n - 1 : a[k] = b[k]
  <2> SUFFICES ASSUME NEW k \in 1 .. n - 1, a[k] # b[k] PROVE FALSE
    OBVIOUS
  <2>1. k \in 1 .. MaxLen /\ k < n /\ ~(n <= k)
    <3>1. n \in 1 .. MaxLen /\ MaxLen \in Nat
      BY CodecAssumption
    <3> QED
      BY <3>1
  <2>2. k \in D
    BY <2>1
  <2> QED
    BY <1>4, <2>1, <2>2
<1>6. n \in 1 .. MaxLen /\ (a[n] < b[n] \/ b[n] < a[n])
  <2>1. n \in 1 .. MaxLen /\ a[n] # b[n]
    OBVIOUS
  <2>2. a[n] \in Nat /\ b[n] \in Nat
    BY <2>1 DEF Records
  <2> QED
    BY <2>1, <2>2
<1> QED
  BY <1>5, <1>6 DEF Before

StrictOrder(T, S) ==
    /\ \A x \in S : <<x, x>> \notin T
    /\ \A x, y, z \in S : <<x, y>> \in T /\ <<y, z>> \in T => <<x, z>> \in T
    /\ \A x, y \in S : x = y \/ <<x, y>> \in T \/ <<y, x>> \in T

\* R is the order of the records f, and T that of those that are the same.
ByRecord(R, f, T, S) ==
    \A x, y \in S : <<x, y>> \in R <=> Before(f[x], f[y]) \/ (f[x] = f[y] /\ <<x, y>> \in T)

\* The elements of S, each once, with their records in order.
Sorted(o, f, S) ==
    /\ Cardinality(S) \in Nat
    /\ o \in [1 .. Cardinality(S) -> S]
    /\ \A x \in S : \E n \in 1 .. Cardinality(S) : o[n] = x
    /\ \A m, n \in 1 .. Cardinality(S) :
          m < n => o[m] # o[n] /\ (Before(f[o[m]], f[o[n]]) \/ f[o[m]] = f[o[n]])

\* The order of records is strict and total when that of ties is.
LEMMA RecordsInOrder ==
    ASSUME NEW S, IsFiniteSet(S), NEW f \in [S -> Records], NEW T, StrictOrder(T, S),
           NEW R \in SUBSET (S \X S), ByRecord(R, f, T, S)
    PROVE  Sorted(InOrderOf(S, R), f, S)
<1>s. /\ \A x \in S : <<x, x>> \notin T
      /\ \A x, y, z \in S : <<x, y>> \in T /\ <<y, z>> \in T => <<x, z>> \in T
      /\ \A x, y \in S : x = y \/ <<x, y>> \in T \/ <<y, x>> \in T
  BY DEF StrictOrder
<1>t. \A x, y \in S : <<x, y>> \in R <=> Before(f[x], f[y]) \/ (f[x] = f[y] /\ <<x, y>> \in T)
  BY DEF ByRecord
<1>1. \A x \in S : f[x] \in Records
  OBVIOUS
<1>2. \A x \in S : <<x, x>> \notin R
  BY <1>1, <1>s, <1>t, BeforeIrreflexive
<1>3. ASSUME NEW x \in S, NEW y \in S, NEW z \in S, <<x, y>> \in R, <<y, z>> \in R
      PROVE  <<x, z>> \in R
  <2>1. /\ Before(f[x], f[y]) \/ (f[x] = f[y] /\ <<x, y>> \in T)
        /\ Before(f[y], f[z]) \/ (f[y] = f[z] /\ <<y, z>> \in T)
    BY <1>3, <1>t
  <2>2. f[x] \in Records /\ f[y] \in Records /\ f[z] \in Records
    BY <1>1
  <2>3. CASE Before(f[x], f[y]) /\ Before(f[y], f[z])
    BY <1>t, <2>2, <2>3, BeforeTransitive
  <2>4. CASE Before(f[x], f[y]) /\ f[y] = f[z]
    BY <1>t, <2>4
  <2>5. CASE f[x] = f[y] /\ Before(f[y], f[z])
    BY <1>t, <2>5
  <2>6. CASE f[x] = f[y] /\ <<x, y>> \in T /\ f[y] = f[z] /\ <<y, z>> \in T
    <3>1. <<x, z>> \in T
      BY <1>s, <2>6
    <3> QED
      BY <1>t, <2>6, <3>1
  <2> QED
    BY <2>1, <2>3, <2>4, <2>5, <2>6
<1>4. ASSUME NEW x \in S, NEW y \in S
      PROVE  x = y \/ <<x, y>> \in R \/ <<y, x>> \in R
  BY <1>1, <1>s, <1>t, BeforeTotal
<1>5. /\ Cardinality(S) \in Nat
      /\ InOrderOf(S, R) \in [1 .. Cardinality(S) -> S]
      /\ \A x \in S : \E n \in 1 .. Cardinality(S) : InOrderOf(S, R)[n] = x
      /\ \A m, n \in 1 .. Cardinality(S) :
            m < n => <<InOrderOf(S, R)[m], InOrderOf(S, R)[n]>> \in R
  BY <1>2, <1>3, <1>4, RanksOrder
<1>6. ASSUME NEW m \in 1 .. Cardinality(S), NEW n \in 1 .. Cardinality(S), m < n
      PROVE  /\ InOrderOf(S, R)[m] # InOrderOf(S, R)[n]
             /\ \/ Before(f[InOrderOf(S, R)[m]], f[InOrderOf(S, R)[n]])
                \/ f[InOrderOf(S, R)[m]] = f[InOrderOf(S, R)[n]]
  <2>1. /\ InOrderOf(S, R)[m] \in S /\ InOrderOf(S, R)[n] \in S
        /\ <<InOrderOf(S, R)[m], InOrderOf(S, R)[n]>> \in R
    BY <1>5, <1>6
  <2> QED
    BY <1>1, <1>2, <1>t, <2>1
<1> QED
  BY <1>5, <1>6 DEF Sorted

-----------------------------------------------------------------------------
(* Padding.                                                                *)

LEMMA Bytes ==
    /\ MaxLen \in Nat /\ MinLen \in 1 .. MaxLen /\ MetaLen \in Nat
    /\ \A b \in Alphabet : b \in Nat /\ b # Padding
    /\ \A code \in DOMAIN PartOf : code \in Codes
    /\ \A code \in Codes : code \in Seq(Alphabet) /\ Len(code) \in 1 .. MaxLen
BY CodecAssumption DEF Codes, Padding

LEMMA PadIsRecord ==
    ASSUME NEW code \in Seq(Alphabet)
    PROVE  Pad(code) \in Records
<1>1. \A n \in 1 .. Len(code) : code[n] \in Nat
  BY Bytes
<1> QED
  BY <1>1, Bytes DEF Pad, Records, Padding

\* Padding is no byte of a code, so a record tells its code.
LEMMA PadTells ==
    ASSUME NEW code \in Seq(Alphabet), Len(code) <= MaxLen,
           NEW other \in Seq(Alphabet), Len(other) <= MaxLen,
           Pad(code) = Pad(other)
    PROVE  code = other
<1>1. \A n \in 1 .. MaxLen : Pad(code)[n] = Pad(other)[n]
  OBVIOUS
<1>2. /\ \A n \in 1 .. MaxLen : Pad(code)[n] = IF n <= Len(code) THEN code[n] ELSE Padding
      /\ \A n \in 1 .. MaxLen : Pad(other)[n] = IF n <= Len(other) THEN other[n] ELSE Padding
  BY DEF Pad
<1>3. /\ \A n \in 1 .. Len(code) : code[n] # Padding
      /\ \A n \in 1 .. Len(other) : other[n] # Padding
  BY Bytes
<1>4. MaxLen \in Nat /\ Len(code) \in Nat /\ Len(other) \in Nat
  BY Bytes
<1>5. ~(Len(code) < Len(other))
  <2> SUFFICES ASSUME Len(code) < Len(other) PROVE FALSE
    OBVIOUS
  <2>1. Len(other) \in 1 .. MaxLen /\ Len(other) \in 1 .. Len(other) /\ ~(Len(other) <= Len(code))
    BY <1>4
  <2> QED
    BY <1>1, <1>2, <1>3, <2>1
<1>6. ~(Len(other) < Len(code))
  <2> SUFFICES ASSUME Len(other) < Len(code) PROVE FALSE
    OBVIOUS
  <2>1. Len(code) \in 1 .. MaxLen /\ Len(code) \in 1 .. Len(code) /\ ~(Len(code) <= Len(other))
    BY <1>4
  <2> QED
    BY <1>1, <1>2, <1>3, <2>1
<1>7. Len(code) = Len(other)
  BY <1>4, <1>5, <1>6
<1>8. ASSUME NEW n \in 1 .. Len(code) PROVE code[n] = other[n]
  <2>1. n \in 1 .. MaxLen /\ n <= Len(code) /\ n <= Len(other)
    BY <1>4, <1>7
  <2> QED
    BY <1>1, <1>2, <2>1
<1> QED
  BY <1>7, <1>8, SeqEqual

\* TrimRight takes the padding off again.
LEMMA TrimmedPad ==
    ASSUME NEW code \in Codes
    PROVE  Trimmed(Pad(code)) = code
<1> DEFINE rec == Pad(code)
<1>1. code \in Seq(Alphabet) /\ Len(code) \in 1 .. MaxLen /\ MaxLen \in Nat
  BY Bytes
<1>2. \A n \in 1 .. MaxLen : rec[n] = IF n <= Len(code) THEN code[n] ELSE Padding
  BY DEF Pad
<1>3. \A n \in 1 .. Len(code) : code[n] \in Nat /\ code[n] # Padding
  BY <1>1, Bytes
<1>r. rec \in Records
  BY <1>1, PadIsRecord
<1> HIDE DEF rec
<1>4. Len(code) \in 0 .. MaxLen /\ Padded(rec, Len(code))
  <2>1. \A k \in Len(code) + 1 .. MaxLen : rec[k] = Padding
    BY <1>1, <1>2
  <2>2. rec[Len(code)] # Padding
    BY <1>1, <1>2, <1>3
  <2> QED
    BY <1>1, <2>1, <2>2 DEF Padded
<1>5. ASSUME NEW n \in 0 .. MaxLen, Padded(rec, n) PROVE n = Len(code)
  <2>1. ~(n < Len(code))
    <3> SUFFICES ASSUME n < Len(code) PROVE FALSE
      OBVIOUS
    <3>1. rec[Len(code)] = Padding
      BY <1>1, <1>5 DEF Padded
    <3> QED
      BY <1>1, <1>2, <1>3, <3>1
  <2>2. ~(Len(code) < n)
    <3> SUFFICES ASSUME Len(code) < n PROVE FALSE
      OBVIOUS
    <3>1. rec[n] # Padding
      BY <1>1, <1>5 DEF Padded
    <3> QED
      BY <1>1, <1>2, <3>1
  <2> QED
    BY <1>1, <2>1, <2>2
<1>6. (CHOOSE n \in 0 .. MaxLen : Padded(rec, n)) = Len(code)
  BY <1>4, <1>5
<1>7. Trimmed(rec) = SubSeq(rec, 1, Len(code))
  BY <1>6 DEF Trimmed
<1>8. /\ SubSeq(rec, 1, Len(code)) \in Seq(Nat)
      /\ Len(SubSeq(rec, 1, Len(code))) = Len(code)
      /\ \A n \in 1 .. Len(code) : SubSeq(rec, 1, Len(code))[n] = rec[n]
  <2>1. \A n \in 1 .. Len(code) : rec[n] \in Nat
    BY <1>1, <1>r DEF Records
  <2> QED
    BY <1>1, <2>1, SubSeqProperties
<1>9. code \in Seq(Nat)
  BY <1>1, <1>3
<1>10. \A n \in 1 .. Len(code) : SubSeq(rec, 1, Len(code))[n] = code[n]
  BY <1>1, <1>2, <1>8
<1> QED
  BY <1>7, <1>8, <1>9, <1>10, SeqEqual DEF rec

-----------------------------------------------------------------------------
(* What sorting gives.                                                     *)

OnceEach(cs) == \A m, n \in DOMAIN cs : cs[m] = cs[n] => m = n

\* WriteIndex writes each code as a record, in an order that is strict when no
\* code is there twice.
LEMMA WrittenSorted ==
    ASSUME codes \in Seq(DOMAIN PartOf), OnceEach(codes)
    PROVE  /\ Written \in Seq(Records)
           /\ ToSet(Written) = {Pad(codes[n]) : n \in DOMAIN codes}
           /\ \A m, n \in DOMAIN Written : m < n => Before(Written[m], Written[n])
<1> DEFINE D == DOMAIN codes
           f == [n \in D |-> Pad(codes[n])]
           T == {mn \in D \X D : mn[1] < mn[2]}
           c == Cardinality(D)
           o == InOrderOf(D, WriteOrder)
<1>1. Len(codes) \in Nat /\ D = 1 .. Len(codes)
  OBVIOUS
<1>2. IsFiniteSet(D)
  BY <1>1, FS_Interval
<1>3. \A n \in D : codes[n] \in Codes /\ codes[n] \in Seq(Alphabet) /\ Len(codes[n]) <= MaxLen
  <2>1. \A n \in D : codes[n] \in DOMAIN PartOf
    OBVIOUS
  <2>2. \A code \in Codes : code \in Seq(Alphabet) /\ Len(code) <= MaxLen
    BY Bytes
  <2> QED
    BY <2>1, <2>2, Bytes
<1>4. f \in [D -> Records] /\ \A n \in D : f[n] = Pad(codes[n])
  BY <1>3, PadIsRecord
<1>5. \A m, n \in D : f[m] = f[n] => m = n
  BY <1>3, <1>4, PadTells DEF OnceEach
<1>6. T \in SUBSET (D \X D) /\ \A m, n \in D : <<m, n>> \in T <=> m < n
  OBVIOUS
<1>7. /\ WriteOrder \in SUBSET (D \X D)
      /\ \A m, n \in D :
            <<m, n>> \in WriteOrder <=> Before(f[m], f[n]) \/ (f[m] = f[n] /\ <<m, n>> \in T)
  BY <1>4, <1>6 DEF WriteOrder, Sooner
<1>8. StrictOrder(T, D)
  BY <1>1, <1>6 DEF StrictOrder
<1> HIDE DEF D, f, T
<1>9. /\ c \in Nat /\ o \in [1 .. c -> D]
      /\ \A x \in D : \E n \in 1 .. c : o[n] = x
      /\ \A m, n \in 1 .. c : m < n => o[m] # o[n] /\ (Before(f[o[m]], f[o[n]]) \/ f[o[m]] = f[o[n]])
  <2>1. ByRecord(WriteOrder, f, T, D)
    BY <1>7 DEF ByRecord
  <2>2. Sorted(o, f, D)
    BY <1>2, <1>4, <1>7, <1>8, <2>1, RecordsInOrder
  <2> QED
    BY <2>2 DEF Sorted
<1>10. Written = [n \in 1 .. c |-> Pad(codes[o[n]])]
  <2>1. Written = [n \in DOMAIN o |-> Pad(codes[o[n]])]
    BY DEF Written, o, D
  <2> HIDE DEF o, c
  <2>2. DOMAIN o = 1 .. c
    BY <1>9
  <2> QED
    BY <2>1, <2>2
<1> HIDE DEF o, c
<1>11. DOMAIN Written = 1 .. c /\ \A n \in 1 .. c : Written[n] = f[o[n]] /\ o[n] \in D
  BY <1>4, <1>9, <1>10
<1>12. Written \in Seq(Records)
  <2>1. \A n \in 1 .. c : Pad(codes[o[n]]) \in Records
    BY <1>4, <1>9
  <2> QED
    BY <1>9, <1>10, <2>1
<1>13. ToSet(Written) = {Pad(codes[n]) : n \in D}
  <2>1. ASSUME NEW n \in 1 .. c PROVE Written[n] \in {Pad(codes[k]) : k \in D}
    BY <1>4, <1>11
  <2>2. ASSUME NEW k \in D PROVE \E n \in 1 .. c : Written[n] = Pad(codes[k])
    BY <1>4, <1>9, <1>11
  <2> QED
    BY <1>11, <2>1, <2>2 DEF ToSet
<1>14. ASSUME NEW m \in 1 .. c, NEW n \in 1 .. c, m < n PROVE Before(Written[m], Written[n])
  <2>1. o[m] # o[n] /\ o[m] \in D /\ o[n] \in D /\ (Before(f[o[m]], f[o[n]]) \/ f[o[m]] = f[o[n]])
    BY <1>9, <1>14
  <2> QED
    BY <1>5, <1>11, <2>1
<1> QED
  BY <1>11, <1>12, <1>13, <1>14 DEF D

\* Records in strict order are in order.
LEMMA WrittenInOrder ==
    ASSUME codes \in Seq(DOMAIN PartOf), OnceEach(codes)
    PROVE  InOrder(Written)
<1> DEFINE w == Written
<1>1. w \in Seq(Records) /\ \A m, n \in DOMAIN w : m < n => Before(w[m], w[n])
  BY WrittenSorted
<1> HIDE DEF w
<1>2. InOrder(w)
  <2> SUFFICES ASSUME NEW n \in 1 .. Len(w) - 1 PROVE ~Before(w[n + 1], w[n])
    BY DEF InOrder
  <2>1. n \in DOMAIN w /\ n + 1 \in DOMAIN w /\ n < n + 1
    BY <1>1
  <2>2. Before(w[n], w[n + 1]) /\ w[n] \in Records /\ w[n + 1] \in Records
    BY <1>1, <2>1
  <2> QED
    BY <2>2, BeforeIrreflexive, BeforeTransitive
<1> QED
  BY <1>2 DEF w

\* The file that is written passes for what it is.
LEMMA EncodedIntact ==
    ASSUME codes \in Seq(DOMAIN PartOf), OnceEach(codes)
    PROVE  Intact(Encoded)
<1> DEFINE head == [n \in 1 .. MetaLen |-> MetaWritten]
           body == head \o Written
           all == SubSeq(body, MetaLen + 1, Len(body))
           w == Written
<1>1. w \in Seq(Records) /\ \A m, n \in DOMAIN w : m < n => Before(w[m], w[n])
  BY WrittenSorted
<1>e. Encoded = [magic |-> TRUE, count |-> Len(w), metaLen |-> MetaLen, crc |-> w, body |-> body]
  BY DEF Encoded
<1> DEFINE S == Records \cup {MetaWritten}
<1> HIDE DEF w
<1>2. head \in Seq(S) /\ Len(head) = MetaLen /\ w \in Seq(S) /\ MetaLen \in Nat /\ Len(w) \in Nat
  <2>1. MetaLen \in Nat
    BY Bytes
  <2> QED
    BY <1>1, <2>1
<1> HIDE DEF head
<1>3. /\ Len(body) = MetaLen + Len(w)
      /\ \A n \in 1 .. Len(w) : body[MetaLen + n] = w[n]
      /\ body \in Seq(S)
  <2>1. /\ head \o w \in Seq(S) /\ Len(head \o w) = Len(head) + Len(w)
        /\ \A n \in 1 .. Len(head) + Len(w) :
              (head \o w)[n] = IF n <= Len(head) THEN head[n] ELSE w[n - Len(head)]
    BY <1>2, ConcatProperties
  <2>2. body = head \o w
    BY DEF w
  <2> HIDE DEF body
  <2>3. ASSUME NEW n \in 1 .. Len(w) PROVE body[MetaLen + n] = w[n]
    <3>1. /\ MetaLen + n \in 1 .. Len(head) + Len(w)
          /\ ~(MetaLen + n <= Len(head)) /\ (MetaLen + n) - Len(head) = n
      BY <1>2
    <3> QED
      BY <2>1, <2>2, <3>1
  <2> QED
    BY <1>2, <2>1, <2>2, <2>3
<1> HIDE DEF body
<1>4. all = w
  <2>1. \A n \in MetaLen + 1 .. Len(body) : body[n] \in S
    BY <1>2, <1>3
  <2>2. /\ all \in Seq(S)
        /\ Len(all) = IF MetaLen + 1 <= Len(body) THEN Len(body) - (MetaLen + 1) + 1 ELSE 0
        /\ \A n \in 1 .. Len(body) - (MetaLen + 1) + 1 : all[n] = body[MetaLen + 1 + n - 1]
    <3>1. MetaLen + 1 \in Int /\ Len(body) \in Int
      BY <1>2, <1>3
    <3> QED
      BY <2>1, <3>1, SubSeqProperties
  <2> HIDE DEF all
  <2>3. Len(all) = Len(w)
    BY <1>2, <1>3, <2>2
  <2>4. ASSUME NEW n \in 1 .. Len(all) PROVE all[n] = w[n]
    <3>1. /\ n \in 1 .. Len(body) - (MetaLen + 1) + 1 /\ n \in 1 .. Len(w)
          /\ MetaLen + 1 + n - 1 = MetaLen + n
      BY <1>2, <1>3, <2>3
    <3> QED
      BY <1>3, <2>2, <3>1
  <2> QED
    BY <1>2, <2>2, <2>3, <2>4, SeqEqual
<1> HIDE DEF all
<1>5. \A n \in 1 .. MetaLen : body[n] # MetaBroken
  <2>1. ASSUME NEW n \in 1 .. MetaLen PROVE body[n] = MetaWritten
    <3>1. body = head \o w /\ n \in 1 .. Len(head) + Len(w) /\ n <= Len(head)
      BY <1>2 DEF body, w
    <3>2. body[n] = head[n]
      BY <1>2, <3>1, ConcatProperties
    <3> QED
      BY <3>2 DEF head
  <2>2. MetaWritten # MetaBroken
    BY DEF MetaWritten, MetaBroken
  <2> QED
    BY <2>1, <2>2
<1>6. /\ Encoded.magic /\ Encoded.metaLen = MetaLen /\ Encoded.count = Len(w)
      /\ Encoded.crc = w /\ Encoded.body = body
  BY <1>e
<1>7. SubSeq(Encoded.body, MetaLen + 1, Len(Encoded.body)) = w
  BY <1>4, <1>6 DEF all
<1> QED
  BY <1>3, <1>5, <1>6, <1>7 DEF Intact, w

CorpusTyped == \E n \in 0 .. 8 : corpus \in [1 .. n -> Seq(DOMAIN PartOf)]

\* What was spilled is finite; a record is told by its source and its place there.
LEMMA SpilledLines ==
    ASSUME CorpusTyped
    PROVE  /\ IsFiniteSet(Spilled)
           /\ \A ln : ln \in Spilled <=> /\ ln = <<ln[1], ln[2]>>
                                         /\ ln[1] \in DOMAIN corpus
                                         /\ ln[2] \in DOMAIN corpus[ln[1]]
           /\ \A ln \in Spilled : ln[1] \in Nat /\ ln[2] \in Nat /\ CodeAt(ln) \in DOMAIN PartOf
<1>1. PICK n \in 0 .. 8 : corpus \in [1 .. n -> Seq(DOMAIN PartOf)]
  BY DEF CorpusTyped
<1>2. DOMAIN corpus = 1 .. n /\ \A src \in 1 .. n : corpus[src] \in Seq(DOMAIN PartOf)
  BY <1>1
<1>3. \A src \in 1 .. n : DOMAIN corpus[src] = 1 .. Len(corpus[src]) /\ Len(corpus[src]) \in Nat
  BY <1>2
<1> DEFINE Of(src) == {src} \X DOMAIN corpus[src]
<1>4. ASSUME NEW src \in 1 .. n PROVE IsFiniteSet(Of(src))
  <2>1. IsFiniteSet(1 .. Len(corpus[src]))
    <3>1. Len(corpus[src]) \in Nat
      BY <1>3
    <3> QED
      BY <3>1, FS_Interval
  <2>2. IsFiniteSet({src})
    BY FS_Singleton
  <2> QED
    BY <1>3, <2>1, <2>2, FS_Product
<1>5. IsFiniteSet(1 .. n)
  BY FS_Interval
<1>6. IsFiniteSet({Of(src) : src \in 1 .. n})
  <2> DEFINE im == [src \in 1 .. n |-> Of(src)]
             T == {Of(src) : src \in 1 .. n}
  <2>1. im \in Surjection(1 .. n, T)
    BY DEF Surjection
  <2> HIDE DEF im, T
  <2>2. IsFiniteSet(T)
    BY <1>5, <2>1, FS_Surjection
  <2> QED
    BY <2>2 DEF T
<1>7. IsFiniteSet(UNION {Of(src) : src \in 1 .. n})
  <2> DEFINE T == {Of(src) : src \in 1 .. n}
  <2>1. \A U \in T : IsFiniteSet(U)
    BY <1>4
  <2> HIDE DEF T
  <2>2. IsFiniteSet(UNION T)
    BY <1>6, <2>1, FS_UNION DEF T
  <2> QED
    BY <2>2 DEF T
<1>8. Spilled = UNION {Of(src) : src \in 1 .. n}
  BY <1>2 DEF Spilled
<1>9. ASSUME NEW ln
      PROVE  ln \in Spilled <=> /\ ln = <<ln[1], ln[2]>> /\ ln[1] \in DOMAIN corpus
                                /\ ln[2] \in DOMAIN corpus[ln[1]]
  BY <1>2, <1>8
<1>10. ASSUME NEW ln \in Spilled
       PROVE  ln[1] \in Nat /\ ln[2] \in Nat /\ CodeAt(ln) \in DOMAIN PartOf
  <2>1. ln[1] \in 1 .. n /\ ln[2] \in 1 .. Len(corpus[ln[1]])
    BY <1>2, <1>3, <1>9
  <2>2. corpus[ln[1]][ln[2]] \in DOMAIN PartOf
    BY <1>2, <2>1
  <2> QED
    BY <1>3, <2>1, <2>2 DEF CodeAt
<1> QED
  BY <1>7, <1>8, <1>9, <1>10

\* The records of a partition: each of a code of it and of a source of the code,
\* each such pair among them, and in order.
ScanOf(rs, p) ==
    /\ rs \in Seq([rec : Records, src : DOMAIN corpus])
    /\ \A n \in DOMAIN rs : \E code \in DOMAIN PartOf :
          PartOf[code] = p /\ rs[n].rec = Pad(code) /\ rs[n].src \in SourcesOf(code)
    /\ \A code \in DOMAIN PartOf : PartOf[code] = p =>
          \A src \in SourcesOf(code) : \E n \in DOMAIN rs : rs[n].rec = Pad(code) /\ rs[n].src = src
    /\ \A m, n \in DOMAIN rs : m < n => Before(rs[m].rec, rs[n].rec) \/ rs[m].rec = rs[n].rec

LEMMA ScansSorted ==
    ASSUME CorpusTyped, NEW p
    PROVE  ScanOf(SortedRecords(p), p)
<1> DEFINE S == Lines(p)
           f == [ln \in S |-> Pad(CodeAt(ln))]
           T == {ab \in S \X S : Earlier(ab[1], ab[2])}
           c == Cardinality(S)
           o == InOrderOf(S, ScanOrder(p))
           rs == SortedRecords(p)
<1>1. /\ IsFiniteSet(S)
      /\ \A ln : ln \in S <=> /\ ln = <<ln[1], ln[2]>> /\ ln[1] \in DOMAIN corpus
                              /\ ln[2] \in DOMAIN corpus[ln[1]] /\ PartOf[CodeAt(ln)] = p
      /\ \A ln \in S : ln[1] \in Nat /\ ln[2] \in Nat /\ CodeAt(ln) \in DOMAIN PartOf
  <2>1. S \in SUBSET Spilled
    BY DEF Lines
  <2>2. IsFiniteSet(S)
    BY <2>1, SpilledLines, FS_Subset
  <2> QED
    BY <2>2, SpilledLines DEF Lines
<1>2. f \in [S -> Records] /\ \A ln \in S : f[ln] = Pad(CodeAt(ln))
  <2>1. \A code \in DOMAIN PartOf : code \in Seq(Alphabet)
    BY Bytes
  <2>2. \A ln \in S : Pad(CodeAt(ln)) \in Records
    BY <1>1, <2>1, PadIsRecord
  <2> QED
    BY <2>2
<1>3. T \in SUBSET (S \X S) /\ \A a, b \in S : <<a, b>> \in T <=> Earlier(a, b)
  OBVIOUS
<1>4. /\ ScanOrder(p) \in SUBSET (S \X S)
      /\ ByRecord(ScanOrder(p), f, T, S)
  BY <1>2, <1>3 DEF ScanOrder, Sooner, ByRecord
<1> HIDE DEF S, f, T
<1>5. StrictOrder(T, S)
  <2>1. \A a, b \in S : a = b \/ a[1] # b[1] \/ a[2] # b[2]
    BY <1>1
  <2>2. \A a \in S : ~Earlier(a, a)
    BY <1>1 DEF Earlier
  <2>3. \A a, b, d \in S : Earlier(a, b) /\ Earlier(b, d) => Earlier(a, d)
    BY <1>1 DEF Earlier
  <2>4. \A a, b \in S : a = b \/ Earlier(a, b) \/ Earlier(b, a)
    BY <1>1, <2>1 DEF Earlier
  <2> QED
    BY <1>3, <2>2, <2>3, <2>4 DEF StrictOrder
<1>6. /\ c \in Nat /\ o \in [1 .. c -> S]
      /\ \A x \in S : \E n \in 1 .. c : o[n] = x
      /\ \A m, n \in 1 .. c : m < n => o[m] # o[n] /\ (Before(f[o[m]], f[o[n]]) \/ f[o[m]] = f[o[n]])
  <2>1. Sorted(o, f, S)
    BY <1>1, <1>2, <1>4, <1>5, RecordsInOrder
  <2> QED
    BY <2>1 DEF Sorted
<1>7. rs = [n \in 1 .. c |-> [rec |-> Pad(CodeAt(o[n])), src |-> o[n][1]]]
  <2>1. rs = [n \in DOMAIN o |-> [rec |-> Pad(CodeAt(o[n])), src |-> o[n][1]]]
    BY DEF SortedRecords, o, S
  <2> HIDE DEF o, c, rs
  <2>2. DOMAIN o = 1 .. c
    BY <1>6
  <2> QED
    BY <2>1, <2>2
<1> HIDE DEF o, c, rs
<1>8. /\ DOMAIN rs = 1 .. c
      /\ \A n \in 1 .. c : o[n] \in S /\ rs[n].rec = f[o[n]] /\ rs[n].src = o[n][1]
  BY <1>2, <1>6, <1>7
<1>9. rs \in Seq([rec : Records, src : DOMAIN corpus])
  <2>1. \A n \in 1 .. c : [rec |-> Pad(CodeAt(o[n])), src |-> o[n][1]]
                           \in [rec : Records, src : DOMAIN corpus]
    BY <1>1, <1>2, <1>6
  <2> QED
    BY <1>6, <1>7, <2>1
<1>10. ASSUME NEW n \in DOMAIN rs
       PROVE  \E code \in DOMAIN PartOf :
                 PartOf[code] = p /\ rs[n].rec = Pad(code) /\ rs[n].src \in SourcesOf(code)
  <2>1. o[n] \in S /\ rs[n].rec = Pad(CodeAt(o[n])) /\ rs[n].src = o[n][1]
    BY <1>2, <1>8
  <2>2. /\ CodeAt(o[n]) \in DOMAIN PartOf /\ PartOf[CodeAt(o[n])] = p
        /\ o[n][1] \in DOMAIN corpus /\ o[n][2] \in DOMAIN corpus[o[n][1]]
    BY <1>1, <2>1
  <2>3. o[n][1] \in SourcesOf(CodeAt(o[n]))
    BY <2>2 DEF SourcesOf, CodeAt, ToSet
  <2> QED
    BY <2>1, <2>2, <2>3
<1>11. ASSUME NEW code \in DOMAIN PartOf, PartOf[code] = p, NEW src \in SourcesOf(code)
       PROVE  \E n \in DOMAIN rs : rs[n].rec = Pad(code) /\ rs[n].src = src
  <2>1. PICK k \in DOMAIN corpus[src] : corpus[src][k] = code
    BY DEF SourcesOf, ToSet
  <2>2. <<src, k>> \in S /\ CodeAt(<<src, k>>) = code
    BY <1>1, <1>11, <2>1 DEF SourcesOf, CodeAt
  <2>3. PICK n \in 1 .. c : o[n] = <<src, k>>
    BY <1>6, <2>2
  <2> QED
    BY <1>2, <1>8, <2>2, <2>3
<1>12. ASSUME NEW m \in DOMAIN rs, NEW n \in DOMAIN rs, m < n
       PROVE  Before(rs[m].rec, rs[n].rec) \/ rs[m].rec = rs[n].rec
  BY <1>6, <1>8, <1>12
<1> QED
  BY <1>9, <1>10, <1>11, <1>12 DEF ScanOf, rs

-----------------------------------------------------------------------------
(* The scan of a partition.                                                *)

PullInv == left \subseteq Parts /\ (recs = << >> \/ \E p \in Parts \ left : ScanOf(recs, p))

\* The run so far, its sources, and that no run is met twice.
RunInv ==
    /\ i \in Nat /\ j \in Nat /\ 1 <= i /\ i <= j /\ j <= Len(recs) + 1
    /\ \A k \in i .. j - 1 : recs[k].rec = recs[i].rec
    /\ mask = {recs[k].src : k \in i .. j - 1}
    /\ \A k \in 1 .. i - 1, l \in i .. Len(recs) : recs[k].rec # recs[l].rec

\* Found, each once, are the codes of two sources whose runs have ended.
FoundInv ==
    /\ codes \in Seq(DOMAIN PartOf) /\ OnceEach(codes)
    /\ \A code \in DOMAIN PartOf :
          code \in ToSet(codes) <=> /\ code \in Valid /\ PartOf[code] \notin left
                                    /\ \A k \in i .. Len(recs) : recs[k].rec # Pad(code)

ScanInv == CorpusTyped /\ PullInv /\ RunInv /\ FoundInv

\* A checksum that matches is of what was written, whatever was damaged.
EncodedInv ==
    /\ phase \in {"count", "written", "loaded", "refused", "answered"}
    /\ phase # "count" =>
          /\ left = {} /\ i > Len(recs)
          /\ DOMAIN file = {"magic", "count", "metaLen", "crc", "body"}
          /\ file.count \in Nat
          /\ CrcMatches(file) => file.crc = Written
    /\ phase = "refused" => ~Loads(file)
    /\ phase \in {"loaded", "answered"} => Loads(file) /\ loaded = Written

\* Below lo all records are before the key, from hi on none is.
SearchInv ==
    /\ phase \in {"count", "written"} => key = << >>
    /\ key = << >> => lo = 0
    /\ phase # "answered" => found = FALSE
    /\ phase = "loaded" /\ key # << >> =>
          /\ key \in Seq(Alphabet) /\ Len(key) <= MaxLen
          /\ lo \in Nat /\ hi \in Nat /\ lo <= hi /\ hi <= Len(loaded)
          /\ \A n \in 1 .. lo : Before(loaded[n], Pad(key))
          /\ \A n \in hi + 1 .. Len(loaded) : ~Before(loaded[n], Pad(key))
    /\ phase = "answered" => found = (key \in Valid)

LEMMA ScanInit == Init => ScanInv /\ EncodedInv /\ SearchInv
<1> SUFFICES ASSUME Init PROVE ScanInv /\ EncodedInv /\ SearchInv
  OBVIOUS
<1> USE DEF Init
<1>1. CorpusTyped
  BY CodecAssumption DEF CorpusTyped
<1>2. PullInv /\ RunInv
  BY DEF PullInv, RunInv
<1>3. FoundInv
  <2>1. ToSet(codes) = {} /\ codes \in Seq(DOMAIN PartOf) /\ OnceEach(codes)
    BY DEF ToSet, OnceEach
  <2>2. \A code \in DOMAIN PartOf : PartOf[code] \in left
    BY CodecAssumption
  <2> QED
    BY <2>1, <2>2 DEF FoundInv
<1>4. EncodedInv
  BY DEF EncodedInv
<1>5. SearchInv
  BY DEF SearchInv
<1> QED
  BY <1>1, <1>2, <1>3, <1>4, <1>5 DEF ScanInv

\* What is fixed by the corpus stays as it is.
LEMMA CorpusFixes ==
    ASSUME corpus' = corpus
    PROVE  /\ CorpusTyped' <=> CorpusTyped
           /\ \A code : SourcesOf(code)' = SourcesOf(code)
           /\ Valid' = Valid
           /\ \A rs, p : ScanOf(rs, p)' <=> ScanOf(rs, p)
<1>1. CorpusTyped' <=> CorpusTyped
  BY DEF CorpusTyped
<1>2. \A code : SourcesOf(code)' = SourcesOf(code)
  BY DEF SourcesOf
<1>3. Valid' = Valid
  BY <1>2 DEF Valid
<1>4. \A rs, p : ScanOf(rs, p)' <=> ScanOf(rs, p)
  BY <1>2 DEF ScanOf
<1> QED
  BY <1>1, <1>2, <1>3, <1>4

LEMMA ScanStays ==
    ASSUME ScanInv, UNCHANGED <<corpus, counting>>
    PROVE  ScanInv'
<1>1. /\ corpus' = corpus /\ left' = left /\ recs' = recs
      /\ i' = i /\ j' = j /\ mask' = mask /\ codes' = codes
  BY DEF counting
<1>2. CorpusTyped' /\ Valid' = Valid /\ \A rs, p : ScanOf(rs, p)' <=> ScanOf(rs, p)
  BY <1>1, CorpusFixes DEF ScanInv
<1>3. PullInv'
  BY <1>1, <1>2 DEF ScanInv, PullInv
<1>4. RunInv'
  BY <1>1 DEF ScanInv, RunInv
<1>5. FoundInv'
  BY <1>1, <1>2 DEF ScanInv, FoundInv, OnceEach, ToSet
<1> QED
  BY <1>2, <1>3, <1>4, <1>5 DEF ScanInv

\* A worker pulls a partition, of which nothing has been found.
LEMMA PullKeeps ==
    ASSUME ScanInv, PullPartition
    PROVE  ScanInv'
<1>1. PICK p \in left : left' = left \ {p} /\ recs' = SortedRecords(p)
  BY DEF PullPartition
<1>2. /\ i' = 1 /\ j' = 1 /\ mask' = {} /\ codes' = codes /\ corpus' = corpus /\ i > Len(recs)
  BY DEF PullPartition
<1>3. CorpusTyped /\ PullInv /\ RunInv /\ FoundInv
  BY DEF ScanInv
<1>4. ScanOf(recs', p)
  BY <1>1, <1>3, ScansSorted
<1>5. CorpusTyped' /\ Valid' = Valid /\ ScanOf(recs, p)'
  BY <1>2, <1>3, <1>4, CorpusFixes
<1>6. recs' \in Seq([rec : Records, src : DOMAIN corpus])
  BY <1>4 DEF ScanOf
<1>7. PullInv'
  BY <1>1, <1>3, <1>5 DEF PullInv
<1>8. RunInv'
  <2>1. Len(recs') \in Nat
    BY <1>6
  <2> QED
    BY <1>2, <2>1 DEF RunInv
<1>9. FoundInv'
  <2>1. codes' \in Seq(DOMAIN PartOf) /\ OnceEach(codes')
    BY <1>2, <1>3 DEF FoundInv
  <2>2. ASSUME NEW code \in DOMAIN PartOf
        PROVE  code \in ToSet(codes') <=> /\ code \in Valid /\ PartOf[code] \notin left'
                                          /\ \A k \in i' .. Len(recs') : recs'[k].rec # Pad(code)
    <3>1. code \in ToSet(codes) <=> code \in Valid /\ PartOf[code] \notin left
      <4>1. \A k \in i .. Len(recs) : recs[k].rec # Pad(code)
        <5>1. Len(recs) \in Nat
          BY <1>3 DEF PullInv, ScanOf
        <5> QED
          BY <1>2, <1>3, <5>1 DEF RunInv
      <4> QED
        BY <1>3, <4>1 DEF FoundInv
    <3>2. CASE PartOf[code] = p
      <4>1. code \notin ToSet(codes')
        BY <1>1, <1>2, <3>1, <3>2
      <4>2. ASSUME code \in Valid PROVE \E k \in i' .. Len(recs') : recs'[k].rec = Pad(code)
        <5>1. PICK src : src \in SourcesOf(code)
          <6>1. SourcesOf(code) # {}
            BY <4>2, FS_EmptySet DEF Valid
          <6> QED
            BY <6>1
        <5>2. PICK k \in DOMAIN recs' : recs'[k].rec = Pad(code)
          BY <1>4, <3>2, <5>1 DEF ScanOf
        <5>3. k \in i' .. Len(recs')
          BY <1>2, <1>6, <5>2
        <5> QED
          BY <5>2, <5>3
      <4> QED
        BY <4>1, <4>2
    <3>3. CASE PartOf[code] # p
      <4>1. PartOf[code] \in left <=> PartOf[code] \in left'
        BY <1>1, <3>3
      <4>2. ASSUME NEW k \in i' .. Len(recs') PROVE recs'[k].rec # Pad(code)
        <5>1. k \in DOMAIN recs'
          BY <1>2, <1>6
        <5>2. PICK other \in DOMAIN PartOf : PartOf[other] = p /\ recs'[k].rec = Pad(other)
          BY <1>4, <5>1 DEF ScanOf
        <5>3. /\ code \in Seq(Alphabet) /\ Len(code) <= MaxLen
              /\ other \in Seq(Alphabet) /\ Len(other) <= MaxLen
          BY Bytes
        <5> QED
          BY <3>3, <5>2, <5>3, PadTells
      <4> QED
        BY <1>2, <3>1, <4>1, <4>2
    <3> QED
      BY <3>2, <3>3
  <2> QED
    BY <1>5, <2>1, <2>2 DEF FoundInv, OnceEach, ToSet
<1> QED
  BY <1>5, <1>7, <1>8, <1>9 DEF ScanInv

\* One more record of the run.
LEMMA RecordKeeps ==
    ASSUME ScanInv, ScanRecord
    PROVE  ScanInv'
<1>1. /\ corpus' = corpus /\ left' = left /\ recs' = recs /\ i' = i /\ codes' = codes
      /\ j' = j + 1 /\ mask' = mask \cup {recs[j].src}
      /\ j <= Len(recs) /\ recs[j].rec = recs[i].rec
  BY DEF ScanRecord, InRun, Masked
<1>2. CorpusTyped' /\ Valid' = Valid /\ \A rs, p : ScanOf(rs, p)' <=> ScanOf(rs, p)
  BY <1>1, CorpusFixes DEF ScanInv
<1>3. PullInv'
  BY <1>1, <1>2 DEF ScanInv, PullInv
<1>4. RunInv'
  <2>1. RunInv /\ Len(recs) \in Nat
    BY DEF ScanInv, PullInv, ScanOf
  <2>2. /\ i' \in Nat /\ j' \in Nat /\ 1 <= i' /\ i' <= j' /\ j' <= Len(recs') + 1
        /\ \A k \in i' .. j' - 1 : k \in i .. j - 1 \/ k = j
        /\ \A k \in i .. j - 1 : k \in i' .. j' - 1
        /\ j \in i' .. j' - 1
    BY <1>1, <2>1 DEF RunInv
  <2>3. \A k \in i' .. j' - 1 : recs'[k].rec = recs'[i'].rec
    BY <1>1, <2>1, <2>2 DEF RunInv
  <2>4. mask' = {recs'[k].src : k \in i' .. j' - 1}
    <3>1. mask = {recs[k].src : k \in i .. j - 1}
      BY <2>1 DEF RunInv
    <3>2. mask' = {recs[k].src : k \in i .. j - 1} \cup {recs[j].src}
      BY <1>1, <3>1
    <3>3. \A src : src \in mask' <=> \E k \in i' .. j' - 1 : src = recs[k].src
      BY <2>2, <3>2
    <3>4. mask' = {recs[k].src : k \in i' .. j' - 1}
      BY <3>3
    <3> QED
      BY <1>1, <3>4
  <2> QED
    BY <1>1, <2>1, <2>2, <2>3, <2>4 DEF RunInv
<1>5. FoundInv'
  BY <1>1, <1>2 DEF ScanInv, FoundInv, OnceEach, ToSet
<1> QED
  BY <1>2, <1>3, <1>4, <1>5 DEF ScanInv

\* The records of a code stand together: at the end of its run no later record
\* is of the same code, and the mask has every source of it.
LEMMA RunIsCode ==
    ASSUME ScanInv, i <= Len(recs), ~InRun,
           NEW p, ScanOf(recs, p), NEW code \in DOMAIN PartOf,
           PartOf[code] = p, recs[i].rec = Pad(code)
    PROVE  /\ i < j
           /\ \A k \in j .. Len(recs) : recs[k].rec # recs[i].rec
           /\ mask = SourcesOf(code)
<1>1. RunInv
  BY DEF ScanInv
<1>2. /\ recs \in Seq([rec : Records, src : DOMAIN corpus])
      /\ Len(recs) \in Nat /\ DOMAIN recs = 1 .. Len(recs)
  BY DEF ScanOf
<1>3. i \in Nat /\ j \in Nat /\ 1 <= i /\ i <= j /\ j <= Len(recs) + 1
  BY <1>1 DEF RunInv
<1>4. i < j
  <2>1. i # j
    BY DEF InRun
  <2> QED
    BY <1>3, <2>1
<1>5. ASSUME NEW k \in j .. Len(recs), recs[k].rec = recs[i].rec PROVE FALSE
  <2>1. j \in 1 .. Len(recs) /\ k \in 1 .. Len(recs) /\ i \in 1 .. Len(recs) /\ j <= k
    BY <1>2, <1>3
  <2>2. recs[j].rec # recs[i].rec
    BY <1>2, <1>3, <2>1 DEF InRun
  <2>3. recs[i].rec \in Records /\ recs[j].rec \in Records /\ recs[k].rec \in Records
    <3>1. \A n \in 1 .. Len(recs) : recs[n] \in [rec : Records, src : DOMAIN corpus]
      <4> DEFINE R == [rec : Records, src : DOMAIN corpus]
      <4>1. recs \in Seq(R)
        BY <1>2
      <4> HIDE DEF R
      <4>2. \A n \in 1 .. Len(recs) : recs[n] \in R
        BY <4>1
      <4> QED
        BY <4>2 DEF R
    <3>2. \A n \in 1 .. Len(recs) : recs[n].rec \in Records
      BY <3>1
    <3> QED
      BY <2>1, <3>2
  <2>4. Before(recs[i].rec, recs[j].rec)
    BY <1>2, <1>4, <2>1, <2>2 DEF ScanOf
  <2>5. j < k
    BY <1>2, <1>3, <1>5, <2>1, <2>2
  <2>6. Before(recs[j].rec, recs[k].rec) \/ recs[j].rec = recs[k].rec
    BY <1>2, <2>1, <2>5 DEF ScanOf
  <2> QED
    BY <1>5, <2>2, <2>3, <2>4, <2>6, BeforeIrreflexive, BeforeTransitive
<1>6. ASSUME NEW src \in mask PROVE src \in SourcesOf(code)
  <2>1. PICK k \in i .. j - 1 : recs[k].src = src
    BY <1>1 DEF RunInv
  <2>2. recs[k].rec = Pad(code) /\ k \in DOMAIN recs
    BY <1>1, <1>2, <1>3, <2>1 DEF RunInv
  <2>3. PICK other \in DOMAIN PartOf : recs[k].rec = Pad(other) /\ recs[k].src \in SourcesOf(other)
    BY <2>2 DEF ScanOf
  <2>4. /\ code \in Seq(Alphabet) /\ Len(code) <= MaxLen
        /\ other \in Seq(Alphabet) /\ Len(other) <= MaxLen
    BY Bytes
  <2>5. other = code
    BY <2>2, <2>3, <2>4, PadTells
  <2> QED
    BY <2>1, <2>3, <2>5
<1>7. ASSUME NEW src \in SourcesOf(code) PROVE src \in mask
  <2>1. PICK k \in DOMAIN recs : recs[k].rec = Pad(code) /\ recs[k].src = src
    BY DEF ScanOf
  <2>2. k \in 1 .. Len(recs)
    BY <1>2
  <2>3. ~(k \in 1 .. i - 1)
    <3>1. i \in i .. Len(recs)
      BY <1>2, <1>3
    <3> QED
      BY <1>1, <2>1, <3>1 DEF RunInv
  <2>4. ~(k \in j .. Len(recs))
    BY <1>5, <2>1
  <2>5. k \in i .. j - 1
    BY <1>2, <1>3, <2>2, <2>3, <2>4
  <2> QED
    BY <1>1, <2>1, <2>5 DEF RunInv
<1> QED
  BY <1>4, <1>5, <1>6, <1>7

\* A run ends: its code is found when its mask has two sources.
LEMMA EndKeeps ==
    ASSUME ScanInv, EndRun
    PROVE  ScanInv'
<1>1. /\ corpus' = corpus /\ left' = left /\ recs' = recs /\ i' = j /\ j' = j /\ mask' = {}
      /\ i <= Len(recs) /\ ~InRun
      /\ codes' = IF Cardinality(mask) >= 2 THEN Append(codes, Trimmed(recs[i].rec)) ELSE codes
  BY DEF EndRun
<1>2. CorpusTyped /\ PullInv /\ RunInv /\ FoundInv
  BY DEF ScanInv
<1>3. CorpusTyped' /\ Valid' = Valid /\ \A rs, p : ScanOf(rs, p)' <=> ScanOf(rs, p)
  BY <1>1, <1>2, CorpusFixes
<1>4. PullInv'
  BY <1>1, <1>2, <1>3 DEF PullInv
<1>5. i \in Nat /\ j \in Nat /\ 1 <= i /\ i <= j /\ j <= Len(recs) + 1
  BY <1>2 DEF RunInv
<1>6. PICK p \in Parts \ left : ScanOf(recs, p)
  <2>1. recs # << >>
    BY <1>1, <1>5
  <2> QED
    BY <1>2, <2>1 DEF PullInv
<1>7. Len(recs) \in Nat /\ DOMAIN recs = 1 .. Len(recs)
  BY <1>6 DEF ScanOf
<1>8. PICK found0 \in DOMAIN PartOf : PartOf[found0] = p /\ recs[i].rec = Pad(found0)
  <2>1. i \in DOMAIN recs
    BY <1>1, <1>5, <1>7
  <2> QED
    BY <1>6, <2>1 DEF ScanOf
<1>9. i < j /\ (\A k \in j .. Len(recs) : recs[k].rec # recs[i].rec) /\ mask = SourcesOf(found0)
  BY <1>1, <1>6, <1>8, RunIsCode
<1>10. RunInv'
  <2>1. ASSUME NEW k \in 1 .. i' - 1, NEW l \in i' .. Len(recs')
        PROVE  recs'[k].rec # recs'[l].rec
    <3>1. l \in i .. Len(recs) /\ l \in j .. Len(recs) /\ (k \in 1 .. i - 1 \/ k \in i .. j - 1)
      BY <1>1, <1>5, <1>7
    <3>2. CASE k \in 1 .. i - 1
      BY <1>1, <1>2, <3>1, <3>2 DEF RunInv
    <3>3. CASE k \in i .. j - 1
      <4>1. recs[k].rec = recs[i].rec
        BY <1>2, <3>3 DEF RunInv
      <4> QED
        BY <1>1, <1>9, <3>1, <4>1
    <3> QED
      BY <3>1, <3>2, <3>3
  <2>2. /\ i' \in Nat /\ j' \in Nat /\ 1 <= i' /\ i' <= j' /\ j' <= Len(recs') + 1
        /\ \A k \in i' .. j' - 1 : FALSE
    BY <1>1, <1>5
  <2>3. mask' = {recs'[k].src : k \in i' .. j' - 1}
    BY <1>1, <2>2
  <2> QED
    BY <2>1, <2>2, <2>3 DEF RunInv
<1>11. found0 \in Codes /\ Trimmed(recs[i].rec) = found0
  BY <1>8, Bytes, TrimmedPad
<1>12. codes \in Seq(DOMAIN PartOf) /\ OnceEach(codes)
  BY <1>2 DEF FoundInv
<1>13. found0 \in Valid <=> Cardinality(mask) >= 2
  BY <1>9 DEF Valid
<1>14. /\ codes' \in Seq(DOMAIN PartOf) /\ OnceEach(codes')
       /\ \A code : code \in ToSet(codes')
                      <=> code \in ToSet(codes) \/ (code = found0 /\ found0 \in Valid)
  <2>1. CASE Cardinality(mask) >= 2
    <3>1. found0 \notin ToSet(codes)
      <4>1. i \in i .. Len(recs) /\ recs[i].rec = Pad(found0)
        BY <1>1, <1>5, <1>7, <1>8
      <4> QED
        BY <1>2, <4>1 DEF FoundInv
    <3>2. codes' = Append(codes, found0)
      BY <1>1, <1>11, <2>1
    <3>3. /\ codes' \in Seq(DOMAIN PartOf) /\ Len(codes') = Len(codes) + 1 /\ Len(codes) \in Nat
          /\ DOMAIN codes = 1 .. Len(codes) /\ DOMAIN codes' = 1 .. Len(codes) + 1
          /\ \A n \in 1 .. Len(codes) : codes'[n] = codes[n]
          /\ codes'[Len(codes) + 1] = found0
      BY <1>12, <3>2
    <3>4. \A n \in DOMAIN codes' : n \in DOMAIN codes \/ n = Len(codes) + 1
      BY <3>3
    <3>5. \A n \in DOMAIN codes : n \in DOMAIN codes' /\ codes'[n] = codes[n] /\ codes[n] # found0
      BY <3>1, <3>3 DEF ToSet
    <3>6. OnceEach(codes')
      BY <1>12, <3>3, <3>4, <3>5 DEF OnceEach
    <3>7. ASSUME NEW code
          PROVE  code \in ToSet(codes') <=> code \in ToSet(codes) \/ code = found0
      <4>1. Len(codes) + 1 \in DOMAIN codes'
        BY <3>3
      <4> QED
        BY <3>3, <3>4, <3>5, <4>1 DEF ToSet
    <3> QED
      BY <1>13, <2>1, <3>3, <3>6, <3>7
  <2>2. CASE ~(Cardinality(mask) >= 2)
    <3>1. codes' = codes
      BY <1>1, <2>2
    <3> QED
      BY <1>12, <1>13, <2>2, <3>1
  <2> QED
    BY <2>1, <2>2
<1>15. ASSUME NEW code \in DOMAIN PartOf
       PROVE  code \in ToSet(codes') <=> /\ code \in Valid /\ PartOf[code] \notin left
                                         /\ \A k \in j .. Len(recs) : recs[k].rec # Pad(code)
  <2>1. code \in ToSet(codes) <=> /\ code \in Valid /\ PartOf[code] \notin left
                                  /\ \A k \in i .. Len(recs) : recs[k].rec # Pad(code)
    BY <1>2 DEF FoundInv
  <2>2. CASE code = found0
    <3>1. \A k \in j .. Len(recs) : recs[k].rec # Pad(code)
      BY <1>8, <1>9, <2>2
    <3>2. code \notin ToSet(codes)
      <4>1. i \in i .. Len(recs)
        BY <1>1, <1>5, <1>7
      <4> QED
        BY <1>8, <2>1, <2>2, <4>1
    <3>3. PartOf[code] \notin left
      BY <1>8, <2>2
    <3> QED
      BY <1>14, <2>2, <3>1, <3>2, <3>3
  <2>3. CASE code # found0
    <3>1. /\ code \in Seq(Alphabet) /\ Len(code) <= MaxLen
          /\ found0 \in Seq(Alphabet) /\ Len(found0) <= MaxLen
      BY Bytes
    <3>2. Pad(code) # Pad(found0)
      BY <2>3, <3>1, PadTells
    <3>3. \A k \in i .. j - 1 : recs[k].rec # Pad(code)
      BY <1>2, <1>8, <3>2 DEF RunInv
    <3>4. \A k \in i .. Len(recs) : k \in i .. j - 1 \/ k \in j .. Len(recs)
      BY <1>5, <1>7
    <3>5. \A k \in j .. Len(recs) : k \in i .. Len(recs)
      BY <1>5, <1>7
    <3> QED
      BY <1>14, <2>1, <2>3, <3>3, <3>4, <3>5
  <2> QED
    BY <2>2, <2>3
<1>16. FoundInv'
  <2>1. \A code \in DOMAIN PartOf :
           code \in ToSet(codes') <=> /\ code \in Valid' /\ PartOf[code] \notin left'
                                      /\ \A k \in i' .. Len(recs') : recs'[k].rec # Pad(code)
    BY <1>1, <1>3, <1>15
  <2> QED
    BY <1>14, <2>1 DEF FoundInv, OnceEach, ToSet
<1> QED
  BY <1>3, <1>4, <1>10, <1>16 DEF ScanInv

\* Every step is one of the scan, or leaves it as it is.
LEMMA ScanStep ==
    ASSUME ScanInv, [Next]_vars
    PROVE  ScanInv'
<1>1. CASE PullPartition
  BY <1>1, PullKeeps
<1>2. CASE ScanRecord
  BY <1>2, RecordKeeps
<1>3. CASE EndRun
  BY <1>3, EndKeeps
<1>4. CASE WriteIndex \/ Damage \/ LoadIndex \/ Read \/ UNCHANGED vars
  <2>1. UNCHANGED <<corpus, counting>>
    BY <1>4 DEF WriteIndex, Damage, LoadIndex, Read, Ask, Probe, Answer, vars
  <2> QED
    BY <2>1, ScanStays
<1> QED
  BY <1>1, <1>2, <1>3, <1>4 DEF Next

-----------------------------------------------------------------------------
(* The file.                                                               *)

\* What would be written stays the same while nothing more is found.
LEMMA WrittenStays ==
    ASSUME codes' = codes
    PROVE  Written' = Written /\ Encoded' = Encoded
<1>1. WriteOrder' = WriteOrder
  BY DEF WriteOrder
<1>2. Written' = Written
  BY <1>1 DEF Written
<1> QED
  BY <1>2 DEF Encoded

\* No damage makes a checksum match that is not of what was written.
LEMMA DamageShows ==
    ASSUME DOMAIN file = {"magic", "count", "metaLen", "crc", "body"},
           CrcMatches(file), file.crc = Written, file.count \in Nat,
           NEW f \in Damaged(file)
    PROVE  /\ DOMAIN f = {"magic", "count", "metaLen", "crc", "body"}
           /\ f.count \in Nat
           /\ CrcMatches(f) => f.crc = Written
<1>1. CASE f = [file EXCEPT !.magic = FALSE]
  BY <1>1
<1>2. CASE \E n \in 0 .. 9 : f = [file EXCEPT !.count = n] \/ f = [file EXCEPT !.metaLen = n]
  BY <1>2
<1>3. CASE f = [file EXCEPT !.crc = << >>]
  <2>1. f.crc = << >> /\ f.body = file.body /\ f.metaLen = file.metaLen
    BY <1>3
  <2>2. CrcMatches(f) => f.crc = Written
    BY <2>1 DEF CrcMatches
  <2> QED
    BY <1>3, <2>2
<1>4. CASE \E n \in 0 .. Len(file.body) - 1 : f = [file EXCEPT !.body = SubSeq(@, 1, n)]
  BY <1>4
<1>5. CASE \E n \in MetaLen + 1 .. Len(file.body), k \in 1 .. MaxLen, b \in Alphabet :
              f = [file EXCEPT !.body[n][k] = b]
  BY <1>5
<1>6. CASE \E n \in (1 .. MetaLen) \cap DOMAIN file.body, m \in {MetaOther, MetaBroken} :
              f = [file EXCEPT !.body[n] = m]
  BY <1>6
<1> QED
  BY <1>1, <1>2, <1>3, <1>4, <1>5, <1>6 DEF Damaged

LEMMA EncodedStep ==
    ASSUME ScanInv, EncodedInv, [Next]_vars
    PROVE  EncodedInv'
<1>1. CASE PullPartition \/ ScanRecord \/ EndRun
  BY <1>1 DEF EncodedInv, PullPartition, ScanRecord, EndRun
<1>2. CASE WriteIndex
  <2>1. phase' = "written" /\ file' = Encoded /\ left = {} /\ i > Len(recs) /\ UNCHANGED counting
    BY <1>2 DEF WriteIndex
  <2>2. left' = left /\ i' = i /\ recs' = recs /\ Written' = Written /\ Encoded' = Encoded
    BY <2>1, WrittenStays DEF counting
  <2>3. /\ DOMAIN Encoded = {"magic", "count", "metaLen", "crc", "body"}
        /\ Encoded.crc = Written /\ Encoded.count \in Nat
    <3>1. Written \in Seq(Records)
      BY WrittenSorted DEF ScanInv, FoundInv
    <3>2. Len(Written) \in Nat
      BY <3>1
    <3> QED
      BY <3>2 DEF Encoded
  <2>4. file'.crc = Written'
    BY <2>1, <2>2, <2>3
  <2> QED
    BY <2>1, <2>2, <2>3, <2>4 DEF EncodedInv
<1>3. CASE Damage
  <2>1. /\ phase = "written" /\ CrcMatches(file) /\ file' \in Damaged(file)
        /\ phase' = phase /\ UNCHANGED counting
    BY <1>3 DEF Damage
  <2>2. left' = left /\ i' = i /\ recs' = recs /\ Written' = Written
    BY <2>1, WrittenStays DEF counting
  <2>3. /\ DOMAIN file' = {"magic", "count", "metaLen", "crc", "body"}
        /\ file'.count \in Nat
        /\ CrcMatches(file') => file'.crc = Written
    BY <2>1, DamageShows DEF EncodedInv
  <2>4. CrcMatches(file)' <=> CrcMatches(file')
    BY DEF CrcMatches
  <2> QED
    BY <2>1, <2>2, <2>3, <2>4 DEF EncodedInv
<1>4. CASE LoadIndex
  <2>1. phase = "written" /\ file' = file /\ UNCHANGED counting
    BY <1>4 DEF LoadIndex
  <2>2. left' = left /\ i' = i /\ recs' = recs /\ Written' = Written /\ Encoded' = Encoded
    BY <2>1, WrittenStays DEF counting
  <2>3. (CrcMatches(file)' <=> CrcMatches(file)) /\ (Loads(file)' <=> Loads(file))
    BY <2>1 DEF CrcMatches, Loads, MetaParses, InOrder
  <2>4. CASE Loads(file)
    <3>1. /\ phase' = "loaded"
          /\ loaded' = SubSeq(file.body, file.metaLen + 1, Len(file.body))
      BY <1>4, <2>4 DEF LoadIndex
    <3>2. loaded' = Written
      BY <2>1, <2>4, <3>1 DEF EncodedInv, Loads, CrcMatches
    <3> QED
      BY <2>1, <2>2, <2>3, <2>4, <3>1, <3>2 DEF EncodedInv
  <2>5. CASE ~Loads(file)
    <3>1. phase' = "refused"
      BY <1>4, <2>5 DEF LoadIndex
    <3> QED
      BY <2>1, <2>2, <2>3, <2>5, <3>1 DEF EncodedInv
  <2> QED
    BY <2>4, <2>5
<1>5. CASE Read \/ UNCHANGED vars
  <2>1. /\ UNCHANGED <<file, loaded, counting>>
        /\ phase' = phase \/ (phase = "loaded" /\ phase' = "answered")
    BY <1>5 DEF Read, Ask, Probe, Answer, vars
  <2>2. left' = left /\ i' = i /\ recs' = recs /\ Written' = Written /\ Encoded' = Encoded
    BY <2>1, WrittenStays DEF counting
  <2>3. (CrcMatches(file)' <=> CrcMatches(file)) /\ (Loads(file)' <=> Loads(file))
    BY <2>1 DEF CrcMatches, Loads, MetaParses, InOrder
  <2> QED
    BY <2>1, <2>2, <2>3 DEF EncodedInv
<1> QED
  BY <1>1, <1>2, <1>3, <1>4, <1>5 DEF Next

-----------------------------------------------------------------------------
(* The lookup.                                                             *)

\* Once all partitions are scanned, what was found is what is valid.
LEMMA AllFound ==
    ASSUME ScanInv, EncodedInv, phase # "count"
    PROVE  ToSet(codes) = Valid
<1>1. ASSUME NEW code \in DOMAIN PartOf PROVE code \in ToSet(codes) <=> code \in Valid
  <2>1. PartOf[code] \notin left /\ i > Len(recs)
    BY DEF EncodedInv
  <2>2. Len(recs) \in Nat /\ i \in Nat
    BY DEF ScanInv, PullInv, ScanOf, RunInv
  <2>3. \A k \in i .. Len(recs) : recs[k].rec # Pad(code)
    BY <2>1, <2>2
  <2> QED
    BY <2>1, <2>3 DEF ScanInv, FoundInv
<1>2. \A code \in ToSet(codes) : code \in DOMAIN PartOf
  BY DEF ToSet, ScanInv, FoundInv
<1> QED
  BY <1>1, <1>2 DEF Valid

\* The records that were loaded are those of the codes, in strict order.
LEMMA LoadedSorted ==
    ASSUME ScanInv, EncodedInv, phase \in {"loaded", "answered"}
    PROVE  /\ loaded \in Seq(Records)
           /\ ToSet(loaded) = {Pad(code) : code \in Valid}
           /\ \A m, n \in DOMAIN loaded : m < n => Before(loaded[m], loaded[n])
<1>1. codes \in Seq(DOMAIN PartOf) /\ OnceEach(codes) /\ loaded = Written
  BY DEF ScanInv, FoundInv, EncodedInv
<1>2. ToSet(codes) = Valid
  BY AllFound
<1>3. {Pad(codes[n]) : n \in DOMAIN codes} = {Pad(code) : code \in Valid}
  BY <1>2 DEF ToSet
<1> QED
  BY <1>1, <1>3, WrittenSorted

LEMMA AskKeeps ==
    ASSUME ScanInv, EncodedInv, SearchInv, Ask
    PROVE  SearchInv'
<1>1. /\ phase = "loaded" /\ key = << >> /\ key' \in Questions
      /\ corpus' = corpus /\ loaded' = loaded /\ lo' = lo /\ found' = found
  BY DEF Ask
<1>2. lo = 0 /\ found = FALSE
  BY <1>1 DEF SearchInv
<1>3. key' \in Seq(Alphabet) /\ key' # << >>
  BY <1>1, CodecAssumption
<1>4. Valid' = Valid
  BY <1>1, CorpusFixes
<1>5. CASE Len(key') \in MinLen .. MaxLen
  <2>1. hi' = Len(loaded) /\ phase' = phase
    BY <1>5 DEF Ask
  <2>2. Len(loaded) \in Nat
    BY <1>1, LoadedSorted
  <2>3. Len(key') <= MaxLen
    BY <1>5, Bytes
  <2>4. (\A n \in 1 .. lo' : FALSE) /\ (\A n \in hi' + 1 .. Len(loaded') : FALSE)
    BY <1>1, <1>2, <2>1, <2>2
  <2> QED
    BY <1>1, <1>2, <1>3, <2>1, <2>2, <2>3, <2>4 DEF SearchInv
<1>6. CASE Len(key') \notin MinLen .. MaxLen
  <2>1. phase' = "answered"
    BY <1>6 DEF Ask
  <2>2. key' \notin Valid
    <3>1. \A code \in Valid : Len(code) \in MinLen .. MaxLen
      BY CodecAssumption DEF Valid, Codes
    <3> QED
      BY <1>6, <3>1
  <2> QED
    <3>1. found' = (key' \in Valid')
      <4>1. found' \in BOOLEAN /\ ~found'
        BY <1>1, <1>2
      <4>2. ~(key' \in Valid')
        BY <1>4, <2>2
      <4> QED
        BY <4>1, <4>2
    <3>2. phase' \notin {"count", "written", "loaded"}
      BY <2>1
    <3> QED
      BY <1>3, <2>1, <3>1, <3>2 DEF SearchInv
<1> QED
  BY <1>5, <1>6

LEMMA ProbeKeeps ==
    ASSUME ScanInv, EncodedInv, SearchInv, Probe
    PROVE  SearchInv'
<1> DEFINE mid == (lo + hi) \div 2
           pad == Pad(key)
<1>1. /\ phase = "loaded" /\ key # << >> /\ lo < hi
      /\ phase' = phase /\ corpus' = corpus /\ loaded' = loaded /\ key' = key /\ found' = found
      /\ IF Before(loaded[mid + 1], pad) THEN lo' = mid + 1 /\ hi' = hi ELSE hi' = mid /\ lo' = lo
  BY DEF Probe
<1>2. /\ key \in Seq(Alphabet) /\ Len(key) <= MaxLen
      /\ lo \in Nat /\ hi \in Nat /\ lo <= hi /\ hi <= Len(loaded)
      /\ \A n \in 1 .. lo : Before(loaded[n], pad)
      /\ \A n \in hi + 1 .. Len(loaded) : ~Before(loaded[n], pad)
      /\ found = FALSE
  BY <1>1 DEF SearchInv
<1>3. /\ loaded \in Seq(Records) /\ Len(loaded) \in Nat /\ DOMAIN loaded = 1 .. Len(loaded)
      /\ \A m, n \in DOMAIN loaded : m < n => Before(loaded[m], loaded[n])
  BY <1>1, LoadedSorted
<1>4. \A n \in 1 .. Len(loaded) : loaded[n] \in Records
  BY <1>3
<1>5. pad \in Records
  BY <1>2, PadIsRecord
<1>6. pad' = pad
  BY <1>1
<1>7. mid \in Nat /\ lo <= mid /\ mid < hi /\ mid + 1 \in 1 .. Len(loaded)
  BY <1>1, <1>2, <1>3
<1> HIDE DEF mid, pad
<1>8. CASE Before(loaded[mid + 1], pad)
  <2>1. ASSUME NEW n \in 1 .. mid + 1 PROVE Before(loaded[n], pad)
    <3>1. n \in 1 .. Len(loaded) /\ (n = mid + 1 \/ n < mid + 1)
      BY <1>3, <1>7
    <3>2. CASE n < mid + 1
      <4>1. Before(loaded[n], loaded[mid + 1])
        BY <1>3, <1>7, <3>1, <3>2
      <4> QED
        BY <1>4, <1>5, <1>7, <1>8, <3>1, <4>1, BeforeTransitive
    <3> QED
      BY <1>8, <3>1, <3>2
  <2>2. lo' = mid + 1 /\ hi' = hi
    BY <1>1, <1>8
  <2>3. lo' \in Nat /\ hi' \in Nat /\ lo' <= hi' /\ hi' <= Len(loaded')
    BY <1>1, <1>2, <1>7, <2>2
  <2>4. /\ \A n \in 1 .. lo' : Before(loaded'[n], pad')
        /\ \A n \in hi' + 1 .. Len(loaded') : ~Before(loaded'[n], pad')
    BY <1>1, <1>2, <1>6, <2>1, <2>2
  <2> QED
    BY <1>1, <1>2, <2>3, <2>4 DEF SearchInv, pad
<1>9. CASE ~Before(loaded[mid + 1], pad)
  <2>1. ASSUME NEW n \in mid + 1 .. Len(loaded), Before(loaded[n], pad) PROVE FALSE
    <3>1. n \in 1 .. Len(loaded) /\ (n = mid + 1 \/ mid + 1 < n)
      BY <1>3, <1>7
    <3>2. CASE mid + 1 < n
      <4>1. Before(loaded[mid + 1], loaded[n])
        BY <1>3, <1>7, <3>1, <3>2
      <4> QED
        BY <1>4, <1>5, <1>7, <1>9, <2>1, <3>1, <4>1, BeforeTransitive
    <3> QED
      BY <1>9, <2>1, <3>1, <3>2
  <2>2. lo' = lo /\ hi' = mid
    BY <1>1, <1>9
  <2>3. lo' \in Nat /\ hi' \in Nat /\ lo' <= hi' /\ hi' <= Len(loaded')
    BY <1>1, <1>2, <1>3, <1>7, <2>2
  <2>4. /\ \A n \in 1 .. lo' : Before(loaded'[n], pad')
        /\ \A n \in hi' + 1 .. Len(loaded') : ~Before(loaded'[n], pad')
    BY <1>1, <1>2, <1>6, <2>1, <2>2
  <2> QED
    BY <1>1, <1>2, <2>3, <2>4 DEF SearchInv, pad
<1> QED
  BY <1>8, <1>9

\* Where the search ends, the key can be at one place only.
LEMMA AnswerKeeps ==
    ASSUME ScanInv, EncodedInv, SearchInv, Answer
    PROVE  SearchInv'
<1> DEFINE pad == Pad(key)
<1>1. /\ phase = "loaded" /\ key # << >> /\ lo >= hi /\ phase' = "answered"
      /\ corpus' = corpus /\ loaded' = loaded /\ key' = key
      /\ found' = (lo < Len(loaded) /\ loaded[lo + 1] = pad)
  BY DEF Answer
<1>2. /\ key \in Seq(Alphabet) /\ Len(key) <= MaxLen
      /\ lo \in Nat /\ hi = lo /\ lo <= Len(loaded)
      /\ \A n \in 1 .. lo : Before(loaded[n], pad)
      /\ \A n \in lo + 1 .. Len(loaded) : ~Before(loaded[n], pad)
  BY <1>1 DEF SearchInv
<1>3. /\ loaded \in Seq(Records) /\ Len(loaded) \in Nat /\ DOMAIN loaded = 1 .. Len(loaded)
      /\ ToSet(loaded) = {Pad(code) : code \in Valid}
      /\ \A m, n \in DOMAIN loaded : m < n => Before(loaded[m], loaded[n])
  BY <1>1, LoadedSorted
<1>4. pad \in Records
  BY <1>2, PadIsRecord
<1>5. ASSUME lo < Len(loaded), loaded[lo + 1] = pad PROVE key \in Valid
  <2>1. lo + 1 \in DOMAIN loaded
    BY <1>2, <1>3, <1>5
  <2>2. PICK code \in Valid : Pad(code) = pad
    BY <1>3, <1>5, <2>1 DEF ToSet
  <2>3. code \in Seq(Alphabet) /\ Len(code) <= MaxLen
    BY <2>2, Bytes DEF Valid
  <2> QED
    BY <1>2, <2>2, <2>3, PadTells
<1>6. ASSUME key \in Valid PROVE lo < Len(loaded) /\ loaded[lo + 1] = pad
  <2>1. PICK n \in DOMAIN loaded : loaded[n] = pad
    BY <1>3, <1>6 DEF ToSet
  <2>2. n \in 1 .. Len(loaded) /\ ~(n \in 1 .. lo)
    BY <1>2, <1>3, <1>4, <2>1, BeforeIrreflexive
  <2>3. lo < n /\ lo + 1 \in 1 .. Len(loaded) /\ lo + 1 \in lo + 1 .. Len(loaded) /\ lo < Len(loaded)
    BY <1>2, <1>3, <2>2
  <2>4. ~(lo + 1 < n)
    <3> SUFFICES ASSUME lo + 1 < n PROVE FALSE
      OBVIOUS
    <3>1. Before(loaded[lo + 1], loaded[n])
      BY <1>3, <2>2, <2>3
    <3> QED
      BY <1>2, <2>1, <2>3, <3>1
  <2>5. n = lo + 1
    BY <1>2, <1>3, <2>2, <2>3, <2>4
  <2> QED
    BY <2>1, <2>3, <2>5
<1>7. Valid' = Valid
  BY <1>1, CorpusFixes
<1>8. found' = (key' \in Valid')
  BY <1>1, <1>5, <1>6, <1>7
<1> QED
  BY <1>1, <1>8 DEF SearchInv

LEMMA SearchStep ==
    ASSUME ScanInv, EncodedInv, SearchInv, [Next]_vars
    PROVE  SearchInv'
<1>1. CASE PullPartition \/ ScanRecord \/ EndRun \/ WriteIndex \/ Damage
  BY <1>1 DEF SearchInv, PullPartition, ScanRecord, EndRun, WriteIndex, Damage, lookup
<1>2. CASE LoadIndex
  BY <1>2 DEF SearchInv, LoadIndex, lookup
<1>3. CASE Ask
  BY <1>3, AskKeeps
<1>4. CASE Probe
  BY <1>4, ProbeKeeps
<1>5. CASE Answer
  BY <1>5, AnswerKeeps
<1>6. CASE UNCHANGED vars
  <2>1. Valid' = Valid /\ UNCHANGED <<phase, loaded, lookup>>
    BY <1>6, CorpusFixes DEF vars
  <2> QED
    BY <2>1 DEF SearchInv, lookup
<1> QED
  BY <1>1, <1>2, <1>3, <1>4, <1>5, <1>6 DEF Next, Read

-----------------------------------------------------------------------------

CodecInv == ScanInv /\ EncodedInv /\ SearchInv

LEMMA CodecInvariant == Spec => []CodecInv
<1>1. Init => CodecInv
  BY ScanInit DEF CodecInv
<1>2. CodecInv /\ [Next]_vars => CodecInv'
  BY ScanStep, EncodedStep, SearchStep DEF CodecInv
<1> QED
  BY <1>1, <1>2, PTL DEF Spec

\* The scan finds the codes of two sources, each of them once: for every corpus,
\* partitioning and order in which the partitions are pulled.
THEOREM ScanFindsTheRule == Spec => []ScanIsTheRule
<1>1. CodecInv => ScanIsTheRule
  <2> SUFFICES ASSUME CodecInv, phase = "written"
               PROVE  ToSet(codes) = Valid /\ Len(codes) = Cardinality(Valid)
    BY DEF ScanIsTheRule
  <2>1. codes \in Seq(DOMAIN PartOf) /\ OnceEach(codes)
    BY DEF CodecInv, ScanInv, FoundInv
  <2>2. ToSet(codes) = Valid
    BY AllFound DEF CodecInv
  <2>3. Len(codes) = Cardinality(Valid)
    <3>1. IsFiniteSet(1 .. Len(codes)) /\ Cardinality(1 .. Len(codes)) = Len(codes)
      <4>1. Len(codes) \in Nat
        BY <2>1
      <4>2. \A n \in Nat : IsFiniteSet(1 .. n) /\ Cardinality(1 .. n) = n
        BY FS_Interval
      <4> QED
        BY <4>1, <4>2
    <3>2. codes \in Bijection(1 .. Len(codes), Valid)
      BY <2>1, <2>2 DEF Bijection, Injection, Surjection, IsInjective, OnceEach, ToSet
    <3> QED
      BY <3>1, <3>2, FS_Bijection DEF ExistsBijection
  <2> QED
    BY <2>2, <2>3
<1> QED
  BY <1>1, CodecInvariant, PTL

\* LoadIndex accepts exactly the files that are as they were written, but for
\* metadata that is other JSON.
LEMMA LoadsIsIntact ==
    ASSUME ScanInv, EncodedInv, phase \in {"loaded", "refused", "answered"}
    PROVE  Loads(file) <=> Intact(file)
<1>1. codes \in Seq(DOMAIN PartOf) /\ OnceEach(codes)
  BY DEF ScanInv, FoundInv
<1>2. Written \in Seq(Records) /\ Len(Written) \in Nat /\ MetaLen \in Nat /\ file.count \in Nat
  <2>1. Written \in Seq(Records)
    BY <1>1, WrittenSorted
  <2> QED
    BY <2>1, Bytes DEF EncodedInv
<1>3. ASSUME Intact(file) PROVE Loads(file)
  <2>1. InOrder(SubSeq(file.body, MetaLen + 1, Len(file.body)))
    BY <1>1, <1>3, WrittenInOrder DEF Intact
  <2> QED
    BY <1>3, <2>1 DEF Intact, Loads, CrcMatches, MetaParses
<1>4. ASSUME Loads(file) PROVE Intact(file)
  <2>1. /\ file.magic /\ file.metaLen = MetaLen /\ file.crc = Written
        /\ SubSeq(file.body, MetaLen + 1, Len(file.body)) = Written
        /\ \A n \in 1 .. MetaLen : file.body[n] # MetaBroken
        /\ Len(file.body) = MetaLen + file.count
    BY <1>4 DEF Loads, MetaParses, CrcMatches, EncodedInv
  <2>2. Len(Written) = file.count
    <3> DEFINE S == {file.body[k] : k \in MetaLen + 1 .. Len(file.body)}
    <3>1. Len(SubSeq(file.body, MetaLen + 1, Len(file.body)))
            = IF MetaLen + 1 <= Len(file.body) THEN Len(file.body) - (MetaLen + 1) + 1 ELSE 0
      <4>1. MetaLen + 1 \in Int /\ Len(file.body) \in Int
        BY <1>2, <2>1
      <4>2. \A k \in MetaLen + 1 .. Len(file.body) : file.body[k] \in S
        OBVIOUS
      <4> HIDE DEF S
      <4> QED
        BY <4>1, <4>2, SubSeqProperties
    <3> QED
      BY <1>2, <2>1, <3>1
  <2> QED
    BY <2>1, <2>2 DEF Intact
<1> QED
  BY <1>3, <1>4

\* A file that was cut, or changed anywhere but in its metadata, is refused, and
\* so is one of which the metadata is no JSON any more; one as it was written is
\* loaded, its records those of the codes: for every damage that Damaged
\* describes.  Metadata that was changed to other JSON goes unnoticed, since
\* the CRC does not cover it.
THEOREM OnlyWrittenLoads == Spec => []LoadsWhatWasWritten
<1>1. CodecInv => LoadsWhatWasWritten
  <2> SUFFICES ASSUME CodecInv PROVE LoadsWhatWasWritten
    OBVIOUS
  <2>1. codes \in Seq(DOMAIN PartOf) /\ OnceEach(codes)
    BY DEF CodecInv, ScanInv, FoundInv
  <2>2. /\ phase \in {"loaded", "answered"} => loaded = Written /\ Loads(file)
        /\ phase = "refused" => ~Loads(file)
    BY DEF CodecInv, EncodedInv
  <2>3. phase \in {"loaded", "refused", "answered"} => (Loads(file) <=> Intact(file))
    BY LoadsIsIntact DEF CodecInv
  <2> QED
    BY <2>1, <2>2, <2>3, WrittenSorted DEF LoadsWhatWasWritten
<1> QED
  BY <1>1, CodecInvariant, PTL

\* What WriteIndex leaves and nothing damages is never refused.
THEOREM WrittenNeverRefused == Spec => [](phase = "refused" => file # Encoded)
<1>1. CodecInv => (phase = "refused" => file # Encoded)
  <2> SUFFICES ASSUME CodecInv, phase = "refused", file = Encoded PROVE FALSE
    OBVIOUS
  <2>1. Intact(Encoded)
    BY EncodedIntact DEF CodecInv, ScanInv, FoundInv
  <2>2. Loads(file)
    BY <2>1, LoadsIsIntact DEF CodecInv
  <2> QED
    BY <2>2 DEF CodecInv, EncodedInv
<1> QED
  BY <1>1, CodecInvariant, PTL

\* The answer of a lookup is membership in the valid codes, for every question.
THEOREM LookupIsMembership == Spec => []AnswersMembership
<1>1. CodecInv => AnswersMembership
  BY DEF CodecInv, SearchInv, AnswersMembership
<1> QED
  BY <1>1, CodecInvariant, PTL
-----------------------------------------------------------------------------
(* A file.                                                                 *)

\* A writer at work has an inode of its own.
OwnInode ==
    /\ \A w \in Writers : wpc[w] # "idle" => ino[w] \in made
    /\ \A w, u \in Writers : wpc[w] # "idle" /\ wpc[u] # "idle" /\ w # u => ino[w] # ino[u]

\* What the steps so far have done to it.
ProgressOf(w) ==
    /\ wpc[w] = "created" => ino[w] \notin stable
    /\ wpc[w] = "written" => data[ino[w]] = "whole"
    /\ wpc[w] \in {"synced", "chmoded", "renamed"} => ino[w] \in stable
    /\ wpc[w] \in {"chmoded", "renamed"} => ino[w] \in public
Progress == \A w \in Writers : ProgressOf(w)

StableWhole == \A v \in stable : data[v] = "whole"

\* What is at the path, or may be after a power loss, was synced and public.
BehindSound == behind \subseteq public

FileInv == FileTypeOK /\ OwnInode /\ Progress /\ StableWhole /\ BehindSound

LEMMA FileStarts == FileInit => FileInv
BY FileAssumption
   DEF FileInit, FileInv, FileTypeOK, OwnInode, Progress, ProgressOf,
       StableWhole, BehindSound

LEMMA CreateTempKeeps ==
    ASSUME FileInv, NEW w \in Writers, CreateTemp(w) PROVE FileInv'
<1>1. PICK v \in Versions \ made :
         /\ wpc[w] = "idle" /\ wpc' = [wpc EXCEPT ![w] = "created"]
         /\ ino' = [ino EXCEPT ![w] = v]
         /\ made' = made \cup {v}
         /\ UNCHANGED <<data, stable, public, dir, kept>>
  BY DEF CreateTemp, Do
<1>2. UNCHANGED <<data, stable, public, path, behind, renames, rank, kept>>
  BY <1>1 DEF dir
<1>3. FileTypeOK'
  BY <1>1, <1>2 DEF FileInv, FileTypeOK
<1>4. /\ wpc'[w] = "created" /\ ino'[w] = v
      /\ \A u \in Writers : u # w => wpc'[u] = wpc[u] /\ ino'[u] = ino[u]
  BY <1>1 DEF FileInv, FileTypeOK
<1>5. OwnInode'
  BY <1>1, <1>4 DEF FileInv, OwnInode
<1>6. Progress'
  BY <1>1, <1>2, <1>4 DEF FileInv, FileTypeOK, Progress, ProgressOf
<1> QED
  BY <1>2, <1>3, <1>5, <1>6 DEF FileInv, StableWhole, BehindSound

\* A writer's own step: its counter moves on, nobody's inode changes hands.
LEMMA DoKeepsOwn ==
    ASSUME FileInv, NEW w \in Writers, NEW from, NEW to, Do(w, from, to),
           to \in {"idle", "written", "synced", "chmoded", "renamed"},
           from # "idle", UNCHANGED <<ino, made>>
    PROVE  /\ OwnInode'
           /\ wpc' \in [Writers -> {"idle", "created", "written", "synced", "chmoded", "renamed"}]
           /\ wpc'[w] = to /\ \A u \in Writers : u # w => wpc'[u] = wpc[u]
           /\ \A u \in Writers : u # w /\ wpc[u] # "idle" => ino[u] # ino[w]
BY DEF Do, FileInv, FileTypeOK, OwnInode

LEMMA WriteKeeps ==
    ASSUME FileInv, NEW w \in Writers, Write(w) \/ WriteFails(w) PROVE FileInv'
<1>1. PICK d \in {"whole", "part"}, to \in {"written", "idle"} :
         /\ Do(w, "created", to) /\ (to = "written" => d = "whole")
         /\ data' = [data EXCEPT ![ino[w]] = d]
         /\ UNCHANGED <<ino, made, stable, public, dir, kept>>
  BY DEF Write, WriteFails, AfterShortWrite
<1>2. UNCHANGED <<ino, made, stable, public, path, behind, renames, rank, kept>>
  BY <1>1 DEF dir
<1>3. /\ OwnInode'
      /\ wpc' \in [Writers -> {"idle", "created", "written", "synced", "chmoded", "renamed"}]
      /\ wpc'[w] = to /\ \A u \in Writers : u # w => wpc'[u] = wpc[u]
      /\ \A u \in Writers : u # w /\ wpc[u] # "idle" => ino[u] # ino[w]
  BY <1>1, <1>2, DoKeepsOwn
<1>4. ino[w] \notin stable /\ ino[w] \in Versions
  BY <1>1 DEF Do, FileInv, FileTypeOK, Progress, ProgressOf
<1>5. /\ data' \in [Versions -> {"none", "part", "whole"}]
      /\ data'[ino[w]] = d /\ \A v \in Versions : v # ino[w] => data'[v] = data[v]
  BY <1>1, <1>4 DEF FileInv, FileTypeOK
<1>6. FileTypeOK'
  BY <1>2, <1>3, <1>5 DEF FileInv, FileTypeOK
<1>7. StableWhole'
  BY <1>2, <1>4, <1>5 DEF FileInv, FileTypeOK, StableWhole
<1>8. Progress'
  <2> SUFFICES ASSUME NEW u \in Writers PROVE ProgressOf(u)'
    BY DEF Progress
  <2>1. CASE u = w
    BY <1>1, <1>2, <1>3, <1>5, <2>1 DEF ProgressOf
  <2>2. CASE u # w
    <3>1. wpc'[u] = wpc[u] /\ ino'[u] = ino[u] /\ ino[u] \in Versions
      BY <1>2, <1>3, <2>2 DEF FileInv, FileTypeOK
    <3>2. wpc[u] = "written" => data'[ino[u]] = data[ino[u]]
      BY <1>3, <1>5, <2>2, <3>1
    <3> QED
      BY <1>2, <3>1, <3>2 DEF FileInv, Progress, ProgressOf
  <2> QED
    BY <2>1, <2>2
<1> QED
  BY <1>2, <1>3, <1>6, <1>7, <1>8 DEF FileInv, BehindSound

LEMMA SyncKeeps ==
    ASSUME FileInv, NEW w \in Writers, Sync(w) PROVE FileInv'
<1>1. /\ Do(w, "written", "synced") /\ stable' = stable \cup {ino[w]}
      /\ UNCHANGED <<ino, made, data, public, path, behind, renames, rank, kept>>
  BY DEF Sync, Synced, dir
<1>2. /\ OwnInode'
      /\ wpc' \in [Writers -> {"idle", "created", "written", "synced", "chmoded", "renamed"}]
      /\ wpc'[w] = "synced" /\ \A u \in Writers : u # w => wpc'[u] = wpc[u]
      /\ \A u \in Writers : u # w /\ wpc[u] # "idle" => ino[u] # ino[w]
  BY <1>1, DoKeepsOwn
<1>3. ino[w] \in made /\ data[ino[w]] = "whole"
  BY <1>1 DEF Do, FileInv, OwnInode, Progress, ProgressOf
<1>4. FileTypeOK'
  BY <1>1, <1>2, <1>3 DEF FileInv, FileTypeOK
<1>5. Progress'
  BY <1>1, <1>2 DEF FileInv, Progress, ProgressOf
<1> QED
  BY <1>1, <1>2, <1>3, <1>4, <1>5 DEF FileInv, StableWhole, BehindSound

LEMMA ChmodKeeps ==
    ASSUME FileInv, NEW w \in Writers, Chmod(w) PROVE FileInv'
<1>1. /\ Do(w, "synced", "chmoded") /\ public' = public \cup {ino[w]}
      /\ UNCHANGED <<ino, made, data, stable, path, behind, renames, rank, kept>>
  BY DEF Chmod, Chmoded, dir
<1>2. /\ OwnInode'
      /\ wpc' \in [Writers -> {"idle", "created", "written", "synced", "chmoded", "renamed"}]
      /\ wpc'[w] = "chmoded" /\ \A u \in Writers : u # w => wpc'[u] = wpc[u]
  BY <1>1, DoKeepsOwn
<1>3. ino[w] \in stable
  BY <1>1 DEF Do, FileInv, Progress, ProgressOf
<1>4. FileTypeOK'
  BY <1>1, <1>2, <1>3 DEF FileInv, FileTypeOK
<1>5. Progress'
  BY <1>1, <1>2, <1>3 DEF FileInv, Progress, ProgressOf
<1> QED
  BY <1>1, <1>2, <1>4, <1>5 DEF FileInv, StableWhole, BehindSound

LEMMA RenameKeeps ==
    ASSUME FileInv, NEW w \in Writers, Rename(w) PROVE FileInv'
<1>1. PICK to \in {"renamed", "idle"} :
         /\ Do(w, "chmoded", to)
         /\ path' = ino[w] /\ behind' = behind \cup {ino[w]}
         /\ renames' = renames + 1 /\ rank' = [rank EXCEPT ![ino[w]] = renames + 1]
         /\ UNCHANGED <<ino, made, data, stable, public, kept>>
  BY DEF Rename, inodes
<1>2. /\ OwnInode'
      /\ wpc' \in [Writers -> {"idle", "created", "written", "synced", "chmoded", "renamed"}]
      /\ wpc'[w] = to /\ \A u \in Writers : u # w => wpc'[u] = wpc[u]
  BY <1>1, DoKeepsOwn
<1>3. ino[w] \in stable /\ ino[w] \in public /\ ino[w] \in Versions
  BY <1>1 DEF Do, FileInv, FileTypeOK, Progress, ProgressOf
<1>4. renames' \in Nat /\ rank' \in [Versions -> 0 .. renames']
  BY <1>1, <1>3 DEF FileInv, FileTypeOK
<1>5. FileTypeOK'
  BY <1>1, <1>2, <1>3, <1>4 DEF FileInv, FileTypeOK
<1>6. Progress'
  BY <1>1, <1>2, <1>3 DEF FileInv, Progress, ProgressOf
<1> QED
  BY <1>1, <1>2, <1>3, <1>5, <1>6 DEF FileInv, StableWhole, BehindSound

\* The last steps of a replacement, its failure, and the kernel.
LEMMA SyncDirKeeps ==
    ASSUME FileInv, NEW w \in Writers, SyncDir(w) \/ SyncDirFails(w) PROVE FileInv'
<1>1. /\ Do(w, "renamed", "idle") /\ behind' \in {behind, {path}}
      /\ kept' \in {kept, kept \cup {ino[w]}}
      /\ UNCHANGED <<ino, made, data, stable, public, path, renames, rank>>
  BY DEF SyncDir, SyncDirFails, DirSynced, inodes, dir
<1>2. /\ OwnInode'
      /\ wpc' \in [Writers -> {"idle", "created", "written", "synced", "chmoded", "renamed"}]
      /\ wpc'[w] = "idle" /\ \A u \in Writers : u # w => wpc'[u] = wpc[u]
  BY <1>1, DoKeepsOwn
<1>3. FileTypeOK'
  BY <1>1, <1>2 DEF FileInv, FileTypeOK
<1>4. Progress'
  BY <1>1, <1>2 DEF FileInv, Progress, ProgressOf
<1> QED
  BY <1>1, <1>2, <1>3, <1>4 DEF FileInv, FileTypeOK, StableWhole, BehindSound

LEMMA AbandonKeeps ==
    ASSUME FileInv, NEW w \in Writers, Abandon(w) PROVE FileInv'
<1>1. /\ wpc' = [wpc EXCEPT ![w] = "idle"]
      /\ UNCHANGED <<ino, made, data, stable, public, path, behind, renames, rank, kept>>
  BY DEF Abandon, inodes, dir
<1> QED
  BY <1>1 DEF FileInv, FileTypeOK, OwnInode, Progress, ProgressOf, StableWhole, BehindSound

LEMMA WriteBackKeeps == ASSUME FileInv, WriteBack PROVE FileInv'
<1>1. /\ behind' = {path}
      /\ UNCHANGED <<wpc, ino, made, data, stable, public, path, renames, rank, kept>>
  BY DEF WriteBack, inodes
<1> QED
  BY <1>1 DEF FileInv, FileTypeOK, OwnInode, Progress, ProgressOf, StableWhole, BehindSound

LEMMA PowerLossKeeps == ASSUME FileInv, PowerLoss PROVE FileInv'
<1>1. /\ wpc' = [w \in Writers |-> "idle"]
      /\ path' \in behind /\ behind' = {path'}
      /\ data' \in [Versions -> {"none", "part", "whole"}]
      /\ \A v \in stable : v \in Versions => data'[v] = data[v]
      /\ UNCHANGED <<ino, made, stable, public, renames, rank, kept>>
  BY DEF PowerLoss
<1>2. \A w \in Writers : wpc'[w] = "idle"
  BY <1>1
<1>3. FileTypeOK'
  BY <1>1 DEF FileInv, FileTypeOK
<1>4. OwnInode' /\ Progress'
  BY <1>2 DEF OwnInode, Progress, ProgressOf
<1> QED
  BY <1>1, <1>3, <1>4 DEF FileInv, FileTypeOK, StableWhole, BehindSound

LEMMA FileStep == FileInv /\ [FileNext]_fileVars => FileInv'
<1> SUFFICES ASSUME FileInv, [FileNext]_fileVars PROVE FileInv'
  OBVIOUS
<1>1. ASSUME NEW w \in Writers, Replacing(w) PROVE FileInv'
  BY <1>1, CreateTempKeeps, WriteKeeps, SyncKeeps, ChmodKeeps, RenameKeeps, SyncDirKeeps,
     AbandonKeeps DEF Replacing
<1>2. CASE WriteBack
  BY <1>2, WriteBackKeeps
<1>3. CASE PowerLoss
  BY <1>3, PowerLossKeeps
<1>4. CASE UNCHANGED fileVars
  BY <1>4 DEF fileVars, inodes, dir, FileInv, FileTypeOK, OwnInode, Progress,
              ProgressOf, StableWhole, BehindSound
<1> QED
  BY <1>1, <1>2, <1>3, <1>4 DEF FileNext

LEMMA FileInvariant == FileSpec => []FileInv
<1>1. FileInit => FileInv BY FileStarts
<1>2. FileInv /\ [FileNext]_fileVars => FileInv' BY FileStep
<1> QED BY <1>1, <1>2, PTL DEF FileSpec

LEMMA BehindWhole == FileInv => NeverTorn
BY DEF FileInv, FileTypeOK, StableWhole, BehindSound, NeverTorn, Whole

\* The types of the state: what is public was synced, what is synced was made.
THEOREM FileTypeCorrect == FileSpec => []FileTypeOK
<1>1. FileInv => FileTypeOK BY DEF FileInv
<1> QED BY FileInvariant, <1>1, PTL

\* Whoever replaces the file, and whatever fails, dies or loses power: every
\* version that is at the path or may come back there is whole and readable.
THEOREM FileNeverTorn == FileSpec => []NeverTorn
<1>1. FileInv => NeverTorn BY BehindWhole
<1> QED BY FileInvariant, <1>1, PTL

-----------------------------------------------------------------------------
(* A replacement whose directory was synced stays.                         *)

\* Ranks grow with the renames, and a writer that has renamed but not yet
\* synced the directory has not overtaken the path.
RankInv ==
    /\ kept \subseteq made
    /\ \A w \in Writers : wpc[w] \in {"created", "written", "synced", "chmoded"} => ino[w] \notin kept
    /\ \A w \in Writers : wpc[w] = "renamed" => rank[ino[w]] <= rank[path]
    /\ SyncedStays

LEMMA RankInit == FileInit => RankInv
BY DEF FileInit, RankInv, SyncedStays

LEMMA RankStep == FileInv /\ RankInv /\ [FileNext]_fileVars => RankInv'
<1> SUFFICES ASSUME FileInv, RankInv, [FileNext]_fileVars PROVE RankInv'
  OBVIOUS
<1>1. ASSUME NEW w \in Writers, CreateTemp(w) PROVE RankInv'
  <2>1. PICK v \in Versions \ made :
           /\ wpc' = [wpc EXCEPT ![w] = "created"]
           /\ ino' = [ino EXCEPT ![w] = v] /\ made' = made \cup {v}
           /\ UNCHANGED <<path, behind, rank, kept>>
    BY <1>1 DEF CreateTemp, Do, dir
  <2>2. /\ wpc'[w] = "created" /\ ino'[w] = v
        /\ \A u \in Writers : u # w => wpc'[u] = wpc[u] /\ ino'[u] = ino[u]
    BY <2>1 DEF FileInv, FileTypeOK
  <2> QED
    BY <2>1, <2>2 DEF RankInv, SyncedStays
<1>2. ASSUME NEW w \in Writers,
             Write(w) \/ WriteFails(w) \/ Sync(w) \/ Chmod(w)
      PROVE  RankInv'
  <2>1. /\ wpc[w] \in {"created", "written", "synced"}
        /\ \E to \in {"idle", "written", "synced", "chmoded"} : wpc' = [wpc EXCEPT ![w] = to]
        /\ UNCHANGED <<ino, made, path, behind, rank, kept>>
    BY <1>2 DEF Write, WriteFails, Sync, Chmod, Do, AfterShortWrite, dir
  <2> QED
    BY <2>1 DEF FileInv, FileTypeOK, RankInv, SyncedStays
<1>3. ASSUME NEW w \in Writers, Rename(w) PROVE RankInv'
  <2>1. /\ wpc[w] = "chmoded"
        /\ \E to \in {"idle", "renamed"} : wpc' = [wpc EXCEPT ![w] = to]
        /\ path' = ino[w] /\ behind' = behind \cup {ino[w]}
        /\ rank' = [rank EXCEPT ![ino[w]] = renames + 1]
        /\ UNCHANGED <<ino, made, kept>>
    BY <1>3 DEF Rename, Do, inodes
  <2>2. /\ ino[w] \in Versions /\ ino[w] \notin kept /\ renames \in Nat
        /\ behind \subseteq Versions /\ kept \subseteq Versions
        /\ \A v \in Versions : rank[v] \in 0 .. renames
    BY <2>1 DEF FileInv, FileTypeOK, RankInv
  <2>3. /\ rank'[ino[w]] = renames + 1
        /\ \A v \in Versions : v # ino[w] => rank'[v] = rank[v]
    BY <2>1, <2>2 DEF FileInv, FileTypeOK
  <2>4. \A v \in Versions : rank[v] <= rank'[v] /\ rank'[v] <= rank'[path'] /\ rank'[v] \in Nat
    BY <2>1, <2>2, <2>3
  <2>5. SyncedStays'
    <3> SUFFICES ASSUME NEW v \in kept, NEW u \in behind \cup {ino[w]}
                 PROVE  rank'[v] <= rank'[u]
      BY <2>1 DEF SyncedStays
    <3>1. v \in Versions /\ v # ino[w] /\ rank'[v] = rank[v]
      BY <2>2, <2>3
    <3>2. CASE u = ino[w]
      BY <2>1, <2>4, <3>1, <3>2
    <3>3. CASE u # ino[w]
      BY <2>2, <2>3, <3>1, <3>3 DEF RankInv, SyncedStays
    <3> QED
      BY <3>2, <3>3
  <2>6. \A u \in Writers : wpc'[u] = "renamed" => rank'[ino'[u]] <= rank'[path']
    BY <2>1, <2>4 DEF FileInv, FileTypeOK
  <2>7. \A u \in Writers : wpc'[u] \in {"created", "written", "synced", "chmoded"} => ino'[u] \notin kept'
    BY <2>1 DEF FileInv, FileTypeOK, RankInv
  <2> QED
    BY <2>1, <2>5, <2>6, <2>7 DEF RankInv
<1>4. ASSUME NEW w \in Writers, SyncDir(w) PROVE RankInv'
  <2>1. /\ wpc[w] = "renamed" /\ wpc' = [wpc EXCEPT ![w] = "idle"]
        /\ behind' = {path} /\ kept' = kept \cup {ino[w]}
        /\ UNCHANGED <<ino, made, path, rank>>
    BY <1>4 DEF SyncDir, Do, DirSynced, inodes
  <2>2. path \in behind /\ ino[w] \in made /\ rank[ino[w]] <= rank[path]
    BY <2>1 DEF FileInv, FileTypeOK, OwnInode, RankInv
  <2>3. SyncedStays'
    BY <2>1, <2>2 DEF RankInv, SyncedStays
  <2>4. \A u \in Writers : u # w /\ wpc[u] # "idle" => ino[u] # ino[w]
    BY <2>1 DEF FileInv, OwnInode
  <2> QED
    BY <2>1, <2>2, <2>3, <2>4 DEF FileInv, FileTypeOK, RankInv
<1>5. ASSUME NEW w \in Writers, SyncDirFails(w) \/ Abandon(w) PROVE RankInv'
  <2>1. wpc' = [wpc EXCEPT ![w] = "idle"] /\ UNCHANGED <<ino, made, path, behind, rank, kept>>
    BY <1>5 DEF SyncDirFails, Abandon, Do, inodes, dir
  <2> QED
    BY <2>1 DEF FileInv, FileTypeOK, RankInv, SyncedStays
<1>6. CASE WriteBack
  <2>1. behind' = {path} /\ path \in behind /\ UNCHANGED <<wpc, ino, made, path, rank, kept>>
    BY <1>6 DEF WriteBack, inodes, FileInv, FileTypeOK
  <2> QED
    BY <2>1 DEF RankInv, SyncedStays
<1>7. CASE PowerLoss
  <2>1. /\ wpc' = [w \in Writers |-> "idle"] /\ path' \in behind /\ behind' = {path'}
        /\ UNCHANGED <<ino, made, rank, kept>>
    BY <1>7 DEF PowerLoss
  <2> QED
    BY <2>1 DEF RankInv, SyncedStays
<1>8. CASE UNCHANGED fileVars
  BY <1>8 DEF fileVars, inodes, dir, RankInv, SyncedStays
<1> QED
  BY <1>1, <1>2, <1>3, <1>4, <1>5, <1>6, <1>7, <1>8 DEF FileNext, Replacing

\* Once WriteIndex has synced the directory, no power loss brings back what
\* was there before, although later renames may not have reached the disk.
THEOREM SyncedReplacementStays == FileSpec => []SyncedStays
<1>1. FileInit => FileInv /\ RankInv
  BY FileStarts, RankInit
<1>2. (FileInv /\ RankInv) /\ [FileNext]_fileVars => (FileInv /\ RankInv)'
  BY FileStep, RankStep
<1>3. RankInv => SyncedStays
  BY DEF RankInv
<1> QED
  BY <1>1, <1>2, <1>3, PTL DEF FileSpec

-----------------------------------------------------------------------------
(* The refinement.                                                         *)

\* Nothing that is torn is ever seen.
SeenIsThere == Seen(path) = path /\ {Seen(v) : v \in behind} = behind

LEMMA NothingTornSeen == FileInv => SeenIsThere
<1> SUFFICES ASSUME FileInv PROVE SeenIsThere
  OBVIOUS
<1>1. \A v \in behind : Seen(v) = v
  BY BehindWhole DEF NeverTorn, Seen
<1> QED
  BY <1>1 DEF FileInv, FileTypeOK, SeenIsThere

LEMMA StepRefines ==
    ASSUME FileInv, FileInv', [FileNext]_fileVars
    PROVE  [Replaced!ANext]_<<Seen(path), {Seen(v) : v \in behind}>>
<1>1. SeenIsThere
  BY NothingTornSeen
<1>2. SeenIsThere' /\ path' \in Versions
  <2>1. (FileInv => SeenIsThere)'
    BY NothingTornSeen, PTL
  <2> QED
    BY <2>1 DEF FileInv, FileTypeOK
<1>3. SUFFICES \/ path' \in Versions \ {path} /\ behind' = behind \cup {path'}
               \/ path' = path /\ behind' = {path}
               \/ path' \in behind /\ behind' = {path'}
               \/ path' = path /\ behind' = behind
  BY <1>1, <1>2
     DEF SeenIsThere, Replaced!ANext, Replaced!Replace, Replaced!Settle,
         Replaced!TakeBack
<1>4. ASSUME NEW w \in Writers, Rename(w)
      PROVE  \/ path' # path /\ behind' = behind \cup {path'}
             \/ path' = path /\ behind' = behind
  <2>1. path' = ino[w] /\ behind' = behind \cup {ino[w]}
    BY <1>4 DEF Rename
  <2> QED
    BY <2>1 DEF FileInv, FileTypeOK
<1>5. ASSUME NEW w \in Writers, Replacing(w), ~Rename(w)
      PROVE  path' = path /\ behind' \in {behind, {path}}
  BY <1>5
     DEF Replacing, CreateTemp, Write, WriteFails, Sync, Chmod,
         SyncDir, SyncDirFails, Abandon, DirSynced, dir
<1>6. WriteBack => path' = path /\ behind' = {path}
  BY DEF WriteBack
<1>7. PowerLoss => path' \in behind /\ behind' = {path'}
  BY DEF PowerLoss
<1>8. UNCHANGED fileVars => path' = path /\ behind' = behind
  BY DEF fileVars, dir
<1> QED
  BY <1>2, <1>4, <1>5, <1>6, <1>7, <1>8 DEF FileNext

\* Nine steps, a crash between any two of them, and power losses amount to an
\* atomic replacement of one whole version by another.
THEOREM ReplacementIsAtomic == FileSpec => ImplementsAtomicReplace
<1>1. FileInit => Replaced!AInit
  <2> SUFFICES ASSUME FileInit PROVE Replaced!AInit
    OBVIOUS
  <2>1. FileInv
    BY FileStarts
  <2>2. SeenIsThere
    BY <2>1, NothingTornSeen
  <2> QED
    BY <2>2, FileAssumption DEF SeenIsThere, FileInit, Replaced!AInit
<1>2. FileInv /\ FileInv' /\ [FileNext]_fileVars
        => [Replaced!ANext]_<<Seen(path), {Seen(v) : v \in behind}>>
  BY StepRefines
<1> QED
  BY <1>1, <1>2, FileInvariant, PTL DEF FileSpec, ImplementsAtomicReplace, Replaced!ASpec

-----------------------------------------------------------------------------
(* The set in Redis.                                                       *)

\* What is staged is the seeder's index.
StagedIsIndex == \A r \in Seeders : /\ spc[r] \in {"new", "loaded"} => set[r] = {}
                                  /\ spc[r] = "staged" => set[r] = idx[r]

SeedInv == SeedTypeOK /\ StagedIsIndex /\ NeverHalfSeeded

LEMMA SeedStarts == SeedInit => SeedInv
BY SeedAssumption DEF SeedInit, SeedInv, SeedTypeOK, StagedIsIndex, NeverHalfSeeded, Keys

\* RENAME puts the seeder's whole index in place and frees its staging key.
LEMMA RenamePlaces ==
    ASSUME SeedInv, NEW r \in Seeders, spc[r] = "staged"
    PROVE  /\ Renamed(r) \in [Keys -> SUBSET UNION Indexes]
           /\ Renamed(r)[Main] = idx[r] /\ Renamed(r)[r] = {}
           /\ \A k \in Seeders : k # r => Renamed(r)[k] = set[k]
BY SeedAssumption DEF SeedInv, SeedTypeOK, StagedIsIndex, Renamed, Staging, Keys

LEMMA SeedStep == SeedInv /\ [SeedNext]_seedVars => SeedInv'
<1> SUFFICES ASSUME SeedInv, [SeedNext]_seedVars PROVE SeedInv'
  OBVIOUS
<1> USE SeedAssumption
<1>1. ASSUME NEW r \in Seeders, Load(r) PROVE SeedInv'
  BY <1>1 DEF Load, SeedInv, SeedTypeOK, StagedIsIndex, NeverHalfSeeded, Keys,
              budgets
<1>2. ASSUME NEW r \in Seeders, Stage(r) PROVE SeedInv'
  <2>1. /\ spc[r] = "loaded" /\ set[r] = {} /\ set \in [Keys -> SUBSET UNION Indexes]
        /\ set' = [set EXCEPT ![r] = @ \cup idx[r]]
        /\ spc' = [spc EXCEPT ![r] = IF idx[r] = {} THEN "failed" ELSE "staged"]
        /\ UNCHANGED <<idx, reachable, up, seeded>>
    BY <1>2 DEF Stage, Moves, Staging, SeedInv, SeedTypeOK, StagedIsIndex
  <2>2. idx[r] \in SUBSET UNION Indexes
    BY DEF SeedInv, SeedTypeOK
  <2>3. /\ set' \in [Keys -> SUBSET UNION Indexes]
        /\ set'[r] = idx[r] /\ set'[Main] = set[Main]
        /\ \A k \in Seeders : k # r => set'[k] = set[k]
    BY <2>1, <2>2 DEF Keys
  <2>4. SeedTypeOK'
    BY <2>1, <2>3 DEF SeedInv, SeedTypeOK
  <2> QED
    BY <2>1, <2>3, <2>4 DEF SeedInv, SeedTypeOK, StagedIsIndex, NeverHalfSeeded
<1>3. ASSUME NEW r \in Seeders, spc[r] = "staged",
             set' = Renamed(r), seeded' = idx[r],
             NEW to \in {"placed", "failed"}, Moves(r, to), UNCHANGED <<reachable, up>>
      PROVE  SeedInv'
  <2>1. /\ set' \in [Keys -> SUBSET UNION Indexes]
        /\ set'[Main] = idx[r] /\ set'[r] = {}
        /\ \A k \in Seeders : k # r => set'[k] = set[k]
    BY <1>3, RenamePlaces
  <2>2. spc' = [spc EXCEPT ![r] = to] /\ idx' = idx
    BY <1>3 DEF Moves
  <2>3. SeedTypeOK'
    BY <1>3, <2>1, <2>2 DEF SeedInv, SeedTypeOK
  <2> QED
    BY <1>3, <2>1, <2>2, <2>3 DEF SeedInv, SeedTypeOK, StagedIsIndex, NeverHalfSeeded
<1>4. ASSUME NEW r \in Seeders, spc[r] \in {"loaded", "staged"}, Moves(r, "failed"),
             UNCHANGED <<set, seeded, reachable, up>>
      PROVE  SeedInv'
  BY <1>4 DEF Moves, SeedInv, SeedTypeOK, StagedIsIndex, NeverHalfSeeded
<1>5. ASSUME NEW r \in Seeders, Place(r) PROVE SeedInv'
  BY <1>3, <1>5 DEF Place
<1>6. ASSUME NEW r \in Seeders, GiveUp(r) PROVE SeedInv'
  BY <1>4, <1>6 DEF GiveUp
<1>7. ASSUME NEW r \in Seeders, SeederDies(r) PROVE SeedInv'
  BY <1>3, <1>4, <1>7 DEF SeederDies
<1>8. ASSUME NEW s \in Servers, Start(s) \/ Stop(s) PROVE SeedInv'
  BY <1>8 DEF Start, Stop, SeedInv, SeedTypeOK, StagedIsIndex, NeverHalfSeeded
<1>9. CASE Partition
  BY <1>9 DEF Partition, SeedInv, SeedTypeOK, StagedIsIndex, NeverHalfSeeded
<1>10. CASE LoseKey
  <2>1. /\ set' = [set EXCEPT ![Main] = {}] /\ set \in [Keys -> SUBSET UNION Indexes]
        /\ UNCHANGED <<reachable, spc, idx, up, seeded>>
    BY <1>10 DEF LoseKey, SeedInv, SeedTypeOK
  <2>2. /\ set' \in [Keys -> SUBSET UNION Indexes] /\ set'[Main] = {}
        /\ \A k \in Seeders : set'[k] = set[k]
    BY <2>1 DEF Keys
  <2> QED
    BY <2>1, <2>2 DEF SeedInv, SeedTypeOK, StagedIsIndex, NeverHalfSeeded
<1>11. CASE UNCHANGED seedVars
  BY <1>11 DEF seedVars, SeedInv, SeedTypeOK, StagedIsIndex, NeverHalfSeeded
<1> QED
  BY <1>1, <1>2, <1>5, <1>6, <1>7, <1>8, <1>9, <1>10, <1>11 DEF SeedNext

LEMMA SeedInvariant == SeedSpec => []SeedInv
<1>1. SeedInit => SeedInv BY SeedStarts
<1>2. SeedInv /\ [SeedNext]_seedVars => SeedInv' BY SeedStep
<1> QED BY <1>1, <1>2, PTL DEF SeedSpec

\* The types of the state, and that a staging key holds something only while
\* its seeder has staged or after it has failed: a placed seeding leaves none.
THEOREM SeedTypeCorrect == SeedSpec => []SeedTypeOK
<1>1. SeedInv => SeedTypeOK BY DEF SeedInv
<1> QED BY SeedInvariant, <1>1, PTL

\* The set at the servers' key is that of the last seeding, whole, or the key
\* was lost, although SADD and RENAME are two commands of seeders that overlap
\* and die.
THEOREM SetNeverHalfSeeded == SeedSpec => []NeverHalfSeeded
<1>1. SeedInv => NeverHalfSeeded BY DEF SeedInv
<1> QED BY SeedInvariant, <1>1, PTL

-----------------------------------------------------------------------------
(* As long as Redis keeps what it is given, the servers' set is the last   *)
(* seeding, and none that is staged is empty.                              *)

Kept == losses = 0 => set[Main] = seeded /\ (up # {} => seeded # {})

KeptInv == /\ losses \in Nat
           /\ \A r \in Seeders : spc[r] = "staged" => idx[r] # {}
           /\ Kept

LEMMA KeptInit == SeedInit => KeptInv
BY SeedAssumption DEF SeedInit, KeptInv, Kept, Keys

LEMMA KeptStep == SeedInv /\ KeptInv /\ [SeedNext]_seedVars => KeptInv'
<1> SUFFICES ASSUME SeedInv, KeptInv, [SeedNext]_seedVars PROVE KeptInv'
  OBVIOUS
<1> USE SeedAssumption
<1>1. ASSUME NEW r \in Seeders, Load(r) PROVE KeptInv'
  <2>1. \A k \in Seeders : spc'[k] = "staged" => spc[k] = "staged" /\ idx'[k] = idx[k]
    BY <1>1 DEF Load, SeedInv, SeedTypeOK
  <2> QED
    BY <1>1, <2>1 DEF Load, KeptInv, Kept, budgets
<1>2. ASSUME NEW r \in Seeders, Stage(r) PROVE KeptInv'
  <2>1. /\ set' = [set EXCEPT ![r] = @ \cup idx[r]] /\ set \in [Keys -> SUBSET UNION Indexes]
        /\ spc' = [spc EXCEPT ![r] = IF idx[r] = {} THEN "failed" ELSE "staged"]
        /\ UNCHANGED <<idx, up, seeded, losses>>
    BY <1>2 DEF Stage, Moves, Staging, budgets, SeedInv, SeedTypeOK
  <2>2. set'[Main] = set[Main]
    BY <2>1 DEF Keys
  <2>3. \A k \in Seeders : spc'[k] = "staged" => idx'[k] # {}
    BY <2>1 DEF SeedInv, SeedTypeOK, KeptInv
  <2> QED
    BY <2>1, <2>2, <2>3 DEF KeptInv, Kept
<1>3. ASSUME NEW r \in Seeders, spc[r] = "staged", set' = Renamed(r), seeded' = idx[r],
             NEW to \in {"placed", "failed"}, Moves(r, to), UNCHANGED <<up, losses>>
      PROVE  KeptInv'
  <2>1. set'[Main] = idx[r] /\ idx[r] # {}
    BY <1>3, RenamePlaces DEF KeptInv
  <2>2. \A k \in Seeders : spc'[k] = "staged" => spc[k] = "staged" /\ idx'[k] = idx[k]
    BY <1>3 DEF Moves, SeedInv, SeedTypeOK
  <2> QED
    BY <1>3, <2>1, <2>2 DEF KeptInv, Kept
<1>4. ASSUME NEW r \in Seeders, Moves(r, "failed"), UNCHANGED <<set, seeded, up, losses>>
      PROVE  KeptInv'
  <2>1. \A k \in Seeders : spc'[k] = "staged" => spc[k] = "staged" /\ idx'[k] = idx[k]
    BY <1>4 DEF Moves, SeedInv, SeedTypeOK
  <2> QED
    BY <1>4, <2>1 DEF KeptInv, Kept
<1>5. ASSUME NEW r \in Seeders, Place(r) PROVE KeptInv'
  BY <1>3, <1>5 DEF Place, budgets
<1>6. ASSUME NEW r \in Seeders, GiveUp(r) PROVE KeptInv'
  BY <1>4, <1>6 DEF GiveUp, budgets
<1>7. ASSUME NEW r \in Seeders, SeederDies(r) PROVE KeptInv'
  BY <1>3, <1>4, <1>7 DEF SeederDies
<1>8. ASSUME NEW s \in Servers, Start(s) \/ Stop(s) PROVE KeptInv'
  BY <1>8 DEF Start, Stop, AcceptsSet, KeptInv, Kept, budgets
<1>9. CASE Partition
  BY <1>9 DEF Partition, KeptInv, Kept, budgets
<1>10. CASE LoseKey
  BY <1>10 DEF LoseKey, KeptInv, Kept
<1>11. CASE UNCHANGED seedVars
  BY <1>11 DEF seedVars, KeptInv, Kept, budgets
<1> QED
  BY <1>1, <1>2, <1>5, <1>6, <1>7, <1>8, <1>9, <1>10, <1>11 DEF SeedNext

\* While Redis keeps the key, no seeding, not that of an empty index either,
\* leaves a running server without a set, and no code of the last seeding is
\* called invalid.
THEOREM ValidNeverRejected == SeedSpec => []NeverSilentlyRejects
<1>1. SeedInv /\ KeptInv /\ [SeedNext]_seedVars => KeptInv'
  BY KeptStep
<1>2. KeptInv => NeverSilentlyRejects
  BY DEF KeptInv, Kept, NeverSilentlyRejects, Validate, Unreachable
<1> QED
  BY KeptInit, SeedInvariant, <1>1, <1>2, PTL DEF SeedSpec
=============================================================================
