---------------------------- MODULE CouponRules ----------------------------
(***************************************************************************)
(* What a valid coupon is, said once for every module that needs it.       *)
(*                                                                         *)
(* A corpus is a function from source files to [lines, intact]: the lines  *)
(* the file holds once decompressed, and whether its gzip stream verifies. *)
(* A line is one of a small set of spellings; Norm says what Normalize     *)
(* makes of it: a code (several spellings may denote one code) or Rejected.*)
(***************************************************************************)
EXTENDS Integers, Sequences, FiniteSets, Functions

CONSTANTS Sources,  \* BuildOptions.Sources, by position
          Codes,    \* well-formed codes
          Lines,    \* spellings a line of a file can have
          Rejected, \* what Normalize answers for a malformed line
          Norm      \* Normalize, as a function of the spelling

\* Build refuses fewer than two sources, and more than the eight bits of
\* countPartition's mask.
ASSUME SourcesAssumption == /\ IsFiniteSet(Sources)
                            /\ Cardinality(Sources) \in 2..8

ASSUME NormAssumption == /\ Rejected \notin Codes
                         /\ Norm \in [Lines -> Codes \cup {Rejected}]

Corpus == [Sources -> [lines : Seq(Lines), intact : BOOLEAN]]

\* The codes among the first n lines of a file.
KeptUpTo(lines, n) == {Norm[lines[i]] : i \in 1..n} \ {Rejected}

Kept(lines) == KeptUpTo(lines, Len(lines))

Intact(corpus) == \A s \in Sources : corpus[s].intact

\* The rule of the challenge: a code is valid when at least two distinct
\* files hold it.
ValidCodes(corpus) ==
    {c \in Codes : \E s, t \in Sources : /\ s # t
                                         /\ c \in Kept(corpus[s].lines)
                                         /\ c \in Kept(corpus[t].lines)}
=============================================================================
