----------------------------- MODULE ExactIndex -----------------------------
(***************************************************************************)
(* What coupon.Build promises its caller, free of passes, partitions and   *)
(* goroutines: a build of a corpus ends by replacing the index with exactly*)
(* the valid codes of that corpus, or it ends without touching the index,  *)
(* and a corpus with a damaged file never replaces it.                     *)
(***************************************************************************)
EXTENDS CouponRules

CONSTANTS NoIndex,  \* no index file yet
          NoCorpus  \* no build is running

VARIABLES building, \* the corpus being built, or NoCorpus
          index     \* the index file: NoIndex or [codes, from]

avars == <<building, index>>

\* An index is its records and the sources its metadata names.
ExactFor(corpus) == [codes |-> ValidCodes(corpus), from |-> corpus]

AInit == building = NoCorpus /\ index = NoIndex

Begin == /\ building = NoCorpus
         /\ building' \in Corpus
         /\ UNCHANGED index

Replace == /\ building # NoCorpus
           /\ Intact(building)
           /\ index' = ExactFor(building)
           /\ building' = NoCorpus

\* An error, a cancellation or a crash.
GiveUp == /\ building # NoCorpus
          /\ building' = NoCorpus
          /\ UNCHANGED index

ANext == Begin \/ Replace \/ GiveUp

ASpec == AInit /\ [][ANext]_avars
=============================================================================
