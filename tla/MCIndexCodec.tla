---------------------------- MODULE MCIndexCodec ----------------------------
(* Codes of two and three bytes over two, as prefixes of each other: two   *)
(* sources that hold up to three of two codes, in any order and with       *)
(* repetitions, and three sources that hold any of three.                  *)
EXTENDS IndexCodec

A == <<1, 2>>
B == <<1, 2, 1>>
C == <<2, 1>>

MCCorpora == [1 .. 2 -> UNION {[1 .. n -> {A, B}] : n \in 0 .. 3}]
             \cup [1 .. 3 -> {<< >>, <<A>>, <<B>>, <<C>>, <<B, A>>, <<A, C>>, <<C, B>>, <<C, A, B>>}]

MCPartOf == [code \in {A, B, C} |-> IF code = C THEN 1 ELSE 2]

MCQuestions == {A, B, C, <<1>>, <<1, 1>>, <<2, 2, 2>>, <<1, 2, 1, 1>>}
=============================================================================
