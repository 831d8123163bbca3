--------------------------- MODULE MCIndexBuilder ---------------------------
(* Small instances of IndexBuilder: three files, three codes, two partitions. *)
EXTENDS IndexBuilder

CONSTANTS f1, f2, f3

MCSources == {f1, f2, f3}
MCCodes == {"A", "B", "C"}
MCLines == {"A", " A ", "B", "C", "lower"}
MCNorm == [l \in MCLines |-> CASE l = " A " -> "A"
                               [] l = "lower" -> Rejected
                               [] OTHER -> l]
\* Two codes share partition 0.
MCRoute == [c \in MCCodes |-> IF c = "C" THEN 1 ELSE 0]

Files(l1, l2, l3) == [s \in MCSources |->
    [lines |-> CASE s = f1 -> l1 [] s = f2 -> l2 [] s = f3 -> l3, intact |-> TRUE]]

\* A code repeated in one file only, two codes in two files, a file with
\* nothing well-formed in it, and a drop whose second file is damaged.
MCCorpora ==
    LET repeated == Files(<<"A", " A ", "B">>, <<"B", "lower">>, <<"C", "C">>)
        crossed  == Files(<<"A">>, <<"C", "A">>, <<" A ", "C">>)
        rotated  == Files(<<"B", "A">>, <<"C">>, <<"lower">>)
    IN  {repeated, crossed, rotated, [crossed EXCEPT ![f2].intact = FALSE]}
=============================================================================
