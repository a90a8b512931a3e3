------------------------------ MODULE MCSeeking ------------------------------
(***************************************************************************)
(* TLC instance of Seeking: two songs and two buffers of four chunks, so   *)
(* that a song fills both or has another song as its neighbour.  Skips are *)
(* shorter than a buffer and reach beyond it from its second half.         *)
(***************************************************************************)
EXTENDS Seeking, TLC

CONSTANTS b1, b2, t1, t2, s1, s2

MCSongOf == [t \in Tracks |-> IF t = t1 THEN s1 ELSE s2]
MCIndexOf == [t \in Tracks |-> IF t = t1 THEN 1 ELSE 2]
MCHashOf == [t \in Tracks |-> "recent"]
MCSampleSize == [s \in Songs |-> IF s = s1 THEN 8 ELSE 4]
MCSkip == [s \in Songs |-> IF s = s1 THEN 2 ELSE 3]

Symmetry == Permutations(Buffers)

=============================================================================
