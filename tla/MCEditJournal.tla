--------------------------- MODULE MCEditJournal ---------------------------
(* Instances of EditJournal: three interchangeable paths, two texts and a       *)
(* content that is not UTF-8, which reading and writing turn into one of them.   *)
EXTENDS EditJournal, TLC

CONSTANTS p1, p2, p3, text, garbled, binary

Decoded == [c \in {text, garbled, binary} |-> IF c = binary THEN garbled ELSE c]
Interchangeable == Permutations({p1, p2, p3})
=============================================================================
