------------------------------ MODULE MCAlignAlloc ------------------------------
(* Small types, requests and heaps for AlignAlloc. *)
EXTENDS AlignAlloc, TLC

CONSTANTS b1, b2

T(size, align) == [size |-> size, align |-> align]
R(offset, len) == [offset |-> offset, len |-> len]

\* A 3-byte array, a word, a record with an inner key, one that fills a line.
SmallTypes == {T(3, 1), T(8, 8), T(32, 16), T(56, 8)}

\* A prefix, a tail, two inner fields, and one longer than a line allows.
SmallRequests == {R(0, 3), R(1, 2), R(8, 8), R(7, 1), R(4, 57)}

\* Every residue modulo 64 that malloc may return, in a space where blocks touch.
Heap == {16 * i : i \in 4 .. 15}

BoxSymmetry == Permutations(Box)
================================================================================
