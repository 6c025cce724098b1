------------------------------- MODULE MCHeap -------------------------------
(* The requests the runs of Heap make.  A word counts modulo 256. *)
EXTENDS Heap

(* One unit and less, across a unit, the largest the heap can hold and one *)
(* more, and sizes whose rounding up wraps to nothing.                     *)
EdgeSizes == {1, 16, 17, 33, 64, 65, 225, 240}

(* Multiples of the alignment: blocks of three units up to eight, and one  *)
(* that wraps.                                                             *)
Multiples == {32, 48, 80, 112, 240}

(* Two sizes that collide quickly. *)
TwoSizes == {16, 32}
=============================================================================
