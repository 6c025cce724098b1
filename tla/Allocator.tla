------------------------------ MODULE Allocator ------------------------------
(***************************************************************************)
(* What malloc and free promise: a block is handed out of units nobody     *)
(* holds, freeing it makes all of them available again, and an allocation  *)
(* is refused, which stops the machine, only when no gap is large enough.  *)
(***************************************************************************)
EXTENDS Integers

CONSTANTS
  Units,    \* the allocation units of the heap
  Callers,  \* who allocates
  Sizes,    \* the sizes asked for
  Need(_)   \* how many units a block of a size takes

VARIABLES
  blocks,   \* the blocks handed out and not freed
  stopped   \* the size that was refused, if one was

Extent(at, size) == at .. at + Need(size) - 1

Taken == UNION {Extent(b.at, b.size) : b \in blocks}

IsGap(at, size) == Extent(at, size) \subseteq Units \ Taken

Init == blocks = {} /\ stopped = {}

Alloc(c, size) ==
  \E at \in Units :
    /\ IsGap(at, size)
    /\ blocks' = blocks \cup {[by |-> c, at |-> at, size |-> size]}
    /\ UNCHANGED stopped

Refuse(size) ==
  /\ \A at \in Units : ~IsGap(at, size)
  /\ stopped' = {size}
  /\ UNCHANGED blocks

Free(b) == blocks' = blocks \ {b} /\ UNCHANGED stopped

Next ==
  /\ stopped = {}
  /\ \/ \E size \in Sizes : Refuse(size) \/ \E c \in Callers : Alloc(c, size)
     \/ \E b \in blocks : Free(b)

Spec == Init /\ [][Next]_<<blocks, stopped>>
=============================================================================
