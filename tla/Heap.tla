-------------------------------- MODULE Heap --------------------------------
(***************************************************************************)
(* The heap of DekOS (memory/alloc.c): a bitmap of 16-byte units, first    *)
(* fit, and a header unit in front of each block that holds its size.      *)
(*                                                                         *)
(* The same code serves the programs' MALLOC and FREE, which run with      *)
(* interrupts off and so are one action each, and kernel code that runs    *)
(* with interrupts on (the window manager's process, wm2/wm.c), where a    *)
(* tick can fall between any two accesses to the bitmap.  That code is cut *)
(* at each of them: the bitmap is read a bit at a time by the search and   *)
(* written a byte at a time, by a load and a store.                        *)
(*                                                                         *)
(* Callers free the blocks they were given, once.                          *)
(***************************************************************************)
EXTENDS Integers

CONSTANTS
  HeapSize,  \* bytes from the end of the kernel to the end of memory
  WordSize,  \* 2^32: size_t and uint32_t count modulo this
  Sizes,     \* bound: the sizes asked for
  Atomic,    \* callers that run with interrupts off
  Preempted  \* callers that run with interrupts on

ALLOC_ALIGNMENT == 16  \* also the size of a header
BitsPerByte     == 8

(* The last sizes are those for which size plus header wraps to a small    *)
(* number; no caller in the kernel comes near them.                        *)
ASSUME HeapAssumption ==
  /\ HeapSize \in Nat /\ HeapSize >= ALLOC_ALIGNMENT
  /\ WordSize \in Nat /\ WordSize > HeapSize /\ WordSize % ALLOC_ALIGNMENT = 0
  /\ Sizes \subseteq 0 .. WordSize - ALLOC_ALIGNMENT
  /\ Atomic \cap Preempted = {}

Callers == Atomic \cup Preempted

VARIABLES
  map,       \* the units whose bit is set in minfo.map
  hdr,       \* the size word at the start of each unit, where one was written
  blocks,    \* the blocks callers hold: who, first unit, size asked for
  panicked,  \* panic, which stops the machine: the size it reports
  pc,        \* where each preempted caller is
  op,        \* its operation: the unit its block starts at, its size in bytes
             \* and in units, and whether the bits are to be set or cleared
  off,       \* j: units of the block already looked at, or already written
  byte       \* the byte of the bitmap it has loaded

vars == <<map, hdr, blocks, panicked, pc, op, off, byte>>

-----------------------------------------------------------------------------
(* memInit: the bitmap is carved from the end of the heap it describes.    *)
MapBytes  == (HeapSize \div ALLOC_ALIGNMENT + BitsPerByte - 1) \div BitsPerByte
HeapBytes == (HeapSize \div ALLOC_ALIGNMENT) * ALLOC_ALIGNMENT - MapBytes
total     == HeapBytes \div ALLOC_ALIGNMENT
Units     == 0 .. total - 1

(* 32-bit arithmetic, and ALLOC_ALIGN in it. *)
Word(n) == n % WordSize
ALLOC_ALIGN(n) == LET m == Word(n + ALLOC_ALIGNMENT - 1)
                  IN  m - (m % ALLOC_ALIGNMENT)

(* Mutant of UnmapUnits: the header unit is forgotten. *)
UnmapBodyOnly(size) == size \div ALLOC_ALIGNMENT

(* Mutant of UnmapUnits: one unit more, to round up. *)
UnmapOneMore(size) == Word(size + ALLOC_ALIGNMENT) \div ALLOC_ALIGNMENT + 1

(* The units m_map marks for kmalloc(size), and those u_map clears for     *)
(* kfree of a block whose header says size: the one rounds up, the other   *)
(* down.                                                                   *)
MapUnits(size)   == ALLOC_ALIGN(Word(size + ALLOC_ALIGNMENT)) \div ALLOC_ALIGNMENT
UnmapUnits(size) == Word(size + ALLOC_ALIGNMENT) \div ALLOC_ALIGNMENT

Run(at, n) == at .. at + n - 1

(* Mutant of IsFree: the bits' indices are not tested against total_bits. *)
IsClear(at, n) == Run(at, n) \cap map = {}

(* m_map's search.  Its bound total_bits - num_bits wraps when the request *)
(* is larger than the heap; the test of each bit's index against           *)
(* total_bits then refuses every place, so the bound adds nothing.         *)
IsFree(at, n) == Run(at, n) \subseteq Units \ map

(* Mutant of FirstFit: only the first unit of the run is tested. *)
FirstClearBit(at, n) ==
  /\ IsFree(at, 1)
  /\ Run(at, n) \subseteq Units
  /\ \A k \in Units : IsFree(k, 1) => at <= k

FirstFit(at, n) == IsFree(at, n) /\ \A k \in Units : IsFree(k, n) => at <= k

Held(c, at, size) == [by |-> c, at |-> at, size |-> size]

Idle == [at |-> 0, size |-> 0, n |-> 0, set |-> FALSE]

Init ==
  /\ map = {}
  /\ hdr = [u \in Units |-> 0]
  /\ blocks = {}
  /\ panicked = {}
  /\ pc = [c \in Preempted |-> "idle"]
  /\ op = [c \in Preempted |-> Idle]
  /\ off = [c \in Preempted |-> 0]
  /\ byte = [c \in Preempted |-> {}]

-----------------------------------------------------------------------------
(* Calls made with interrupts off.                                         *)

PreemptedVars == <<pc, op, off, byte>>

(* kmalloc, when m_map finds a place. *)
Malloc(c, size) ==
  /\ MapUnits(size) > 0
  /\ \E at \in Units :
       /\ FirstFit(at, MapUnits(size))
       /\ map' = map \cup Run(at, MapUnits(size))
       /\ hdr' = [hdr EXCEPT ![at] = size]
       /\ blocks' = blocks \cup {Held(c, at, size)}
  /\ UNCHANGED <<panicked, PreemptedVars>>

(* kmalloc, when it does not: panic. *)
MallocPanics(size) ==
  /\ MapUnits(size) = 0 \/ \A at \in Units : ~IsFree(at, MapUnits(size))
  /\ panicked' = {size}
  /\ UNCHANGED <<map, hdr, blocks, PreemptedVars>>

(* kfree of a block the caller holds. *)
Free(b) ==
  /\ map' = map \ Run(b.at, UnmapUnits(hdr[b.at]))
  /\ blocks' = blocks \ {b}
  /\ UNCHANGED <<hdr, panicked, PreemptedVars>>

AtomicCall ==
  \/ \E c \in Atomic, size \in Sizes : Malloc(c, size)
  \/ Atomic # {} /\ \E size \in Sizes : MallocPanics(size)
  \/ \E b \in blocks : b.by \in Atomic /\ Free(b)

-----------------------------------------------------------------------------
(* The same calls with interrupts on.                                      *)

Begin(c, at, size, n, set) ==
  /\ pc[c] = "idle"
  /\ op' = [op EXCEPT ![c] = [at |-> at, size |-> size, n |-> n, set |-> set]]
  /\ off' = [off EXCEPT ![c] = 0]
  /\ UNCHANGED <<map, hdr, panicked, byte>>

MallocBegin(c, size) ==
  /\ Begin(c, 0, size, MapUnits(size), TRUE)
  /\ pc' = [pc EXCEPT ![c] = "search"]
  /\ UNCHANGED blocks

(* kfree reads the header first; the block is the caller's no more. *)
FreeBegin(c, b) ==
  /\ b.by = c
  /\ Begin(c, b.at, hdr[b.at], UnmapUnits(hdr[b.at]), FALSE)
  /\ pc' = [pc EXCEPT ![c] = IF UnmapUnits(hdr[b.at]) = 0 THEN "idle" ELSE "load"]
  /\ blocks' = blocks \ {b}

(* The unit the caller is at. *)
At(c) == op[c].at + off[c]

(* Mutant of Search: the bit after the block is taken for one of its own,  *)
(* so a gap that just fits is passed over.                                 *)
SearchTooFar(c) ==
  /\ pc[c] = "search"
  /\ op[c].n > 0 /\ op[c].at \in Units
  /\ IF At(c) \in Units \ map
       THEN LET last == off[c] = op[c].n IN
            /\ pc' = [pc EXCEPT ![c] = IF last THEN "load" ELSE "search"]
            /\ off' = [off EXCEPT ![c] = IF last THEN 0 ELSE off[c] + 1]
            /\ UNCHANGED op
       ELSE /\ op' = [op EXCEPT ![c].at = op[c].at + 1]
            /\ off' = [off EXCEPT ![c] = 0]
            /\ UNCHANGED pc
  /\ UNCHANGED <<map, hdr, blocks, panicked, byte>>

(* The search tests one bit: on a clear one it goes on along the run, and  *)
(* the whole run being clear, to the marking; else it tries the next place.*)
Search(c) ==
  /\ pc[c] = "search"
  /\ op[c].n > 0 /\ op[c].at \in Units
  /\ IF At(c) \in Units \ map
       THEN LET last == off[c] + 1 = op[c].n IN
            /\ pc' = [pc EXCEPT ![c] = IF last THEN "load" ELSE "search"]
            /\ off' = [off EXCEPT ![c] = IF last THEN 0 ELSE off[c] + 1]
            /\ UNCHANGED op
       ELSE /\ op' = [op EXCEPT ![c].at = op[c].at + 1]
            /\ off' = [off EXCEPT ![c] = 0]
            /\ UNCHANGED pc
  /\ UNCHANGED <<map, hdr, blocks, panicked, byte>>

SearchFails(c) ==
  /\ pc[c] = "search"
  /\ op[c].n = 0 \/ op[c].at \notin Units
  /\ panicked' = {op[c].size}
  /\ UNCHANGED <<map, hdr, blocks, PreemptedVars>>

(* minfo.map[bit_index / 8] |= ..., or &= ~...: a load ... *)
ByteOf(u) == {v \in Units : v \div BitsPerByte = u \div BitsPerByte}

Load(c) ==
  /\ pc[c] = "load"
  /\ byte' = [byte EXCEPT ![c] = map \cap ByteOf(At(c))]
  /\ pc' = [pc EXCEPT ![c] = "store"]
  /\ UNCHANGED <<map, hdr, blocks, panicked, op, off>>

(* ... and a store.  After the last bit of an allocation kmalloc writes    *)
(* the header and returns the block.                                       *)
Store(c) ==
  LET new  == IF op[c].set THEN byte[c] \cup {At(c)} ELSE byte[c] \ {At(c)}
      done == off[c] + 1 = op[c].n
  IN
  /\ pc[c] = "store"
  /\ map' = (map \ ByteOf(At(c))) \cup new
  /\ off' = [off EXCEPT ![c] = off[c] + 1]
  /\ pc' = [pc EXCEPT ![c] = IF done THEN "idle" ELSE "load"]
  /\ IF done /\ op[c].set
       THEN /\ hdr' = [hdr EXCEPT ![op[c].at] = op[c].size]
            /\ blocks' = blocks \cup {Held(c, op[c].at, op[c].size)}
       ELSE UNCHANGED <<hdr, blocks>>
  /\ UNCHANGED <<panicked, op, byte>>

PreemptedStep(c) ==
  \/ \E size \in Sizes : MallocBegin(c, size)
  \/ \E b \in blocks : FreeBegin(c, b)
  \/ Search(c) \/ SearchFails(c) \/ Load(c) \/ Store(c)

Next == panicked = {} /\ (AtomicCall \/ \E c \in Preempted : PreemptedStep(c))

Spec == Init /\ [][Next]_vars

-----------------------------------------------------------------------------
(* Properties.                                                             *)

(* The units that hold a block's header and its size bytes, by arithmetic  *)
(* that does not wrap.                                                     *)
Need(size) == (size + 2 * ALLOC_ALIGNMENT - 1) \div ALLOC_ALIGNMENT
Extent(b)  == Run(b.at, Need(b.size))

(* Every variable has its type. *)
TypeOK ==
  /\ map \subseteq Units
  /\ hdr \in [Units -> 0 .. WordSize - 1]
  /\ blocks \subseteq [by : Callers, at : Units, size : Sizes]
  /\ panicked \subseteq Sizes
  /\ pc \in [Preempted -> {"idle", "search", "load", "store"}]
  /\ op \in [Preempted -> [at : 0 .. total, size : 0 .. WordSize - 1,
                           n : Nat, set : BOOLEAN]]
  /\ off \in [Preempted -> Nat]
  /\ byte \in [Preempted -> SUBSET Units]

(* Blocks lie inside the heap, clear of the bitmap at its end, and no two  *)
(* of them share a byte, their headers included.                           *)
Disjoint ==
  \A b \in blocks :
    /\ Extent(b) \subseteq Units
    /\ \A d \in blocks \ {b} : Extent(b) \cap Extent(d) = {}

(* Every unit of a block is marked and its header says its size: what a    *)
(* later free clears and a later search skips is right.                    *)
Accounted ==
  \A b \in blocks : Extent(b) \subseteq map /\ hdr[b.at] = b.size

(* FREE gives back what MALLOC took: with no call in progress, every       *)
(* marked unit belongs to a block somebody holds.                          *)
NothingLeaked ==
  (\A c \in Preempted : pc[c] = "idle")
    => map \subseteq UNION {Extent(b) : b \in blocks}

(* The allocator that malloc and free promise. *)
Promise == INSTANCE Allocator WITH stopped <- panicked

(* Of sizes that are multiples of 16 and of one caller at a time: kmalloc  *)
(* and kfree, bit by bit, are that allocator.  Nothing is handed out       *)
(* twice, all of it comes back, and panic means that nothing fits.         *)
IsAllocator == Promise!Spec
=============================================================================
