----------------------------- MODULE HeapProofs -----------------------------
(***************************************************************************)
(* Proofs about Heap for every heap size, word size and set of request     *)
(* sizes: of any callers none of which can be preempted, and of one caller *)
(* taken bit by bit.  Two callers of whom one can be preempted may be      *)
(* given the same units, as the run heap_race shows.                       *)
(***************************************************************************)
EXTENDS Heap, TLAPS

(* The bitmap has a bit for every unit, and the heap that memInit leaves   *)
(* and its bitmap fit in the memory given.                                 *)
THEOREM MapCoversHeap ==
  /\ Units \subseteq 0 .. MapBytes * BitsPerByte - 1
  /\ HeapBytes + MapBytes <= HeapSize
  /\ total \in Nat /\ total * ALLOC_ALIGNMENT <= HeapSize
<1> DEFINE units == HeapSize \div 16
<1>1. units \in Nat /\ units >= 1 /\ units * 16 <= HeapSize
  BY HeapAssumption DEF ALLOC_ALIGNMENT
<1>2. /\ MapBytes = (units + 7) \div 8
      /\ HeapBytes = units * 16 - MapBytes
      /\ total = HeapBytes \div 16
  BY DEF MapBytes, HeapBytes, total, ALLOC_ALIGNMENT, BitsPerByte
<1> HIDE DEF units
<1>3. /\ MapBytes \in Nat /\ MapBytes * 8 >= units /\ MapBytes <= units
  BY <1>1, <1>2
<1>4. HeapBytes \in Nat /\ HeapBytes <= units * 16 /\ HeapBytes + MapBytes <= HeapSize
  BY <1>1, <1>2, <1>3
<1>5. total \in Nat /\ total <= units
  BY <1>1, <1>2, <1>4
<1>6. total <= MapBytes * 8 /\ total * 16 <= HeapSize
  BY <1>1, <1>3, <1>5, HeapAssumption
<1>7. Units \subseteq 0 .. MapBytes * 8 - 1
  BY <1>3, <1>5, <1>6 DEF Units
<1>8. QED
  BY <1>4, <1>5, <1>6, <1>7 DEF BitsPerByte, ALLOC_ALIGNMENT

(* What 32-bit arithmetic does to sums that wrap at most once.             *)
LEMMA WordFacts ==
  ASSUME NEW n \in Nat, n < 2 * WordSize
  PROVE  Word(n) = IF n < WordSize THEN n ELSE n - WordSize
BY HeapAssumption DEF Word

(* A request that is not refused for wrapping gets the units it needs; a   *)
(* free never clears more than the block has.                              *)
LEMMA Rounding ==
  ASSUME NEW size \in 0 .. WordSize - ALLOC_ALIGNMENT
  PROVE  /\ MapUnits(size) \in Nat
         /\ MapUnits(size) > 0 => MapUnits(size) = Need(size)
         /\ MapUnits(size) = 0 => Need(size) * ALLOC_ALIGNMENT >= WordSize
         /\ UnmapUnits(size) \in Nat /\ UnmapUnits(size) <= Need(size)
         /\ Need(size) \in Nat /\ Need(size) > 0
<1>1. WordSize \in Nat /\ WordSize >= 17 /\ size \in Nat /\ size + 16 <= WordSize
  BY HeapAssumption DEF ALLOC_ALIGNMENT
<1>2. Need(size) = (size + 31) \div 16
  BY DEF Need, ALLOC_ALIGNMENT
<1>3. Word(size + 16) = IF size + 16 < WordSize THEN size + 16 ELSE 0
  BY <1>1, WordFacts
<1>4. UnmapUnits(size) = Word(size + 16) \div 16
  BY DEF UnmapUnits, ALLOC_ALIGNMENT
<1> DEFINE m == Word(Word(size + 16) + 15)
<1>5. MapUnits(size) = (m - (m % 16)) \div 16
  BY DEF MapUnits, ALLOC_ALIGN, ALLOC_ALIGNMENT
<1>6. m = IF size + 31 < WordSize THEN size + 31
          ELSE IF size + 16 = WordSize THEN 15 ELSE size + 31 - WordSize
  BY <1>1, <1>3, WordFacts
<1> HIDE DEF m
<1>7. CASE size + 31 < WordSize
  BY <1>1, <1>2, <1>3, <1>4, <1>5, <1>6, <1>7 DEF ALLOC_ALIGNMENT
<1>8. CASE ~(size + 31 < WordSize)
  <2>1. m \in 0 .. 15
    BY <1>1, <1>6, <1>8
  <2>2. MapUnits(size) = 0
    BY <2>1, <1>5
  <2>3. Need(size) * 16 >= WordSize
    BY <1>1, <1>2, <1>8, HeapAssumption DEF ALLOC_ALIGNMENT
  <2>4. QED
    BY <1>1, <1>2, <1>3, <1>4, <1>8, <2>2, <2>3 DEF ALLOC_ALIGNMENT
<1>9. QED
  BY <1>7, <1>8

-----------------------------------------------------------------------------
(* Safety of the blocks when every call runs with interrupts off.          *)

HeapInv == TypeOK /\ Disjoint /\ Accounted

(* The steps an uninterrupted heap can take.                               *)
LEMMA AtomicSteps ==
  ASSUME Preempted = {}, [Next]_vars
  PROVE  \/ \E c \in Atomic, size \in Sizes : Malloc(c, size)
         \/ \E size \in Sizes : MallocPanics(size)
         \/ \E b \in blocks : Free(b)
         \/ UNCHANGED vars
BY DEF Next, AtomicCall

(* What a successful allocation hands out.                                 *)
LEMMA MallocFacts ==
  ASSUME HeapInv, NEW c \in Atomic, NEW size \in Sizes, Malloc(c, size)
  PROVE  \E at \in Units :
           /\ Run(at, Need(size)) \subseteq Units \ map
           /\ at \in Run(at, Need(size))
           /\ map' = map \cup Run(at, Need(size))
           /\ hdr' = [hdr EXCEPT ![at] = size]
           /\ blocks' = blocks \cup {Held(c, at, size)}
           /\ UNCHANGED <<panicked, PreemptedVars>>
<1>1. size \in 0 .. WordSize - ALLOC_ALIGNMENT
  BY HeapAssumption
<1>2. MapUnits(size) = Need(size) /\ Need(size) \in Nat /\ Need(size) > 0
  BY <1>1, Rounding DEF Malloc
<1>3. PICK at \in Units :
        /\ FirstFit(at, Need(size))
        /\ map' = map \cup Run(at, Need(size))
        /\ hdr' = [hdr EXCEPT ![at] = size]
        /\ blocks' = blocks \cup {Held(c, at, size)}
        /\ UNCHANGED <<panicked, PreemptedVars>>
  BY <1>2 DEF Malloc
<1>4. Run(at, Need(size)) \subseteq Units \ map
  BY <1>3 DEF FirstFit, IsFree
<1>5. at \in Run(at, Need(size))
  BY <1>2, MapCoversHeap DEF Run, Units
<1>6. QED
  BY <1>3, <1>4, <1>5

(* What a free clears is part of the block that is freed.                  *)
LEMMA FreeFacts ==
  ASSUME HeapInv, NEW b \in blocks, Free(b)
  PROVE  \E cleared \in SUBSET Extent(b) :
           /\ map' = map \ cleared
           /\ blocks' = blocks \ {b}
           /\ UNCHANGED <<hdr, panicked, PreemptedVars>>
<1> DEFINE cleared == Run(b.at, UnmapUnits(b.size))
<1>1. b.size \in 0 .. WordSize - ALLOC_ALIGNMENT /\ b.at \in Units
  BY HeapAssumption DEF HeapInv, TypeOK
<1>2. UnmapUnits(b.size) \in Nat /\ Need(b.size) \in Nat
      /\ UnmapUnits(b.size) <= Need(b.size)
  BY <1>1, Rounding
<1>3. cleared \subseteq Extent(b)
  BY <1>1, <1>2, MapCoversHeap DEF Run, Extent, Units
<1>4. hdr[b.at] = b.size
  BY DEF HeapInv, Accounted
<1>5. /\ map' = map \ cleared
      /\ blocks' = blocks \ {b}
      /\ UNCHANGED <<hdr, panicked, PreemptedVars>>
  BY <1>4 DEF Free
<1>6. QED
  BY <1>3, <1>5

LEMMA InitHeap == Init => HeapInv
<1> SUFFICES ASSUME Init PROVE HeapInv
  OBVIOUS
<1>1. Idle \in [at : 0 .. total, size : 0 .. WordSize - 1, n : Nat,
                set : BOOLEAN]
  BY HeapAssumption, MapCoversHeap DEF Idle
<1>2. hdr \in [Units -> 0 .. WordSize - 1]
  BY HeapAssumption DEF Init
<1>3. TypeOK
  BY <1>1, <1>2 DEF Init, TypeOK
<1>4. Disjoint /\ Accounted
  BY DEF Init, Disjoint, Accounted
<1>5. QED
  BY <1>3, <1>4 DEF HeapInv

LEMMA NextHeap ==
  ASSUME Preempted = {}
  PROVE  HeapInv /\ [Next]_vars => HeapInv'
<1> SUFFICES ASSUME HeapInv, [Next]_vars PROVE HeapInv'
  OBVIOUS
<1>1. ASSUME NEW c \in Atomic, NEW size \in Sizes, Malloc(c, size)
      PROVE  HeapInv'
  <2>1. PICK at \in Units :
           /\ Run(at, Need(size)) \subseteq Units \ map
           /\ at \in Run(at, Need(size))
           /\ map' = map \cup Run(at, Need(size))
           /\ hdr' = [hdr EXCEPT ![at] = size]
           /\ blocks' = blocks \cup {Held(c, at, size)}
           /\ UNCHANGED <<panicked, PreemptedVars>>
    BY <1>1, MallocFacts
  <2> DEFINE new == Held(c, at, size)
  <2>2. /\ new \in [by : Callers, at : Units, size : Sizes]
        /\ Extent(new) = Run(at, Need(size)) /\ new.at = at /\ new.size = size
    BY DEF Held, Extent, Callers
  <2>3. size \in 0 .. WordSize - 1
    BY HeapAssumption DEF ALLOC_ALIGNMENT
  <2>4. TypeOK'
    BY <2>1, <2>2, <2>3 DEF HeapInv, TypeOK, PreemptedVars
  <2>5. \A d \in blocks : /\ Extent(d) \subseteq map /\ Extent(d) \subseteq Units
                          /\ Extent(d) \cap Extent(new) = {}
                          /\ d.at \in Extent(d) /\ d.at # at
    <3> TAKE d \in blocks
    <3>1. d.size \in 0 .. WordSize - ALLOC_ALIGNMENT /\ d.at \in Units
      BY HeapAssumption DEF HeapInv, TypeOK
    <3>2. d.at \in Extent(d)
      BY <3>1, Rounding, MapCoversHeap DEF Extent, Run, Units
    <3>3. QED
      BY <3>2, <2>1, <2>2 DEF HeapInv, Disjoint, Accounted
  <2> HIDE DEF new
  <2>6. blocks' = blocks \cup {new}
    BY <2>1 DEF new
  <2>7. Disjoint'
    <3>1. Extent(new) \subseteq Units
      BY <2>1, <2>2
    <3>2. \A d, e \in blocks : d # e => Extent(d) \cap Extent(e) = {}
      BY DEF HeapInv, Disjoint
    <3>3. QED
      BY <2>5, <2>6, <3>1, <3>2 DEF Disjoint, Extent
  <2>8. Accounted'
    BY <2>1, <2>2, <2>5, <2>6 DEF HeapInv, TypeOK, Accounted, Extent
  <2>9. QED
    BY <2>4, <2>7, <2>8 DEF HeapInv
<1>2. ASSUME NEW size \in Sizes, MallocPanics(size)
      PROVE  HeapInv'
  BY <1>2 DEF MallocPanics, HeapInv, TypeOK, Disjoint, Accounted, Extent,
              PreemptedVars
<1>3. ASSUME NEW b \in blocks, Free(b)
      PROVE  HeapInv'
  <2>1. PICK cleared \in SUBSET Extent(b) :
          /\ map' = map \ cleared
          /\ blocks' = blocks \ {b}
          /\ UNCHANGED <<hdr, panicked, PreemptedVars>>
    BY <1>3, FreeFacts
  <2>2. TypeOK'
    BY <2>1 DEF HeapInv, TypeOK, PreemptedVars
  <2>3. Disjoint'
    BY <2>1 DEF HeapInv, Disjoint, Extent
  <2>4. Accounted'
    BY <2>1 DEF HeapInv, Disjoint, Accounted, Extent
  <2>5. QED
    BY <2>2, <2>3, <2>4 DEF HeapInv
<1>4. CASE UNCHANGED vars
  BY <1>4 DEF vars, HeapInv, TypeOK, Disjoint, Accounted, Extent
<1>5. QED
  BY <1>1, <1>2, <1>3, <1>4, AtomicSteps

(* Without preemption the bitmap stays within the heap and every header is *)
(* a word, sizes that wrap included.                                       *)
THEOREM HeapTyped ==
  ASSUME Preempted = {}
  PROVE  Spec => []TypeOK
<1>1. HeapInv => TypeOK
  BY DEF HeapInv
<1>2. HeapInv /\ [Next]_vars => HeapInv'
  BY NextHeap
<1>3. QED
  BY <1>1, <1>2, InitHeap, PTL DEF Spec

(* Without preemption no two blocks share a byte, whatever is allocated    *)
(* and freed in whatever order.                                            *)
THEOREM BlocksDisjoint ==
  ASSUME Preempted = {}
  PROVE  Spec => []Disjoint
<1>1. HeapInv => Disjoint
  BY DEF HeapInv
<1>2. HeapInv /\ [Next]_vars => HeapInv'
  BY NextHeap
<1>3. QED
  BY <1>1, <1>2, InitHeap, PTL DEF Spec

(* Without preemption the bitmap covers every block and every header is    *)
(* intact, although frees round down and allocations round up.             *)
THEOREM BlocksAccounted ==
  ASSUME Preempted = {}
  PROVE  Spec => []Accounted
<1>1. HeapInv => Accounted
  BY DEF HeapInv
<1>2. HeapInv /\ [Next]_vars => HeapInv'
  BY NextHeap
<1>3. QED
  BY <1>1, <1>2, InitHeap, PTL DEF Spec

-----------------------------------------------------------------------------
(* The heap implements the allocator when every call runs with interrupts  *)
(* off and every size is a multiple of the alignment.                      *)

(* The bitmap is exactly the units of the blocks held.                     *)
ExactInv == HeapInv /\ map = Promise!Taken

(* A request refused for wrapping would not have fitted.                   *)
LEMMA TooLarge ==
  ASSUME NEW size \in Sizes, NEW at \in Units,
         Run(at, Need(size)) \subseteq Units
  PROVE  MapUnits(size) > 0
<1>1. size \in 0 .. WordSize - ALLOC_ALIGNMENT
  BY HeapAssumption
<1>2. /\ Need(size) \in Nat /\ Need(size) > 0 /\ MapUnits(size) \in Nat
      /\ MapUnits(size) = 0 => Need(size) * 16 >= WordSize
  BY <1>1, Rounding DEF ALLOC_ALIGNMENT
<1>3. at + Need(size) - 1 \in Run(at, Need(size))
  BY <1>2, MapCoversHeap DEF Run, Units
<1>4. Need(size) <= total /\ total \in Nat /\ total * 16 <= HeapSize
  BY <1>2, <1>3, MapCoversHeap DEF Units, ALLOC_ALIGNMENT
<1>5. Need(size) * 16 < WordSize
  BY <1>2, <1>4, HeapAssumption
<1>6. QED
  BY <1>2, <1>5, HeapAssumption

(* A free of a multiple of the alignment clears as many units as the block *)
(* has.                                                                    *)
LEMMA WholeBlock ==
  ASSUME NEW size \in Sizes, NEW at \in Units, Run(at, Need(size)) \subseteq Units,
         size % ALLOC_ALIGNMENT = 0
  PROVE  UnmapUnits(size) = Need(size)
<1>1. size \in 0 .. WordSize - 16
  BY HeapAssumption DEF ALLOC_ALIGNMENT
<1>2. MapUnits(size) > 0
  BY TooLarge
<1>3. size + 16 < WordSize
  <2>1. CASE size + 16 = WordSize
    <3>1. Word(size + 16) = 0 /\ Word(15) = 15
      BY <1>1, <2>1, WordFacts, HeapAssumption DEF ALLOC_ALIGNMENT
    <3>2. MapUnits(size) = (15 - (15 % 16)) \div 16
      BY <3>1 DEF MapUnits, ALLOC_ALIGN, ALLOC_ALIGNMENT
    <3>3. QED
      BY <1>2, <3>2
  <2>2. QED
    BY <1>1, <2>1, HeapAssumption
<1>4. Word(size + 16) = size + 16
  BY <1>1, <1>3, WordFacts, HeapAssumption
<1>5. UnmapUnits(size) = (size + 16) \div 16
  BY <1>4 DEF UnmapUnits, ALLOC_ALIGNMENT
<1>6. Need(size) = (size + 31) \div 16 /\ size % 16 = 0
  BY DEF Need, ALLOC_ALIGNMENT
<1>7. QED
  BY <1>1, <1>5, <1>6, HeapAssumption

LEMMA WholeBlockFreed ==
  ASSUME HeapInv, NEW b \in blocks, b.size % ALLOC_ALIGNMENT = 0, Free(b)
  PROVE  map' = map \ Extent(b) /\ blocks' = blocks \ {b} /\ UNCHANGED panicked
<1>1. b.size \in Sizes /\ b.at \in Units /\ hdr[b.at] = b.size
      /\ Run(b.at, Need(b.size)) \subseteq Units
  BY DEF HeapInv, TypeOK, Disjoint, Accounted, Extent
<1>2. UnmapUnits(b.size) = Need(b.size)
  BY <1>1, WholeBlock
<1>3. QED
  BY <1>1, <1>2 DEF Free, Extent

(* The units the allocator counts as taken are the blocks' extents.        *)
LEMMA TakenIs ==
  /\ Promise!Taken = UNION {Extent(b) : b \in blocks}
  /\ Promise!Taken' = UNION {Extent(b) : b \in blocks'}
BY DEF Promise!Taken, Promise!Extent, Extent, Run

LEMMA ImplementsStep ==
  ASSUME Preempted = {}, \A size \in Sizes : size % ALLOC_ALIGNMENT = 0,
         ExactInv, [Next]_vars
  PROVE  ExactInv' /\ [Promise!Next]_<<blocks, panicked>>
<1>1. HeapInv'
  BY NextHeap DEF ExactInv
<1>2. HeapInv /\ map = UNION {Extent(b) : b \in blocks}
  BY TakenIs DEF ExactInv
<1>3. CASE UNCHANGED vars
  <2>1. map' = map /\ blocks' = blocks /\ panicked' = panicked
    BY <1>3 DEF vars
  <2>2. QED
    BY <1>1, <1>2, <2>1, TakenIs DEF ExactInv
<1>4. ASSUME panicked = {}, NEW c \in Atomic, NEW size \in Sizes, Malloc(c, size)
      PROVE  ExactInv' /\ [Promise!Next]_<<blocks, panicked>>
  <2>1. PICK at \in Units :
           /\ Run(at, Need(size)) \subseteq Units \ map
           /\ map' = map \cup Run(at, Need(size))
           /\ blocks' = blocks \cup {Held(c, at, size)}
           /\ UNCHANGED panicked
    BY <1>2, <1>4, MallocFacts
  <2>2. Extent(Held(c, at, size)) = Run(at, Need(size))
    BY DEF Held, Extent
  <2>3. map' = UNION {Extent(b) : b \in blocks'}
    BY <1>2, <2>1, <2>2
  <2>4. Promise!IsGap(at, size)
    BY <1>2, <2>1, TakenIs DEF Promise!IsGap, Promise!Extent, Run
  <2>5. Promise!Alloc(c, size)
    BY <2>1, <2>4 DEF Promise!Alloc, Held
  <2>6. c \in Callers
    BY DEF Callers
  <2>7. Promise!Next
    BY <1>4, <2>5, <2>6 DEF Promise!Next
  <2>8. QED
    BY <1>1, <2>3, <2>7, TakenIs DEF ExactInv
<1>5. ASSUME panicked = {}, NEW size \in Sizes, MallocPanics(size)
      PROVE  ExactInv' /\ [Promise!Next]_<<blocks, panicked>>
  <2>1. map' = map /\ blocks' = blocks /\ panicked' = {size}
    BY <1>5 DEF MallocPanics
  <2>2. ASSUME NEW at \in Units, Promise!IsGap(at, size)
        PROVE  FALSE
    <3>1. Run(at, Need(size)) \subseteq Units \ map
      BY <1>2, <2>2, TakenIs DEF Promise!IsGap, Promise!Extent, Run
    <3>2. MapUnits(size) > 0
      BY <3>1, TooLarge
    <3>3. MapUnits(size) = Need(size)
      BY <3>2, Rounding, HeapAssumption
    <3>4. IsFree(at, MapUnits(size))
      BY <3>1, <3>3 DEF IsFree
    <3>5. QED
      BY <1>5, <3>2, <3>4 DEF MallocPanics
  <2>3. Promise!Refuse(size)
    BY <2>1, <2>2 DEF Promise!Refuse
  <2>4. Promise!Next
    BY <1>5, <2>3 DEF Promise!Next
  <2>5. QED
    BY <1>1, <1>2, <2>1, <2>4, TakenIs DEF ExactInv
<1>6. ASSUME panicked = {}, NEW b \in blocks, Free(b)
      PROVE  ExactInv' /\ [Promise!Next]_<<blocks, panicked>>
  <2>1. b.size \in Sizes
    BY <1>2 DEF HeapInv, TypeOK
  <2>2. map' = map \ Extent(b) /\ blocks' = blocks \ {b} /\ UNCHANGED panicked
    BY <1>2, <1>6, <2>1, WholeBlockFreed
  <2>3. \A d \in blocks \ {b} : Extent(d) \cap Extent(b) = {}
    BY <1>2 DEF HeapInv, Disjoint
  <2>4. map' = UNION {Extent(d) : d \in blocks'}
    BY <1>2, <2>2, <2>3
  <2>5. Promise!Next
    BY <1>6, <2>2 DEF Promise!Next, Promise!Free
  <2>6. QED
    BY <1>1, <2>4, <2>5, TakenIs DEF ExactInv
<1>7. CASE Next
  <2>1. panicked = {}
    BY <1>7 DEF Next
  <2>2. QED
    BY <1>3, <1>4, <1>5, <1>6, <2>1, AtomicSteps
<1>8. QED
  BY <1>3, <1>7

(* Without preemption and with sizes that are multiples of the alignment   *)
(* the bitmap allocator is the allocator it promises to be: blocks out of  *)
(* free units, all of a block back at its free, and panic only when no gap *)
(* is large enough.                                                        *)
THEOREM HeapIsAllocator ==
  ASSUME Preempted = {}, \A size \in Sizes : size % ALLOC_ALIGNMENT = 0
  PROVE  Spec => IsAllocator
<1>1. Init => ExactInv /\ Promise!Init
  <2>1. Init => HeapInv
    BY InitHeap
  <2>2. Init => map = Promise!Taken /\ Promise!Init
    BY TakenIs DEF Init, Promise!Init
  <2>3. QED
    BY <2>1, <2>2 DEF ExactInv
<1>2. ExactInv /\ [Next]_vars
        => ExactInv' /\ [Promise!Next]_<<blocks, panicked>>
  BY ImplementsStep
<1>3. QED
  BY <1>1, <1>2, PTL DEF Spec, IsAllocator, Promise!Spec
-----------------------------------------------------------------------------
(* The heap bit by bit: one caller, whose every access to the bitmap is a  *)
(* step.                                                                   *)

(* Where the one caller is: it searches a bitmap that is exact, and what   *)
(* it has looked at is free and what lies below cannot hold the block; or  *)
(* it marks or clears a run nobody holds, as far as it got.                *)
Searching(c) ==
  /\ op[c].set /\ op[c].size \in Sizes /\ op[c].n = MapUnits(op[c].size)
  /\ op[c].n > 0 => off[c] < op[c].n
  /\ map = Promise!Taken
  /\ Run(op[c].at, off[c]) \subseteq Units \ map
  /\ \A k \in Units : k < op[c].at => ~IsFree(k, op[c].n)

Done(c) == IF op[c].set THEN Run(op[c].at, off[c])
           ELSE Run(At(c), op[c].n - off[c])

Writing(c) ==
  /\ off[c] < op[c].n
  /\ Run(op[c].at, op[c].n) \subseteq Units \ Promise!Taken
  /\ op[c].set => op[c].size \in Sizes /\ op[c].n = Need(op[c].size)
  /\ map = Promise!Taken \cup Done(c)

BitInv(c) ==
  /\ TypeOK /\ Disjoint
  /\ \A b \in blocks : hdr[b.at] = b.size
  /\ pc[c] = "idle" => map = Promise!Taken
  /\ pc[c] = "search" => Searching(c)
  /\ pc[c] \in {"load", "store"} => Writing(c)
  /\ pc[c] = "store" => byte[c] = map \cap ByteOf(At(c))

(* A step of the one caller.                                               *)
LEMMA OneCaller ==
  ASSUME NEW c, Preempted = {c}, Atomic = {}, Next
  PROVE  panicked = {} /\ PreemptedStep(c)
BY DEF Next, AtomicCall

(* What a step leaves alone stays right.                                   *)
LEMMA BlocksKeep ==
  ASSUME NEW c, BitInv(c), UNCHANGED <<hdr, blocks>>
  PROVE  /\ Disjoint' /\ \A b \in blocks' : hdr'[b.at] = b.size
         /\ Promise!Taken' = Promise!Taken
BY TakenIs DEF BitInv, Disjoint, Extent

LEMMA OpTyped ==
  ASSUME NEW c, Preempted = {c}, TypeOK
  PROVE  /\ pc \in [{c} -> {"idle", "search", "load", "store"}] /\ off[c] \in Nat
         /\ op[c].at \in 0 .. total /\ op[c].n \in Nat /\ op[c].set \in BOOLEAN
         /\ op[c].size \in 0 .. WordSize - 1
         /\ total \in Nat /\ Units = 0 .. total - 1
         /\ map \subseteq Units /\ byte[c] \subseteq Units
BY MapCoversHeap DEF TypeOK, Units

LEMMA MallocBegins ==
  ASSUME NEW c, Preempted = {c}, Atomic = {}, BitInv(c), NEW size \in Sizes,
         MallocBegin(c, size)
  PROVE  BitInv(c)' /\ UNCHANGED <<blocks, panicked>>
<1>1. size \in 0 .. WordSize - 1 /\ MapUnits(size) \in Nat
  BY Rounding, HeapAssumption DEF ALLOC_ALIGNMENT
<1>2. /\ pc[c] = "idle" /\ map = Promise!Taken
      /\ UNCHANGED <<map, hdr, panicked, byte, blocks>>
  BY DEF MallocBegin, Begin, BitInv
<1>3. /\ op' = [op EXCEPT ![c] = [at |-> 0, size |-> size, n |-> MapUnits(size), set |-> TRUE]]
      /\ off' = [off EXCEPT ![c] = 0] /\ pc' = [pc EXCEPT ![c] = "search"]
  BY DEF MallocBegin, Begin
<1>4. TypeOK'
  BY <1>1, <1>2, <1>3, MapCoversHeap DEF BitInv, TypeOK
<1>5. /\ op'[c] = [at |-> 0, size |-> size, n |-> MapUnits(size), set |-> TRUE]
      /\ off'[c] = 0 /\ pc'[c] = "search"
  BY <1>3 DEF BitInv, TypeOK
<1>6. Searching(c)'
  <2>1. Run(0, 0) = {} /\ \A k \in Units : ~(k < 0)
    BY DEF Run, Units
  <2>2. Promise!Taken' = map'
    BY <1>2, BlocksKeep
  <2>3. MapUnits(size) > 0 => 0 < MapUnits(size)
    OBVIOUS
  <2>4. QED
    BY <1>5, <2>1, <2>2, <2>3 DEF Searching, IsFree
<1>7. QED
  BY <1>2, <1>4, <1>5, <1>6, BlocksKeep DEF BitInv

LEMMA FreeBegins ==
  ASSUME NEW c, Preempted = {c}, Atomic = {}, \A size \in Sizes : size % ALLOC_ALIGNMENT = 0,
         BitInv(c), NEW b \in blocks, FreeBegin(c, b)
  PROVE  BitInv(c)' /\ UNCHANGED panicked /\ blocks' = blocks \ {b}
<1>1. /\ b.size \in Sizes /\ b.at \in Units /\ hdr[b.at] = b.size
      /\ Run(b.at, Need(b.size)) \subseteq Units
      /\ \A d \in blocks \ {b} : Extent(d) \cap Run(b.at, Need(b.size)) = {}
  BY DEF BitInv, TypeOK, Disjoint, Extent
<1>2. /\ UnmapUnits(b.size) = Need(b.size) /\ Need(b.size) \in Nat /\ Need(b.size) > 0
      /\ b.size \in 0 .. WordSize - 1 /\ b.at \in 0 .. total
  <2>1. b.size \in 0 .. WordSize - ALLOC_ALIGNMENT
    BY <1>1, HeapAssumption
  <2>2. UnmapUnits(b.size) = Need(b.size)
    BY <1>1, WholeBlock
  <2>3. b.size \in 0 .. WordSize - 1
    BY <2>1, HeapAssumption DEF ALLOC_ALIGNMENT
  <2>4. b.at \in 0 .. total
    BY <1>1, MapCoversHeap DEF Units
  <2>5. QED
    BY <2>1, <2>2, <2>3, <2>4, Rounding
<1>3. /\ pc[c] = "idle" /\ map = Promise!Taken /\ blocks' = blocks \ {b}
      /\ UNCHANGED <<map, hdr, panicked, byte>>
  BY DEF FreeBegin, Begin, BitInv
<1>4. /\ op' = [op EXCEPT ![c] = [at |-> b.at, size |-> b.size, n |-> Need(b.size),
                                  set |-> FALSE]]
      /\ off' = [off EXCEPT ![c] = 0] /\ pc' = [pc EXCEPT ![c] = "load"]
  <2>1. UnmapUnits(b.size) # 0
    BY <1>2
  <2>2. QED
    BY <1>1, <1>2, <2>1 DEF FreeBegin, Begin
<1>5. TypeOK'
  BY <1>2, <1>3, <1>4 DEF BitInv, TypeOK
<1>6. /\ op'[c] = [at |-> b.at, size |-> b.size, n |-> Need(b.size), set |-> FALSE]
      /\ off'[c] = 0 /\ pc'[c] = "load"
  BY <1>4 DEF BitInv, TypeOK
<1>7. /\ Promise!Taken' \cap Run(b.at, Need(b.size)) = {}
      /\ map = Promise!Taken' \cup Run(b.at, Need(b.size))
  <2>1. Promise!Taken' = UNION {Extent(d) : d \in blocks \ {b}}
    BY <1>3, TakenIs
  <2>2. Extent(b) = Run(b.at, Need(b.size))
    BY DEF Extent
  <2>3. map = UNION {Extent(d) : d \in blocks}
    BY <1>3, TakenIs
  <2>4. QED
    BY <1>1, <2>1, <2>2, <2>3
<1>8. Writing(c)'
  <2>1. At(c)' = b.at + 0 /\ b.at + 0 = b.at /\ Need(b.size) - 0 = Need(b.size)
    BY <1>1, <1>2, <1>6 DEF At, Units
  <2>2. Done(c)' = Run(b.at, Need(b.size))
    BY <1>2, <1>6, <2>1 DEF Done
  <2>3. QED
    BY <1>1, <1>2, <1>3, <1>6, <1>7, <2>2 DEF Writing
<1>9. Disjoint' /\ \A d \in blocks' : hdr'[d.at] = d.size
  BY <1>3 DEF BitInv, Disjoint, Extent
<1>10. QED
  BY <1>3, <1>5, <1>6, <1>8, <1>9 DEF BitInv

LEMMA SearchKeeps ==
  ASSUME NEW c, Preempted = {c}, Atomic = {}, BitInv(c), Search(c)
  PROVE  BitInv(c)' /\ UNCHANGED <<blocks, panicked>>
<1> DEFINE o == op[c]
           i == off[c]
<1>1. /\ pc[c] = "search" /\ o.n > 0 /\ o.at \in Units /\ Searching(c)
      /\ UNCHANGED <<map, hdr, blocks, panicked, byte>>
  BY DEF Search, BitInv
<1>2. /\ o.set /\ o.size \in Sizes /\ o.n = MapUnits(o.size) /\ i < o.n
      /\ map = Promise!Taken /\ Run(o.at, i) \subseteq Units \ map
      /\ \A k \in Units : k < o.at => ~IsFree(k, o.n)
  BY <1>1 DEF Searching
<1>3. /\ i \in Nat /\ o.at \in Nat /\ o.n \in Nat /\ At(c) = o.at + i
      /\ total \in Nat /\ Units = 0 .. total - 1
  <2>1. TypeOK
    BY DEF BitInv
  <2>2. /\ i \in Nat /\ o.at \in 0 .. total /\ o.n \in Nat /\ total \in Nat
        /\ Units = 0 .. total - 1
    BY <2>1, OpTyped
  <2>3. At(c) = o.at + i
    BY DEF At
  <2>4. QED
    BY <2>2, <2>3
<1>4. /\ Run(o.at, i + 1) = Run(o.at, i) \cup {At(c)} /\ At(c) \in Run(o.at, o.n)
      /\ Run(o.at, 0) = {} /\ Run(o.at + 1, 0) = {}
  BY <1>2, <1>3, SMTT(25) DEF Run
<1>5. Promise!Taken' = map' /\ \A k, n : IsFree(k, n)' <=> IsFree(k, n)
  BY <1>1, <1>2, BlocksKeep DEF IsFree
<1>6. CASE At(c) \in Units \ map
  <2>1. op' = op /\ Run(o.at, i + 1) \subseteq Units \ map
    BY <1>2, <1>4, <1>6 DEF Search
  <2>2. CASE i + 1 = o.n
    <3>1. /\ pc' = [pc EXCEPT ![c] = "load"] /\ off' = [off EXCEPT ![c] = 0]
      BY <1>6, <2>2 DEF Search
    <3>2. TypeOK'
      BY <1>1, <2>1, <3>1 DEF BitInv, TypeOK
    <3>3. pc'[c] = "load" /\ off'[c] = 0
      BY <3>1 DEF BitInv, TypeOK
    <3>4. o.n = Need(o.size)
      BY <1>1, <1>2, Rounding, HeapAssumption
    <3>5. Done(c)' = {}
      BY <1>2, <1>4, <2>1, <3>3 DEF Done
    <3>6. Writing(c)'
      BY <1>1, <1>2, <1>5, <2>1, <2>2, <3>3, <3>4, <3>5 DEF Writing
    <3>7. QED
      BY <1>1, <3>2, <3>3, <3>6, BlocksKeep DEF BitInv
  <2>3. CASE i + 1 # o.n
    <3>1. pc' = pc /\ off' = [off EXCEPT ![c] = i + 1]
      BY <1>6, <2>3 DEF Search, BitInv, TypeOK
    <3>2. TypeOK'
      BY <1>1, <1>3, <2>1, <3>1, SMTT(25) DEF BitInv, TypeOK
    <3>3. off'[c] = i + 1 /\ i + 1 < o.n
      BY <1>2, <1>3, <2>3, <3>1 DEF BitInv, TypeOK
    <3>4. Searching(c)'
      BY <1>1, <1>2, <1>5, <2>1, <3>3 DEF Searching
    <3>5. QED
      BY <1>1, <3>1, <3>2, <3>4, BlocksKeep DEF BitInv
  <2>4. QED
    BY <2>2, <2>3
<1>7. CASE At(c) \notin Units \ map
  <2>1. /\ op' = [op EXCEPT ![c].at = o.at + 1] /\ off' = [off EXCEPT ![c] = 0] /\ pc' = pc
    BY <1>7 DEF Search
  <2>2. /\ op'[c].at = o.at + 1 /\ op'[c].n = o.n /\ op'[c].size = o.size
        /\ op'[c].set = o.set /\ off'[c] = 0
    BY <2>1 DEF BitInv, TypeOK
  <2>3. o.at + 1 \in 0 .. total
    BY <1>1, <1>3
  <2>4. TypeOK'
    BY <1>1, <2>1, <2>3 DEF BitInv, TypeOK
  <2>5. ~IsFree(o.at, o.n)
    BY <1>4, <1>7 DEF IsFree
  <2>6. \A k \in Units : k < o.at + 1 => ~IsFree(k, o.n)
    BY <1>2, <1>3, <2>5
  <2>7. Searching(c)'
    BY <1>1, <1>2, <1>4, <1>5, <2>2, <2>6 DEF Searching
  <2>8. QED
    BY <1>1, <2>1, <2>4, <2>7, BlocksKeep DEF BitInv
<1>8. QED
  BY <1>6, <1>7
LEMMA SearchGivesUp ==
  ASSUME NEW c, Preempted = {c}, Atomic = {}, BitInv(c), panicked = {}, SearchFails(c)
  PROVE  BitInv(c)' /\ Promise!Next
<1> DEFINE o == op[c]
<1>1. /\ pc[c] = "search" /\ panicked' = {o.size} /\ (o.n = 0 \/ o.at \notin Units)
      /\ UNCHANGED <<map, hdr, blocks, pc, op, off, byte>> /\ Searching(c)
  BY DEF SearchFails, BitInv, PreemptedVars
<1>2. /\ o.size \in Sizes /\ o.n = MapUnits(o.size) /\ map = Promise!Taken
      /\ \A k \in Units : k < o.at => ~IsFree(k, o.n)
  BY <1>1 DEF Searching
<1>3. BitInv(c)'
  <2>1. TypeOK'
    BY <1>1, <1>2 DEF BitInv, TypeOK
  <2>2. Promise!Taken' = Promise!Taken
    BY <1>1, BlocksKeep
  <2>3. Searching(c)'
    BY <1>1, <2>2 DEF Searching, IsFree
  <2>4. QED
    BY <1>1, <2>1, <2>3, BlocksKeep DEF BitInv
<1>4. ASSUME NEW at \in Units, Promise!IsGap(at, o.size)
      PROVE  FALSE
  <2>1. Run(at, Need(o.size)) \subseteq Units \ map
    BY <1>2, <1>4 DEF Promise!IsGap, Promise!Extent, Run
  <2>2. o.n > 0 /\ o.n = Need(o.size)
    <3>1. MapUnits(o.size) > 0
      BY <1>2, <2>1, TooLarge
    <3>2. QED
      BY <1>2, <3>1, Rounding, HeapAssumption
  <2>3. at < o.at
    <3>1. o.at \in 0 .. total /\ total \in Nat /\ Units = 0 .. total - 1
      BY OpTyped DEF BitInv
    <3>2. QED
      BY <1>1, <2>2, <3>1
  <2>4. QED
    BY <1>2, <2>1, <2>2, <2>3 DEF IsFree
<1>5. Promise!Refuse(o.size)
  BY <1>1, <1>4 DEF Promise!Refuse
<1>6. QED
  BY <1>2, <1>3, <1>5 DEF Promise!Next

LEMMA LoadKeeps ==
  ASSUME NEW c, Preempted = {c}, Atomic = {}, BitInv(c), Load(c)
  PROVE  BitInv(c)' /\ UNCHANGED <<blocks, panicked>>
<1>1. /\ pc[c] = "load" /\ pc' = [pc EXCEPT ![c] = "store"]
      /\ byte' = [byte EXCEPT ![c] = map \cap ByteOf(At(c))]
      /\ UNCHANGED <<map, hdr, blocks, panicked, op, off>> /\ Writing(c)
  BY DEF Load, BitInv
<1>2. TypeOK'
  BY <1>1 DEF BitInv, TypeOK
<1>3. /\ pc'[c] = "store" /\ At(c)' = At(c)
      /\ byte'[c] = map \cap ByteOf(At(c))
  BY <1>1 DEF BitInv, TypeOK, At
<1>4. Writing(c)'
  <2>1. Promise!Taken' = Promise!Taken
    BY <1>1, BlocksKeep
  <2>2. Done(c)' = Done(c)
    BY <1>1, <1>3 DEF Done
  <2>3. QED
    BY <1>1, <2>1, <2>2 DEF Writing
<1>5. ByteOf(At(c))' = ByteOf(At(c))
  BY <1>3 DEF ByteOf
<1>6. QED
  BY <1>1, <1>2, <1>3, <1>4, <1>5, BlocksKeep DEF BitInv

(* The other bits of the byte are as they were when it was loaded.         *)
LEMMA OneBit ==
  ASSUME NEW c, BitInv(c), At(c) \in Units, Store(c)
  PROVE  map' = IF op[c].set THEN map \cup {At(c)} ELSE map \ {At(c)}
<1>1. byte[c] = map \cap ByteOf(At(c)) /\ At(c) \in ByteOf(At(c))
  BY DEF Store, BitInv, ByteOf
<1>2. map' = (map \ ByteOf(At(c))) \cup
               (IF op[c].set THEN byte[c] \cup {At(c)} ELSE byte[c] \ {At(c)})
  BY DEF Store
<1>3. QED
  BY <1>1, <1>2

LEMMA StoreKeeps ==
  ASSUME NEW c, Preempted = {c}, Atomic = {}, BitInv(c), panicked = {}, Store(c)
  PROVE  BitInv(c)' /\ [Promise!Next]_<<blocks, panicked>>
<1> DEFINE o == op[c]
           i == off[c]
           run == Run(o.at, o.n)
<1>1. /\ pc[c] = "store" /\ Writing(c) /\ TypeOK
      /\ off' = [off EXCEPT ![c] = i + 1]
      /\ pc' = [pc EXCEPT ![c] = IF i + 1 = o.n THEN "idle" ELSE "load"]
      /\ UNCHANGED <<panicked, op, byte>>
  BY DEF Store, BitInv
<1>2. /\ i < o.n /\ run \subseteq Units \ Promise!Taken
      /\ o.set => o.size \in Sizes /\ o.n = Need(o.size)
      /\ map = Promise!Taken \cup Done(c)
  BY <1>1 DEF Writing
<1>3. i \in Nat /\ o.at \in Nat /\ o.n \in Nat /\ o.size \in 0 .. WordSize - 1
  <2>1. i \in Nat /\ o.at \in 0 .. total /\ o.n \in Nat /\ o.size \in 0 .. WordSize - 1
    BY <1>1, OpTyped
  <2>2. QED
    BY <2>1
<1>4. At(c) = o.at + i /\ At(c)' = o.at + (i + 1) /\ At(c) \in run /\ At(c) \in Units
  <2>1. off'[c] = i + 1 /\ op' = op
    BY <1>1 DEF TypeOK
  <2>2. At(c) = o.at + i /\ At(c)' = o.at + (i + 1)
    BY <2>1 DEF At
  <2>3. At(c) \in run
    BY <1>2, <1>3, <2>2 DEF Run
  <2>4. QED
    BY <1>2, <2>2, <2>3
<1>5. off'[c] = i + 1 /\ op' = op /\ pc'[c] = (IF i + 1 = o.n THEN "idle" ELSE "load")
  BY <1>1 DEF TypeOK
<1>6. map' = IF o.set THEN map \cup {At(c)} ELSE map \ {At(c)}
  BY <1>4, OneBit
<1>7. map' = Promise!Taken \cup (IF o.set THEN Run(o.at, i + 1)
                                 ELSE Run(o.at + (i + 1), o.n - (i + 1)))
  <2>1. CASE o.set
    <3>1. Run(o.at, i + 1) = Run(o.at, i) \cup {At(c)}
      BY <1>2, <1>3, <1>4 DEF Run
    <3>2. Done(c) = Run(o.at, i)
      BY <2>1 DEF Done
    <3>3. QED
      BY <1>2, <1>6, <2>1, <3>1, <3>2
  <2>2. CASE ~o.set
    <3>1. /\ Run(o.at + i, o.n - i) = Run(o.at + (i + 1), o.n - (i + 1)) \cup {At(c)}
          /\ At(c) \notin Run(o.at + (i + 1), o.n - (i + 1))
      BY <1>2, <1>3, <1>4 DEF Run
    <3>2. Done(c) = Run(o.at + i, o.n - i)
      BY <1>4, <2>2 DEF Done
    <3>3. At(c) \notin Promise!Taken
      BY <1>2, <1>4
    <3>4. QED
      BY <1>2, <1>6, <2>2, <3>1, <3>2, <3>3
  <2>3. QED
    BY <2>1, <2>2
<1>8. /\ map' \subseteq Units /\ off' \in [Preempted -> Nat]
      /\ pc' \in [Preempted -> {"idle", "search", "load", "store"}]
  <2>1. map' \subseteq Units
    BY <1>1, <1>4, <1>6 DEF TypeOK
  <2>2. QED
    BY <1>1, <1>3, <2>1 DEF TypeOK
<1>9. CASE i + 1 = o.n /\ o.set
  <2> DEFINE new == Held(c, o.at, o.size)
  <2>1. hdr' = [hdr EXCEPT ![o.at] = o.size] /\ blocks' = blocks \cup {new}
    BY <1>9 DEF Store
  <2>2. /\ Extent(new) = run /\ new.at = o.at /\ new.size = o.size /\ new.by = c
        /\ o.at \in run /\ o.at \in Units /\ run = Run(o.at, i + 1) /\ o.size \in Sizes
    <3>1. Extent(new) = run
      BY <1>2, <1>9 DEF Extent, Held
    <3>2. o.at \in run
      BY <1>2, <1>3 DEF Run
    <3>3. QED
      BY <1>2, <1>9, <3>1, <3>2 DEF Held
  <2>3. new \in [by : Callers, at : Units, size : Sizes]
    BY <2>2 DEF Held, Callers
  <2>4. TypeOK'
    BY <1>1, <1>3, <1>8, <2>1, <2>3 DEF TypeOK
  <2>5. \A d \in blocks : /\ Extent(d) \subseteq Units /\ Extent(d) \cap run = {}
                          /\ d.at # o.at /\ d.at \in Units /\ hdr[d.at] = d.size
    <3> TAKE d \in blocks
    <3>1. d.size \in 0 .. WordSize - ALLOC_ALIGNMENT /\ d.at \in Units
      BY <1>1, HeapAssumption DEF TypeOK
    <3>2. d.at \in Extent(d)
      BY <3>1, Rounding, MapCoversHeap DEF Extent, Run, Units
    <3>3. Extent(d) \subseteq Promise!Taken
      BY TakenIs
    <3>4. QED
      BY <1>2, <2>2, <3>1, <3>2, <3>3 DEF BitInv, Disjoint
  <2> HIDE DEF new
  <2>6. Disjoint'
    <3>1. \A d, e \in blocks : d # e => Extent(d) \cap Extent(e) = {}
      BY DEF BitInv, Disjoint
    <3>2. Extent(new) \subseteq Units
      BY <1>2, <2>2
    <3>3. QED
      BY <2>1, <2>2, <2>5, <3>1, <3>2 DEF Disjoint, Extent
  <2>7. \A d \in blocks' : hdr'[d.at] = d.size
    BY <1>1, <2>1, <2>2, <2>5 DEF TypeOK
  <2>8. map' = Promise!Taken'
    BY <1>7, <1>9, <2>1, <2>2, TakenIs
  <2>9. BitInv(c)'
    BY <1>5, <1>9, <2>4, <2>6, <2>7, <2>8 DEF BitInv
  <2>10. Promise!IsGap(o.at, o.size)
    BY <1>2, <1>9 DEF Promise!IsGap, Promise!Extent, Run
  <2>11. Promise!Alloc(c, o.size)
    BY <1>1, <2>1, <2>2, <2>10 DEF Promise!Alloc, Held, new
  <2>12. Promise!Next
    BY <2>2, <2>11 DEF Promise!Next, Callers
  <2>13. QED
    BY <2>9, <2>12
<1>10. CASE ~(i + 1 = o.n /\ o.set)
  <2>1. UNCHANGED <<hdr, blocks, panicked>>
    BY <1>1, <1>10 DEF Store
  <2>2. TypeOK'
    BY <1>1, <1>8, <2>1 DEF TypeOK
  <2>3. Promise!Taken' = Promise!Taken
    BY <2>1, BlocksKeep
  <2>4. CASE i + 1 = o.n
    <3>1. Run(o.at + (i + 1), o.n - (i + 1)) = {}
      BY <1>3, <2>4 DEF Run
    <3>2. map' = Promise!Taken'
      BY <1>7, <1>10, <2>3, <2>4, <3>1
    <3>3. QED
      BY <1>5, <2>1, <2>2, <2>4, <3>2, BlocksKeep DEF BitInv
  <2>5. CASE i + 1 # o.n
    <3>1. i + 1 < o.n
      BY <1>2, <1>3, <2>5
    <3>2. Done(c)' = IF o.set THEN Run(o.at, i + 1)
                     ELSE Run(o.at + (i + 1), o.n - (i + 1))
      BY <1>4, <1>5 DEF Done
    <3>3. Writing(c)'
      BY <1>2, <1>5, <1>7, <2>3, <3>1, <3>2 DEF Writing
    <3>4. QED
      BY <1>5, <2>1, <2>2, <2>5, <3>3, BlocksKeep DEF BitInv
  <2>6. QED
    BY <2>1, <2>4, <2>5
<1>11. QED
  BY <1>9, <1>10

LEMMA BitStep ==
  ASSUME NEW c, Preempted = {c}, Atomic = {},
         \A size \in Sizes : size % ALLOC_ALIGNMENT = 0,
         BitInv(c), [Next]_vars
  PROVE  BitInv(c)' /\ [Promise!Next]_<<blocks, panicked>>
<1>1. CASE UNCHANGED vars
  <2>1. Promise!Taken' = Promise!Taken
    BY <1>1, TakenIs DEF vars
  <2>2. QED
    BY <1>1, <2>1, BlocksKeep
       DEF vars, BitInv, TypeOK, Searching, Writing, Done, At, IsFree, ByteOf
<1>2. CASE Next
  <2>1. panicked = {} /\ PreemptedStep(c)
    BY <1>2, OneCaller
  <2>2. ASSUME NEW size \in Sizes, MallocBegin(c, size)
        PROVE  BitInv(c)' /\ [Promise!Next]_<<blocks, panicked>>
    BY <2>2, MallocBegins
  <2>3. ASSUME NEW b \in blocks, FreeBegin(c, b)
        PROVE  BitInv(c)' /\ [Promise!Next]_<<blocks, panicked>>
    <3>1. BitInv(c)' /\ UNCHANGED panicked /\ blocks' = blocks \ {b}
      BY <2>3, FreeBegins
    <3>2. Promise!Next
      BY <2>1, <3>1 DEF Promise!Next, Promise!Free
    <3>3. QED
      BY <3>1, <3>2
  <2>4. QED
    BY <2>1, <2>2, <2>3, SearchKeeps, SearchGivesUp, LoadKeeps, StoreKeeps
       DEF PreemptedStep
<1>3. QED
  BY <1>1, <1>2

LEMMA BitInit ==
  ASSUME NEW c, Preempted = {c}, Init
  PROVE  BitInv(c) /\ Promise!Init
<1>1. TypeOK /\ Disjoint
  BY InitHeap DEF HeapInv
<1>2. map = Promise!Taken /\ blocks = {} /\ pc[c] = "idle" /\ Promise!Init
  BY TakenIs DEF Init, Promise!Init
<1>3. QED
  BY <1>1, <1>2 DEF BitInv

(* The code that runs with interrupts on (wm2/wm.c), when it is the only   *)
(* one that allocates: the search bit by bit and the loads and stores of   *)
(* the bitmap's bytes implement the abstract allocator, for every heap.    *)
THEOREM BitwiseIsAllocator ==
  ASSUME NEW c, Preempted = {c}, Atomic = {},
         \A size \in Sizes : size % ALLOC_ALIGNMENT = 0
  PROVE  Spec => IsAllocator
<1>1. Init => BitInv(c) /\ Promise!Init
  BY BitInit
<1>2. BitInv(c) /\ [Next]_vars
        => BitInv(c)' /\ [Promise!Next]_<<blocks, panicked>>
  BY BitStep
<1>3. QED
  BY <1>1, <1>2, PTL DEF Spec, IsAllocator, Promise!Spec

(* Whenever that caller is between two calls, every unit that is marked    *)
(* belongs to a block it holds: m_map marks and u_map clears the same.     *)
THEOREM NothingIsLeaked ==
  ASSUME NEW c, Preempted = {c}, Atomic = {},
         \A size \in Sizes : size % ALLOC_ALIGNMENT = 0
  PROVE  Spec => []NothingLeaked
<1>1. Init => BitInv(c)
  BY BitInit
<1>2. BitInv(c) /\ [Next]_vars => BitInv(c)'
  BY BitStep
<1>3. BitInv(c) => NothingLeaked
  BY TakenIs DEF BitInv, NothingLeaked
<1>4. QED
  BY <1>1, <1>2, <1>3, PTL DEF Spec
=============================================================================
