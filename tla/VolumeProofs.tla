---------------------------- MODULE VolumeProofs ----------------------------
(***************************************************************************)
(* Proofs about Volume for every number of clusters, directories, slots,   *)
(* names, writes and boots: chains stay apart, files stay whole, and the   *)
(* volume is a Store.                                                      *)
(*                                                                         *)
(* The invariant rests on what a cluster holds.  A cluster in use is never *)
(* freed, so it is written at most once, and <<id, k>> in it says for good *)
(* that it is the k-th of the write id.                                    *)
(***************************************************************************)
EXTENDS Volume, FiniteSetTheorems, WellFoundedInduction, TLAPS

-----------------------------------------------------------------------------
(* The inductive invariant.                                                *)

Writing  == pc \notin {"boot", "idle"}
Entry(p) == dir[p[1]][p[2]]

(* A cluster not in use was never written, nor were the directories'.      *)
Untouched ==
  /\ \A c \in Clusters : fat[c] = 0 => data[c] = <<>>
  /\ \A d \in Dirs : fat[Homes[d]] = EOC /\ data[Homes[d]] = <<>>

(* Nothing that is led to is free, nor led to twice, nor a directory.      *)
Links ==
  \A c \in Clusters : fat[c] \in Clusters =>
    /\ fat[fat[c]] # 0
    /\ \A b \in Clusters \ {c} : fat[b] # fat[c]
    /\ \A p \in Used : First(p) # fat[c]
    /\ \A d \in Dirs : Homes[d] # fat[c]

(* One walk leads through both tables, and no two entries are of one write. *)
FileOn(e, at) ==
  /\ Walk(fat, e.first, e.size, at) /\ Walk(copy, e.first, e.size, at)
  /\ Holds(e.id, e.size, at)

Files ==
  \A p \in Used :
    /\ \E at \in [1 .. Entry(p).size -> Clusters] : FileOn(Entry(p), at)
    /\ Entry(p).id <= writes /\ (Writing => Entry(p).id < writes)
    /\ \A q \in Used \ {p} : Entry(q).id # Entry(p).id

(* What the write in progress has so far: n clusters that hold its parts   *)
(* and lead to one another, the last one aside.                            *)
Begun(at) ==
  /\ job.written > 0 => at[1] = job.first /\ at[job.written] = job.prev
  /\ Holds(writes, job.written, at)
  /\ \A k \in 1 .. job.written - 1 : fat[at[k]] = at[k + 1] /\ copy[at[k]] = at[k + 1]

Counted ==
  /\ IF pc = "enter" THEN job.written = job.size ELSE job.written < job.size
  /\ job.size > 0
  /\ job.prev = 0 <=> job.written = 0
  /\ pc \in {"link", "mirror_link"} => job.prev # 0
  /\ job.first = 0 <=> (job.written = 0 /\ pc = "allocate")

(* The last cluster written ends the chain until it is linked, in the      *)
(* second table until that is written too.                                 *)
LastLinked ==
  LET linked == pc \in {"mirror_link", "data"} IN
  job.prev # 0 =>
    /\ fat[job.prev] = IF linked THEN job.cluster ELSE EOC
    /\ pc # "mirror_link" => copy[job.prev] = IF linked THEN job.cluster ELSE EOC

(* The cluster just taken is nobody else's. *)
Taken ==
  pc \in {"mirror", "link", "mirror_link", "data"} =>
    /\ job.cluster \in Clusters
    /\ fat[job.cluster] = EOC /\ (pc # "mirror" => copy[job.cluster] = EOC)
    /\ data[job.cluster] = <<>>
    /\ job.prev = 0 => job.first = job.cluster
    /\ pc \in {"mirror", "link"} => \A c \in Clusters : fat[c] # job.cluster
    /\ \A d \in Dirs : Homes[d] # job.cluster

Job ==
  Writing =>
    /\ Counted /\ LastLinked /\ Taken
    /\ \E at \in [1 .. job.written -> Clusters] : Begun(at)
    /\ job.first # 0 => \A c \in Clusters : fat[c] # job.first

(* Behind a slot that was never used no slot was. *)
Packed ==
  \A d \in Dirs : \A i, j \in 1 .. Slots :
    i < j /\ dir[d][i].kind = "free" => dir[d][j].kind = "free"

VolumeInv == VolumeTypeOK /\ Untouched /\ Links /\ Files /\ Job /\ Packed

-----------------------------------------------------------------------------
(* Facts about the operators.                                              *)

(* Every directory has a cluster of its own, below a cluster that is left. *)
LEMMA HomesFacts ==
  /\ Cardinality(Dirs) \in Nat
  /\ Homes \in [Dirs -> 2 .. 1 + Cardinality(Dirs)]
  /\ \A d, e \in Dirs : d # e => Homes[d] # Homes[e]
<1> DEFINE n == Cardinality(Dirs)
           Good(h) == \A d, e \in Dirs : d # e => h[d] # h[e]
<1>1. n \in Nat /\ ExistsBijection(1 .. n, Dirs)
  BY FS_CardinalityType, VolumeAssumption
<1>2. PICK g \in [1 .. n -> Dirs] : \A d \in Dirs : \E i \in 1 .. n : g[i] = d
  BY <1>1 DEF ExistsBijection, Bijection, Injection, Surjection
<1> DEFINE h == [d \in Dirs |-> 1 + CHOOSE i \in 1 .. n : g[i] = d]
<1>3. ASSUME NEW d \in Dirs
      PROVE  \E i \in 1 .. n : g[i] = d /\ h[d] = 1 + i
  <2>1. \E i \in 1 .. n : g[i] = d
    BY <1>2
  <2>2. LET i == CHOOSE i \in 1 .. n : g[i] = d IN i \in 1 .. n /\ g[i] = d
    BY <2>1
  <2>3. QED
    BY <2>2
<1> HIDE DEF h
<1>4. h \in [Dirs -> 2 .. 1 + n]
  <2>1. \A d \in Dirs : h[d] \in 2 .. 1 + n
    BY <1>1, <1>3
  <2>2. QED
    BY <2>1 DEF h
<1>5. Good(h)
  BY <1>1, <1>3
<1>6. \E x \in [Dirs -> 2 .. 1 + n] : Good(x)
  BY <1>4, <1>5
<1>7. Homes = CHOOSE x \in [Dirs -> 2 .. 1 + n] : Good(x)
  BY DEF Homes
<1>8. Homes \in [Dirs -> 2 .. 1 + n] /\ Good(Homes)
  BY <1>6, <1>7
<1>9. QED
  BY <1>1, <1>8

LEMMA ClustersFacts ==
  /\ LastCluster \in Nat
  /\ Clusters \subseteq Nat /\ 0 \notin Clusters /\ EOC \notin Clusters /\ EOC # 0
  /\ 2 + Cardinality(Dirs) \in Clusters
  /\ \A d \in Dirs : Homes[d] \in Clusters /\ Homes[d] # 2 + Cardinality(Dirs)
BY HomesFacts, VolumeAssumption DEF Clusters, EOC

(* The least element of a set of numbers that is not empty.                *)
LEMMA LeastFacts ==
  ASSUME NEW S \in SUBSET Nat, S # {}
  PROVE  Least(S) \in S /\ \A y \in S : Least(S) <= y
<1>1. \E x \in S : \A y \in S : x <= y
  <2>1. IsWellFoundedOn(OpToRel(<, Nat), Nat)
    BY NatLessThanWellFounded
  <2>2. PICK x \in S : \A y \in S : ~(<<y, x>> \in OpToRel(<, Nat))
    BY <2>1, WFMin
  <2>3. \A y \in S : ~(y < x)
    BY <2>2 DEF OpToRel
  <2>4. QED
    BY <2>3
<1>2. QED
  BY <1>1 DEF Least

(* What a walk has passed is known by what the cluster holds: not nothing, *)
(* and no two places of no two writes are one cluster.                     *)
LEMMA TupleFacts ==
  \A w, k \in Int : <<w, k>> # <<>>
OBVIOUS

LEMMA SlotFacts ==
  ASSUME VolumeTypeOK, NEW d \in Dirs, NEW i \in 1 .. Slots
  PROVE  /\ dir[d][i] \in Entries \cup {Free, Erased}
         /\ dir[d][i].kind = "file" <=> dir[d][i] \in Entries
         /\ <<d, i>> \in Places
         /\ dir[d][i] \in Entries <=> <<d, i>> \in Used
         /\ Entry(<<d, i>>) = dir[d][i] /\ First(<<d, i>>) = dir[d][i].first
<1>1. dir[d][i] \in Entries \cup {Free, Erased}
  <2>1. dir \in [Dirs -> [1 .. Slots -> Entries \cup {Free, Erased}]]
    BY DEF VolumeTypeOK
  <2>2. QED
    BY <2>1
<1>2. dir[d][i].kind = "file" <=> dir[d][i] \in Entries
  BY <1>1 DEF Entries, Free, Erased
<1>3. <<d, i>> \in Places
  BY DEF Places
<1>4. QED
  BY <1>1, <1>2, <1>3 DEF Used, Entry, First

LEMMA UsedFacts ==
  ASSUME VolumeTypeOK, NEW p \in Used
  PROVE  /\ Entry(p) \in Entries /\ First(p) = Entry(p).first
         /\ Entry(p).first \in Clusters /\ Entry(p).size \in 1 .. MaxSize
         /\ Entry(p).id \in 0 .. MaxWrites /\ Entry(p).name \in Names
         /\ p \in Places /\ p = <<p[1], p[2]>> /\ p[1] \in Dirs /\ p[2] \in 1 .. Slots
<1>1. p \in Places /\ p = <<p[1], p[2]>> /\ p[1] \in Dirs /\ p[2] \in 1 .. Slots
  BY DEF Used, Places
<1>2. Entry(p) \in Entries /\ First(p) = Entry(p).first
  BY <1>1, SlotFacts DEF Entry, First
<1>3. QED
  BY <1>1, <1>2 DEF Entries

LEMMA FreeClusterFacts ==
  /\ FatFindFreeCluster # 0 => FatFindFreeCluster \in Clusters /\ fat[FatFindFreeCluster] = 0
  /\ FatFindFreeCluster = 0 => \A c \in Clusters : fat[c] # 0
<1> DEFINE unused == {c \in Clusters : fat[c] = 0}
<1>1. CASE unused = {}
  BY <1>1 DEF FatFindFreeCluster
<1>2. CASE unused # {}
  <2>1. Least(unused) \in unused
    BY <1>2, ClustersFacts, LeastFacts
  <2>2. QED
    BY <1>2, <2>1, ClustersFacts DEF FatFindFreeCluster
<1>3. QED
  BY <1>1, <1>2

LEMMA FreeEntryFacts ==
  ASSUME VolumeTypeOK, NEW d \in Dirs, NEW last \in 1 .. Slots, FatFindFreeEntry(d, last) # 0
  PROVE  /\ FatFindFreeEntry(d, last) \in 1 .. Slots
         /\ dir[d][FatFindFreeEntry(d, last)] \in {Free, Erased}
         /\ \A j \in 1 .. FatFindFreeEntry(d, last) - 1 : dir[d][j] \in Entries
<1> DEFINE usable == {i \in 1 .. last : dir[d][i].kind # "file"}
<1>1. usable # {} /\ FatFindFreeEntry(d, last) = Least(usable)
  BY DEF FatFindFreeEntry
<1>2. usable \in SUBSET Nat
  OBVIOUS
<1>3. Least(usable) \in usable /\ \A y \in usable : Least(usable) <= y
  BY <1>1, <1>2, LeastFacts
<1>4. last \in 1 .. Slots /\ Slots \in Nat
  BY VolumeAssumption
<1>5. \A i \in 1 .. last : i \in 1 .. Slots
  BY <1>4
<1>6. ASSUME NEW i \in 1 .. last
      PROVE  IF i \in usable THEN dir[d][i] \in {Free, Erased} ELSE dir[d][i] \in Entries
  <2>1. /\ dir[d][i] \in Entries \cup {Free, Erased}
        /\ dir[d][i].kind = "file" <=> dir[d][i] \in Entries
    BY <1>5, SlotFacts
  <2>2. QED
    BY <2>1
<1>7. \A j \in 1 .. Least(usable) - 1 : j \in 1 .. last /\ j \notin usable
  BY <1>3, <1>4
<1> HIDE DEF usable
<1>8. Least(usable) \in 1 .. last
  BY <1>3 DEF usable
<1>9. QED
  BY <1>1, <1>3, <1>5, <1>6, <1>7, <1>8

(* A file's walks stay when its clusters do: the second table may be set   *)
(* to what the first says.                                                 *)
LEMMA FileKept ==
  ASSUME NEW e \in Entries, NEW at \in [1 .. e.size -> Clusters], FileOn(e, at),
         \A c \in Clusters : (\E k \in 1 .. e.size : data[c] = <<e.id, k>>) =>
           fat'[c] = fat[c] /\ copy'[c] \in {fat[c], copy[c]} /\ data'[c] = data[c]
  PROVE  FileOn(e, at)'
<1>1. \A k \in 1 .. e.size : at[k] \in Clusters /\ data[at[k]] = <<e.id, k>>
  BY DEF FileOn, Holds
<1>2. \A k \in 1 .. e.size :
        /\ fat'[at[k]] = fat[at[k]] /\ copy'[at[k]] \in {fat[at[k]], copy[at[k]]}
        /\ data'[at[k]] = data[at[k]]
  BY <1>1
<1>3. e.size \in Nat /\ \A k \in 1 .. e.size : copy[at[k]] = fat[at[k]]
  BY DEF FileOn, Walk, Entries
<1>4. Walk(fat, e.first, e.size, at)' /\ Walk(copy, e.first, e.size, at)'
  BY <1>2, <1>3 DEF FileOn, Walk
<1>5. Holds(e.id, e.size, at)'
  BY <1>1, <1>2 DEF Holds
<1>6. QED
  BY <1>4, <1>5 DEF FileOn

-----------------------------------------------------------------------------
(* Types.                                                                  *)

JobType ==
  [dir : Dirs, name : Names, slots : {FirstSlots, Slots},
   size : 0 .. MaxSize, written : 0 .. MaxSize, first : {0} \cup Clusters,
   prev : {0} \cup Clusters, cluster : {0} \cup Clusters]

LEMMA JobTyped ==
  ASSUME VolumeTypeOK
  PROVE  /\ job \in JobType
         /\ job.dir \in Dirs /\ job.name \in Names /\ job.slots \in 1 .. Slots
         /\ job.size \in 0 .. MaxSize /\ job.written \in 0 .. MaxSize
         /\ {job.first, job.prev, job.cluster} \subseteq {0} \cup Clusters
<1>1. job \in JobType
  BY DEF VolumeTypeOK, JobType
<1>2. job.slots \in {FirstSlots, Slots} /\ {FirstSlots, Slots} \subseteq 1 .. Slots
  BY <1>1, VolumeAssumption DEF JobType
<1>3. QED
  BY <1>1, <1>2 DEF JobType

LEMMA IdleTyped == Idle \in JobType
BY VolumeAssumption DEF Idle, JobType

LEMMA InitTyped == Init => VolumeTypeOK
<1> SUFFICES ASSUME Init PROVE VolumeTypeOK
  OBVIOUS
<1> DEFINE member == 2 + Cardinality(Dirs)
<1> USE ClustersFacts
<1>1. fat \in [Clusters -> Values] /\ copy \in [Clusters -> Values]
  BY DEF Init, Values
<1>2. MaxSize \in Nat /\ MaxSize >= 1 /\ MaxWrites \in Nat
  BY VolumeAssumption
<1>3. FatCreateEntry(TEST, member, 1, 0) \in Entries
  BY <1>2, VolumeAssumption DEF FatCreateEntry, Entries
<1>4. dir \in [Dirs -> [1 .. Slots -> Entries \cup {Free, Erased}]]
  BY <1>3 DEF Init
<1>5. data \in [Clusters -> {<<>>} \cup ((0 .. MaxWrites) \X (1 .. MaxSize))]
  <2>1. <<0, 1>> \in (0 .. MaxWrites) \X (1 .. MaxSize)
    BY <1>2
  <2>2. QED
    BY <2>1 DEF Init
<1>6. pc = "boot" /\ job \in JobType /\ result = "ok" /\ writes \in 0 .. MaxWrites /\ boots \in Nat
  BY <1>2, IdleTyped DEF Init
<1>7. QED
  BY <1>1, <1>4, <1>5, <1>6 DEF VolumeTypeOK, JobType

LEMMA StepTyped == VolumeInv /\ [Next]_vars => VolumeTypeOK'
<1> SUFFICES ASSUME VolumeInv, [Next]_vars PROVE VolumeTypeOK'
  OBVIOUS
<1>0. VolumeTypeOK
  BY DEF VolumeInv
<1> USE <1>0, ClustersFacts, JobTyped, IdleTyped
<1>T. /\ fat \in [Clusters -> Values] /\ copy \in [Clusters -> Values]
      /\ dir \in [Dirs -> [1 .. Slots -> Entries \cup {Free, Erased}]]
      /\ data \in [Clusters -> {<<>>} \cup ((0 .. MaxWrites) \X (1 .. MaxSize))]
      /\ pc \in {"boot", "idle", "allocate", "mirror", "link", "mirror_link", "data", "enter"}
      /\ result \in {"ok", "no_space", "dir_full"}
      /\ writes \in 0 .. MaxWrites /\ boots \in Nat /\ MaxWrites \in Nat
      /\ MaxSize \in Nat \ {0}
  BY VolumeAssumption DEF VolumeTypeOK
<1>1. ASSUME FatTest \/ \E d \in Dirs, name \in Names, size \in 1 .. MaxSize : IDEWriteFile(d, name, size)
      PROVE  VolumeTypeOK'
  <2>1. PICK d \in Dirs, name \in Names, slots \in {FirstSlots, Slots}, size \in 1 .. MaxSize :
          writes < MaxWrites /\ Begin(d, name, slots, size)
    <3>1. CASE FatTest
      BY <1>T, <3>1, VolumeAssumption DEF FatTest
    <3>2. CASE \E d \in Dirs, name \in Names, size \in 1 .. MaxSize : IDEWriteFile(d, name, size)
      BY <3>2 DEF IDEWriteFile
    <3>3. QED
      BY <1>1, <3>1, <3>2
  <2>2. job' \in JobType
    <3>1. job' = [Idle EXCEPT !.dir = d, !.name = name, !.slots = slots, !.size = size]
      BY <2>1 DEF Begin
    <3>2. size \in 0 .. MaxSize
      BY <1>T
    <3>3. QED
      BY <3>1, <3>2 DEF JobType
  <2>3. writes' \in 0 .. MaxWrites
    BY <1>T, <2>1 DEF Begin
  <2>4. QED
    BY <1>T, <2>1, <2>2, <2>3 DEF Begin, disk, VolumeTypeOK, JobType
<1>2. CASE IDEWriteNothing
  BY <1>T, <1>2 DEF IDEWriteNothing, disk, VolumeTypeOK, JobType
<1>3. CASE Allocate
  <2>1. FatFindFreeCluster \in Clusters
    BY <1>3, FreeClusterFacts DEF Allocate
  <2>2. fat' \in [Clusters -> Values]
    BY <1>T, <1>3 DEF Allocate, Values
  <2>3. job' \in JobType
    BY <1>3, <2>1 DEF Allocate, JobType
  <2>4. QED
    BY <1>T, <1>3, <2>2, <2>3 DEF Allocate, VolumeTypeOK, JobType
<1>4. CASE NoSpace
  BY <1>T, <1>4 DEF NoSpace, Stop, disk, VolumeTypeOK, JobType
<1>5. CASE Mirror \/ MirrorLink
  <2>1. copy' \in [Clusters -> Values]
    BY <1>T, <1>5 DEF Mirror, MirrorLink, Mirrored
  <2>2. QED
    BY <1>T, <1>5, <2>1 DEF Mirror, MirrorLink, VolumeTypeOK, JobType
<1>6. CASE Link
  <2>1. fat' \in [Clusters -> Values]
    BY <1>T, <1>6 DEF Link, Values
  <2>2. QED
    BY <1>T, <1>6, <2>1 DEF Link, VolumeTypeOK, JobType
<1>7. CASE WriteData
  <2>1. job.written + 1 \in 1 .. MaxSize
    BY <1>T, <1>7 DEF VolumeInv, Job, Writing, Counted, WriteData
  <2>2. <<writes, job.written + 1>> \in (0 .. MaxWrites) \X (1 .. MaxSize)
    BY <1>T, <2>1
  <2>3. data' \in [Clusters -> {<<>>} \cup ((0 .. MaxWrites) \X (1 .. MaxSize))]
    BY <1>T, <1>7, <2>2 DEF WriteData
  <2>4. job' \in JobType
    <3>1. job' = [job EXCEPT !.written = @ + 1, !.prev = job.cluster]
      BY <1>7 DEF WriteData
    <3>2. job.written + 1 \in 0 .. MaxSize
      BY <1>T, <2>1
    <3>3. QED
      BY <3>1, <3>2 DEF JobType
  <2>5. QED
    BY <1>T, <1>7, <2>3, <2>4 DEF WriteData, VolumeTypeOK, JobType
<1>8. CASE Enter
  <2> DEFINE i     == FatFindFreeEntry(job.dir, job.slots)
             entry == FatCreateEntry(job.name, job.first, job.size, writes)
  <2>1. job.first \in Clusters /\ job.size \in 1 .. MaxSize
    BY <1>T, <1>8 DEF VolumeInv, Job, Writing, Counted, Enter
  <2>2. entry \in Entries
    BY <1>T, <2>1 DEF FatCreateEntry, Entries
  <2>3. dir' = [dir EXCEPT ![job.dir][i] = entry]
    BY <1>8 DEF Enter
  <2>4. dir' \in [Dirs -> [1 .. Slots -> Entries \cup {Free, Erased}]]
    BY <1>T, <2>2, <2>3
  <2>5. QED
    BY <1>T, <1>8, <2>4 DEF Enter, Stop, VolumeTypeOK, JobType
<1>9. CASE DirFull
  BY <1>T, <1>9 DEF DirFull, Stop, disk, VolumeTypeOK, JobType
<1>10. CASE PowerOff
  BY <1>T, <1>10 DEF PowerOff, disk, VolumeTypeOK, JobType
<1>11. CASE UNCHANGED vars
  BY <1>T, <1>11 DEF vars, VolumeTypeOK, JobType
<1>12. QED
  BY <1>1, <1>2, <1>3, <1>4, <1>5, <1>6, <1>7, <1>8, <1>9, <1>10, <1>11 DEF Next, Step

-----------------------------------------------------------------------------
(* What the invariant says of the clusters of files and of the write.      *)

LEMMA FileFacts ==
  ASSUME VolumeInv, NEW p \in Used
  PROVE  /\ data[First(p)] = <<Entry(p).id, 1>>
         /\ fat[First(p)] \in Clusters \cup {EOC}
         /\ \A d \in Dirs : First(p) # Homes[d]
<1> VolumeTypeOK
  BY DEF VolumeInv
<1>1. PICK at \in [1 .. Entry(p).size -> Clusters] : FileOn(Entry(p), at)
  BY DEF VolumeInv, Files
<1>2. Entry(p).size \in Nat /\ 1 \in 1 .. Entry(p).size /\ First(p) = Entry(p).first
      /\ Entry(p).id \in Nat
  BY UsedFacts
<1>3. First(p) = at[1]
  BY <1>1, <1>2 DEF FileOn, Walk
<1>4. data[at[1]] = <<Entry(p).id, 1>>
  BY <1>1, <1>2 DEF FileOn, Holds
<1>5. fat[at[1]] \in Clusters \cup {EOC}
  BY <1>1, <1>2 DEF FileOn, Walk
<1>6. data[at[1]] # <<>>
  BY <1>2, <1>4, TupleFacts
<1>7. QED
  BY <1>3, <1>4, <1>5, <1>6 DEF VolumeInv, Untouched

LEMMA JobFacts ==
  ASSUME VolumeInv, Writing
  PROVE  /\ Counted /\ LastLinked /\ Taken
         /\ job.written \in Nat /\ job.size \in 1 .. MaxSize /\ writes \in Nat
         /\ job.prev # 0 =>
              /\ job.prev \in Clusters /\ job.first \in Clusters /\ job.written > 0
              /\ data[job.prev] = <<writes, job.written>> /\ data[job.prev] # <<>>
              /\ data[job.first] = <<writes, 1>> /\ data[job.first] # <<>>
<1> VolumeTypeOK /\ Job
  BY DEF VolumeInv
<1>1. /\ Counted /\ LastLinked /\ Taken
      /\ \E at \in [1 .. job.written -> Clusters] : Begun(at)
  BY DEF Job
<1>2. /\ job.written \in Nat /\ job.size \in Nat /\ MaxSize \in Nat
      /\ job.size \in 0 .. MaxSize
      /\ {job.prev, job.first} \subseteq {0} \cup Clusters
  BY JobTyped, VolumeAssumption
<1>3. writes \in Nat
  BY VolumeAssumption DEF VolumeTypeOK
<1>4. job.size \in 1 .. MaxSize
  BY <1>1, <1>2 DEF Counted
<1>5. ASSUME job.prev # 0
      PROVE  /\ job.prev \in Clusters /\ job.first \in Clusters /\ job.written > 0
             /\ data[job.prev] = <<writes, job.written>> /\ data[job.first] = <<writes, 1>>
  <2>1. PICK at \in [1 .. job.written -> Clusters] : Begun(at)
    BY <1>1
  <2>2. job.written > 0 /\ 1 \in 1 .. job.written /\ job.written \in 1 .. job.written
    BY <1>1, <1>2, <1>5 DEF Counted
  <2>3. at[1] = job.first /\ at[job.written] = job.prev
    BY <2>1, <2>2 DEF Begun
  <2>4. QED
    BY <2>1, <2>2, <2>3 DEF Begun, Holds
<1>6. \A k \in Int : <<writes, k>> # <<>>
  BY <1>3, TupleFacts
<1>7. QED
  BY <1>1, <1>2, <1>3, <1>4, <1>5, <1>6

LEMMA BegunFacts ==
  ASSUME VolumeInv, Writing, NEW at \in [1 .. job.written -> Clusters], Begun(at)
  PROVE  /\ \A k \in 1 .. job.written : at[k] \in Clusters /\ data[at[k]] = <<writes, k>>
         /\ \A k \in 1 .. job.written - 1 :
              /\ at[k] \in Clusters /\ data[at[k]] = <<writes, k>> /\ data[at[k]] # <<>>
              /\ at[k + 1] \in Clusters /\ fat[at[k]] = at[k + 1] /\ copy[at[k]] = at[k + 1]
<1>1. job.written \in Nat /\ writes \in Nat
  BY JobFacts
<1>2. \A k \in 1 .. job.written : at[k] \in Clusters /\ data[at[k]] = <<writes, k>>
  BY DEF Begun, Holds
<1>3. \A k \in 1 .. job.written - 1 : k \in 1 .. job.written /\ k + 1 \in 1 .. job.written
  BY <1>1
<1>4. \A k \in 1 .. job.written : <<writes, k>> # <<>>
  BY <1>1, TupleFacts
<1>5. QED
  BY <1>2, <1>3, <1>4 DEF Begun

LEMMA DirKept ==
  ASSUME UNCHANGED dir
  PROVE  Used' = Used /\ \A p : Entry(p)' = Entry(p) /\ First(p)' = First(p)
BY DEF Used, Places, Entry, First

(* While a file is written the others keep their walks, if nothing is done *)
(* to clusters that hold anything, the write's own aside.                  *)
LEMMA FilesKept ==
  ASSUME VolumeInv, Writing, UNCHANGED <<dir, writes>>,
         \A c \in Clusters : data[c] # <<>> /\ (\A k \in Int : data[c] # <<writes, k>>) =>
           fat'[c] = fat[c] /\ copy'[c] \in {fat[c], copy[c]} /\ data'[c] = data[c]
  PROVE  Files'
<1> VolumeTypeOK /\ Files
  BY DEF VolumeInv
<1>1. writes \in Nat
  BY VolumeAssumption DEF VolumeTypeOK
<1>2. ASSUME NEW p \in Used, NEW e \in Entries, e = Entry(p)
      PROVE  \E at \in [1 .. e.size -> Clusters] : FileOn(e, at)'
  <2>1. e.id \in Nat /\ e.size \in Nat /\ e.id < writes
    BY <1>2, UsedFacts DEF Files
  <2>2. PICK at \in [1 .. e.size -> Clusters] : FileOn(e, at)
    BY <1>2 DEF Files
  <2>3. ASSUME NEW c \in Clusters, \E k \in 1 .. e.size : data[c] = <<e.id, k>>
        PROVE  fat'[c] = fat[c] /\ copy'[c] \in {fat[c], copy[c]} /\ data'[c] = data[c]
    <3>1. data[c] # <<>> /\ \A j \in Int : data[c] # <<writes, j>>
      BY <1>1, <2>1, <2>3, TupleFacts
    <3>2. QED
      BY <3>1
  <2>4. FileOn(e, at)'
    BY <2>2, <2>3, FileKept
  <2>5. QED
    BY <2>4
<1>3. Used' = Used /\ \A p : Entry(p)' = Entry(p)
  BY DirKept
<1>4. \A p \in Used : Entry(p) \in Entries /\ Entry(p).id < writes /\ Entry(p).id \in Nat
  BY UsedFacts DEF Files
<1>5. ASSUME NEW p \in Used
      PROVE  \E at \in [1 .. Entry(p)'.size -> Clusters] : FileOn(Entry(p), at)'
  <2>1. PICK e \in Entries : e = Entry(p)
    BY <1>4
  <2>2. PICK at \in [1 .. e.size -> Clusters] : FileOn(e, at)'
    BY <1>2, <2>1
  <2>3. e = Entry(p)'
    BY <1>3, <2>1
  <2>4. FileOn(Entry(p), at)'
    BY <2>2, <2>3 DEF FileOn
  <2>5. QED
    BY <2>3, <2>4
<1>6. QED
  BY <1>1, <1>3, <1>4, <1>5 DEF Files

-----------------------------------------------------------------------------
(* Each step keeps the invariant.                                          *)

LEMMA InitInv == Init => VolumeInv
<1> SUFFICES ASSUME Init PROVE VolumeInv
  OBVIOUS
<1> DEFINE member == 2 + Cardinality(Dirs)
           kept   == FatCreateEntry(TEST, member, 1, 0)
<1> USE ClustersFacts, VolumeAssumption
<1>T. VolumeTypeOK
  BY InitTyped
<1>1. PICK old \in BOOLEAN :
        /\ fat = [c \in Clusters |->
                    IF c \in {Homes[d] : d \in Dirs} \/ (old /\ c = member) THEN EOC ELSE 0]
        /\ copy = fat
        /\ dir = [d \in Dirs |-> [i \in 1 .. Slots |->
                    IF ~old \/ d # Root \/ i > 2 THEN Free ELSE IF i = 1 THEN Erased ELSE kept]]
        /\ data = [c \in Clusters |-> IF old /\ c = member THEN <<0, 1>> ELSE <<>>]
  BY DEF Init
<1>2. pc = "boot" /\ writes = 0 /\ ~Writing
  BY DEF Init, Writing
<1>3. \A c \in Clusters : fat[c] \in {0, EOC}
  BY <1>1
<1>4. Untouched
  BY <1>1 DEF Untouched
<1>5. Links
  BY <1>3 DEF Links
<1>6. Packed
  BY <1>1 DEF Packed, Free, Erased, kept, FatCreateEntry
<1>7. ASSUME NEW p \in Used
      PROVE  old /\ p = <<Root, 2>> /\ Entry(p) = kept
  <2>1. /\ p[1] \in Dirs /\ p[2] \in 1 .. Slots /\ p = <<p[1], p[2]>>
        /\ Entry(p) = dir[p[1]][p[2]] /\ Entry(p).kind = "file"
    BY DEF Used, Places, Entry
  <2>2. dir[p[1]][p[2]] \notin {Free, Erased}
    BY <2>1 DEF Free, Erased
  <2>3. old /\ p[1] = Root /\ p[2] = 2 /\ dir[p[1]][p[2]] = kept
    BY <1>1, <2>1, <2>2
  <2>4. QED
    BY <2>1, <2>3
<1>8. Files
  <2> SUFFICES ASSUME NEW p \in Used
               PROVE  /\ \E at \in [1 .. Entry(p).size -> Clusters] : FileOn(Entry(p), at)
                      /\ Entry(p).id = 0 /\ Used \ {p} = {}
    BY <1>2 DEF Files
  <2>1. old /\ p = <<Root, 2>> /\ Entry(p) = kept /\ Used \ {p} = {}
    BY <1>7
  <2>2. kept.size = 1 /\ kept.id = 0 /\ kept.first = member
    BY DEF FatCreateEntry
  <2> DEFINE at == [k \in 1 .. 1 |-> member]
  <2>3. at \in [1 .. 1 -> Clusters] /\ at[1] = member
    OBVIOUS
  <2>4. fat[member] = EOC /\ data[member] = <<0, 1>>
    BY <1>1, <2>1
  <2> HIDE DEF at, kept
  <2>5. FileOn(kept, at)
    BY <1>1, <2>2, <2>3, <2>4 DEF FileOn, Walk, Holds
  <2>6. 1 .. kept.size = 1 .. 1
    BY <2>2
  <2>7. QED
    BY <2>1, <2>2, <2>3, <2>5, <2>6
<1>9. Job
  BY <1>2 DEF Job
<1>10. QED
  BY <1>T, <1>4, <1>5, <1>6, <1>8, <1>9 DEF VolumeInv

(* A step that leaves the disk alone: a write begins, fails, or is lost.   *)
LEMMA DiskKept ==
  ASSUME VolumeInv, VolumeTypeOK', UNCHANGED disk,
         \/ ~Writing' /\ UNCHANGED writes
         \/ \E d \in Dirs, name \in Names, slots, size \in Int :
              size > 0 /\ Begin(d, name, slots, size)
  PROVE  VolumeInv'
<1>1. /\ Used' = Used /\ \A p : Entry(p)' = Entry(p) /\ First(p)' = First(p)
      /\ UNCHANGED <<fat, copy, dir, data>>
  BY DirKept DEF disk
<1>2. Untouched' /\ Links' /\ Packed'
  <2>1. Untouched'
    BY <1>1 DEF VolumeInv, Untouched
  <2>2. Links'
    BY <1>1 DEF VolumeInv, Links
  <2>3. Packed'
    BY <1>1 DEF VolumeInv, Packed
  <2>4. QED
    BY <2>1, <2>2, <2>3
<1>3. writes \in Nat /\ ((writes' = writes /\ ~Writing') \/ writes' = writes + 1)
  <2>1. writes \in Nat
    BY VolumeAssumption DEF VolumeInv, VolumeTypeOK
  <2>2. (writes' = writes /\ ~Writing') \/ writes' = writes + 1
    BY DEF Begin
  <2>3. QED
    BY <2>1, <2>2
<1>4. Files'
  <2>1. VolumeTypeOK /\ Files
    BY DEF VolumeInv
  <2>2. \A p \in Used : Entry(p).id \in Nat /\ Entry(p).id <= writes
    BY <2>1, UsedFacts DEF Files
  <2>3. \A e, at : FileOn(e, at)' <=> FileOn(e, at)
    BY <1>1 DEF FileOn, Walk, Holds
  <2>4. QED
    BY <1>1, <1>3, <2>1, <2>2, <2>3 DEF Files
<1>5. Job'
  <2>1. CASE ~Writing'
    BY <2>1 DEF Job
  <2>2. ASSUME NEW d \in Dirs, NEW name \in Names, NEW slots, NEW size \in Int,
               size > 0, Begin(d, name, slots, size)
        PROVE  Job'
    <3>1. /\ pc' = "allocate" /\ job'.size = size /\ job'.written = 0
          /\ job'.first = 0 /\ job'.prev = 0
      BY <2>2 DEF Begin, Idle
    <3>2. (Counted /\ LastLinked /\ Taken)'
      BY <2>2, <3>1 DEF Counted, LastLinked, Taken
    <3> DEFINE at == [k \in 1 .. 0 |-> 2]
    <3>3. at \in [1 .. 0 -> Clusters]
      OBVIOUS
    <3>4. Begun(at)'
      BY <3>1 DEF Begun, Holds
    <3>5. \E x \in [1 .. job'.written -> Clusters] : Begun(x)'
      BY <3>1, <3>3, <3>4
    <3>6. QED
      BY <3>1, <3>2, <3>5 DEF Job
  <2>3. QED
    BY <2>1, <2>2
<1>6. QED
  BY <1>2, <1>4, <1>5 DEF VolumeInv

(* FatAllocateCluster: the cluster taken was free, so nothing led to it.   *)
LEMMA AllocateKeeps ==
  ASSUME VolumeInv, VolumeTypeOK', Allocate
  PROVE  VolumeInv'
<1> DEFINE new == FatFindFreeCluster
<1> USE ClustersFacts
<1> VolumeTypeOK
  BY DEF VolumeInv
<1>1. new \in Clusters /\ fat[new] = 0 /\ data[new] = <<>>
  BY FreeClusterFacts DEF Allocate, VolumeInv, Untouched
<1>2. /\ fat' = [fat EXCEPT ![new] = EOC]
      /\ job' = [job EXCEPT !.cluster = new, !.first = IF job.first = 0 THEN new ELSE job.first]
      /\ pc = "allocate" /\ pc' = "mirror" /\ Writing /\ Writing'
      /\ UNCHANGED <<copy, dir, data, writes>>
  BY DEF Allocate, Writing
<1>3. fat'[new] = EOC /\ \A c \in Clusters \ {new} : fat'[c] = fat[c]
  BY <1>1, <1>2 DEF VolumeTypeOK
<1>4. \A c \in Clusters : fat[c] # new
  BY <1>1 DEF VolumeInv, Links
<1>5. Untouched'
  BY <1>2, <1>3 DEF VolumeInv, Untouched
<1>6. Links'
  BY <1>2, <1>3, DirKept DEF VolumeInv, Links
<1>7. Files'
  BY <1>1, <1>2, <1>3, FilesKept
<1>8. Job'
  <2>1. /\ job'.size = job.size /\ job'.written = job.written /\ job'.prev = job.prev
        /\ job'.cluster = new /\ job'.first = IF job.first = 0 THEN new ELSE job.first
    BY <1>2, JobTyped DEF JobType
  <2>2. /\ job.first = 0 <=> job.written = 0
        /\ job.prev = 0 <=> job.written = 0
        /\ job.written < job.size /\ job.size > 0
        /\ job.prev # 0 => fat[job.prev] = EOC /\ copy[job.prev] = EOC /\ job.prev \in Clusters
    BY <1>2, JobFacts DEF Counted, LastLinked
  <2>3. Counted'
    BY <1>1, <1>2, <2>1, <2>2 DEF Counted
  <2>4. LastLinked'
    BY <1>2, <1>3, <2>1, <2>2 DEF LastLinked
  <2>5. Taken'
    BY <1>1, <1>2, <1>3, <1>4, <2>1, <2>2 DEF Taken, VolumeInv, Untouched
  <2>6. \A c \in Clusters : fat'[c] # job'.first
    BY <1>2, <1>3, <1>4, <2>1, JobTyped DEF VolumeInv, Job
  <2>7. PICK at \in [1 .. job.written -> Clusters] : Begun(at)
    BY <1>2 DEF VolumeInv, Job
  <2>8. \A k \in 1 .. job.written - 1 : at[k] # new
    <3>1. Writing
      BY <1>2
    <3>2. \A k \in 1 .. job.written - 1 : data[at[k]] # <<>>
      BY <2>7, <3>1, BegunFacts
    <3>3. QED
      BY <1>1, <3>2
  <2>9. Begun(at)'
    BY <1>2, <1>3, <2>1, <2>2, <2>7, <2>8, BegunFacts, JobFacts, SMTT(25) DEF Begun, Holds
  <2>10. QED
    BY <2>1, <2>3, <2>4, <2>5, <2>6, <2>7, <2>9 DEF Job
<1>9. Packed'
  BY <1>2 DEF VolumeInv, Packed
<1>10. QED
  BY <1>5, <1>6, <1>7, <1>8, <1>9 DEF VolumeInv

(* FatSetCluster's second half: the second table comes to agree with the   *)
(* first in one sector.                                                    *)
LEMMA MirrorFacts ==
  ASSUME VolumeInv, NEW c \in Clusters, copy' = Mirrored(c)
  PROVE  copy'[c] = fat[c] /\ \A b \in Clusters : copy'[b] \in {fat[b], copy[b]}
BY DEF Mirrored

LEMMA MirrorKeeps ==
  ASSUME VolumeInv, VolumeTypeOK', Mirror
  PROVE  VolumeInv'
<1> VolumeTypeOK
  BY DEF VolumeInv
<1>1. /\ pc = "mirror" /\ pc' = IF job.prev = 0 THEN "data" ELSE "link"
      /\ Writing /\ Writing' /\ copy' = Mirrored(job.cluster)
      /\ UNCHANGED <<fat, dir, data, job, writes>>
  BY DEF Mirror, Writing
<1>2. job.cluster \in Clusters /\ fat[job.cluster] = EOC /\ Counted /\ LastLinked /\ Taken
  BY <1>1, JobFacts DEF Taken
<1>3. copy'[job.cluster] = EOC /\ \A b \in Clusters : copy'[b] \in {fat[b], copy[b]}
  BY <1>1, <1>2, MirrorFacts
<1>4. Untouched' /\ Packed'
  BY <1>1 DEF VolumeInv, Untouched, Packed
<1>5. Links'
  BY <1>1, DirKept DEF VolumeInv, Links
<1>6. Files'
  BY <1>1, <1>3, FilesKept
<1>7. Job'
  <2>1. Counted' /\ Taken'
    BY <1>1, <1>2, <1>3 DEF Counted, Taken
  <2>2. LastLinked'
    BY <1>1, <1>2, <1>3, JobFacts DEF LastLinked
  <2>3. PICK at \in [1 .. job.written -> Clusters] : Begun(at)
    BY <1>1 DEF VolumeInv, Job
  <2>4. Begun(at)'
    BY <1>1, <1>3, <2>3, BegunFacts DEF Begun, Holds
  <2>5. QED
    BY <1>1, <2>1, <2>2, <2>3, <2>4 DEF VolumeInv, Job
<1>8. QED
  BY <1>4, <1>5, <1>6, <1>7 DEF VolumeInv

(* Linking leads the last cluster written to the new one, to which nothing *)
(* led; it holds part of the write, so it is in no file.                   *)
LEMMA LinkKeeps ==
  ASSUME VolumeInv, VolumeTypeOK', Link
  PROVE  VolumeInv'
<1> USE ClustersFacts
<1> VolumeTypeOK
  BY DEF VolumeInv
<1>1. /\ pc = "link" /\ pc' = "mirror_link" /\ Writing /\ Writing'
      /\ fat' = [fat EXCEPT ![job.prev] = job.cluster]
      /\ UNCHANGED <<copy, dir, data, job, writes>>
  BY DEF Link, Writing
<1>2. /\ job.prev \in Clusters /\ job.written > 0 /\ job.written \in Nat
      /\ data[job.prev] = <<writes, job.written>> /\ data[job.prev] # <<>>
      /\ data[job.first] # <<>> /\ Counted /\ LastLinked
  BY <1>1, JobFacts DEF Counted
<1>3. /\ job.cluster \in Clusters /\ fat[job.cluster] = EOC /\ copy[job.cluster] = EOC
      /\ data[job.cluster] = <<>> /\ \A c \in Clusters : fat[c] # job.cluster
      /\ \A d \in Dirs : Homes[d] # job.cluster
  BY <1>1, JobFacts DEF Taken
<1>4. /\ fat'[job.prev] = job.cluster /\ fat'[job.cluster] = EOC
      /\ \A c \in Clusters \ {job.prev} : fat'[c] = fat[c]
  BY <1>1, <1>2, <1>3 DEF VolumeTypeOK
<1>5. Untouched'
  BY <1>1, <1>2, <1>3, <1>4, ZenonT(40) DEF VolumeInv, Untouched
<1>6. Links'
  <2>1. ASSUME NEW p \in Used PROVE First(p) # job.cluster
    <3>1. data[First(p)] = <<Entry(p).id, 1>> /\ Entry(p).id \in Int
      BY FileFacts, UsedFacts
    <3>2. data[First(p)] # <<>>
      BY <3>1, TupleFacts
    <3>3. QED
      BY <1>3, <3>2
  <2>2. Used' = Used /\ \A p : First(p)' = First(p)
    BY <1>1, DirKept
  <2>3. SUFFICES ASSUME NEW c \in Clusters, fat'[c] \in Clusters
                 PROVE  /\ fat'[fat'[c]] # 0
                        /\ \A b \in Clusters \ {c} : fat'[b] # fat'[c]
                        /\ \A p \in Used : First(p) # fat'[c]
                        /\ \A d \in Dirs : Homes[d] # fat'[c]
    BY <2>2 DEF Links
  <2>4. CASE c = job.prev
    BY <1>3, <1>4, <2>1, <2>4
  <2>5. CASE c # job.prev
    <3>1. /\ fat[c] \in Clusters /\ fat[fat[c]] # 0 /\ \A b \in Clusters \ {c} : fat[b] # fat[c]
          /\ \A p \in Used : First(p) # fat[c]
          /\ \A d \in Dirs : Homes[d] # fat[c]
      BY <1>4, <2>3, <2>5 DEF VolumeInv, Links
    <3>2. QED
      BY <1>3, <1>4, <2>5, <3>1
  <2>6. QED
    BY <2>4, <2>5
<1>7. Files'
  BY <1>1, <1>2, <1>4, FilesKept
<1>8. Job'
  <2>1. Counted'
    BY <1>1, <1>2 DEF Counted
  <2>2. LastLinked'
    BY <1>1, <1>4 DEF LastLinked
  <2>3. Taken'
    BY <1>1, <1>2, <1>3, <1>4 DEF Taken
  <2>4. job.first # 0 => \A c \in Clusters : fat'[c] # job.first
    BY <1>1, <1>2, <1>3, <1>4 DEF VolumeInv, Job
  <2>5. PICK at \in [1 .. job.written -> Clusters] : Begun(at)
    BY <1>1 DEF VolumeInv, Job
  <2>6. \A k \in 1 .. job.written - 1 :
          /\ at[k] \in Clusters /\ at[k] # job.prev
          /\ fat[at[k]] = at[k + 1] /\ copy[at[k]] = at[k + 1]
    BY <1>1, <1>2, <2>5, BegunFacts
  <2>7. Begun(at)'
    BY <1>1, <1>4, <2>5, <2>6 DEF Begun, Holds
  <2>8. QED
    BY <1>1, <2>1, <2>2, <2>3, <2>4, <2>5, <2>7 DEF Job
<1>9. Packed'
  BY <1>1 DEF VolumeInv, Packed
<1>10. QED
  BY <1>5, <1>6, <1>7, <1>8, <1>9 DEF VolumeInv

LEMMA MirrorLinkKeeps ==
  ASSUME VolumeInv, VolumeTypeOK', MirrorLink
  PROVE  VolumeInv'
<1> VolumeTypeOK
  BY DEF VolumeInv
<1>1. /\ pc = "mirror_link" /\ pc' = "data" /\ Writing /\ Writing'
      /\ copy' = Mirrored(job.prev)
      /\ UNCHANGED <<fat, dir, data, job, writes>>
  BY DEF MirrorLink, Writing
<1>2. job.prev \in Clusters /\ fat[job.prev] = job.cluster /\ Counted /\ Taken
  BY <1>1, JobFacts DEF Counted, LastLinked
<1>3. copy'[job.prev] = job.cluster /\ \A b \in Clusters : copy'[b] \in {fat[b], copy[b]}
  BY <1>1, <1>2, MirrorFacts
<1>4. Untouched' /\ Packed'
  BY <1>1 DEF VolumeInv, Untouched, Packed
<1>5. Links'
  BY <1>1, DirKept DEF VolumeInv, Links
<1>6. Files'
  BY <1>1, <1>3, FilesKept
<1>7. Job'
  <2>1. Counted' /\ Taken'
    BY <1>1, <1>2, <1>3 DEF Counted, Taken
  <2>2. LastLinked'
    BY <1>1, <1>2, <1>3 DEF LastLinked
  <2>3. PICK at \in [1 .. job.written -> Clusters] : Begun(at)
    BY <1>1 DEF VolumeInv, Job
  <2>4. Begun(at)'
    BY <1>1, <1>3, <2>3, BegunFacts DEF Begun, Holds
  <2>5. QED
    BY <1>1, <2>1, <2>2, <2>3, <2>4 DEF VolumeInv, Job
<1>8. QED
  BY <1>4, <1>5, <1>6, <1>7 DEF VolumeInv

(* A cluster is written once, after it is taken.                           *)
LEMMA WriteDataKeeps ==
  ASSUME VolumeInv, VolumeTypeOK', WriteData
  PROVE  VolumeInv'
<1> USE ClustersFacts
<1> VolumeTypeOK
  BY DEF VolumeInv
<1>0. PICK n \in Nat : n = job.written + 1
  BY JobFacts DEF WriteData, Writing
<1>1. /\ pc = "data" /\ pc' = IF n = job.size THEN "enter" ELSE "allocate"
      /\ Writing /\ Writing'
      /\ data' = [data EXCEPT ![job.cluster] = <<writes, n>>]
      /\ job' = [job EXCEPT !.written = n, !.prev = job.cluster]
      /\ UNCHANGED <<fat, copy, dir, writes>>
  BY <1>0 DEF WriteData, Writing
<1>2. /\ job'.written = n /\ job'.prev = job.cluster /\ job'.size = job.size
      /\ job'.first = job.first /\ job'.cluster = job.cluster
  BY <1>1, JobTyped DEF JobType
<1>3. /\ job.cluster \in Clusters /\ data[job.cluster] = <<>>
      /\ fat[job.cluster] = EOC /\ copy[job.cluster] = EOC
      /\ job.prev = 0 => job.first = job.cluster
      /\ \A d \in Dirs : Homes[d] # job.cluster
  BY <1>1, JobFacts DEF Taken
<1>4. /\ job.written \in Nat /\ n > 0 /\ job.written < job.size /\ job.size \in Nat
      /\ job.prev = 0 <=> job.written = 0
      /\ job.first # 0
      /\ job.prev # 0 => fat[job.prev] = job.cluster /\ copy[job.prev] = job.cluster
  BY <1>0, <1>1, JobFacts DEF Counted, LastLinked
<1>5. /\ data'[job.cluster] = <<writes, n>>
      /\ \A c \in Clusters \ {job.cluster} : data'[c] = data[c]
  BY <1>1, <1>3 DEF VolumeTypeOK
<1>6. Untouched'
  BY <1>1, <1>3, <1>5 DEF VolumeInv, Untouched
<1>7. Links'
  BY <1>1, DirKept DEF VolumeInv, Links
<1>8. Files'
  BY <1>1, <1>3, <1>5, FilesKept
<1>9. Job'
  <2>1. Counted'
    BY <1>0, <1>1, <1>2, <1>3, <1>4 DEF Counted
  <2>2. LastLinked'
    BY <1>1, <1>2, <1>3 DEF LastLinked
  <2>3. Taken'
    BY <1>1 DEF Taken
  <2>4. PICK at \in [1 .. job.written -> Clusters] : Begun(at)
    BY <1>1 DEF VolumeInv, Job
  <2>5. \A k \in 1 .. job.written : at[k] \in Clusters /\ data[at[k]] = <<writes, k>>
                                    /\ <<writes, k>> # <<>>
    BY <1>1, <1>4, <2>4, BegunFacts, JobFacts, TupleFacts
  <2>6. \A k \in 1 .. job.written : k \in 1 .. n /\ k # n
    BY <1>0, <1>4
  <2>7. n \in 1 .. n /\ \A k \in 1 .. n : k # n => k \in 1 .. job.written
    BY <1>0, <1>4
  <2>8. PICK new \in [1 .. n -> Clusters] :
          \A k \in 1 .. n : new[k] = IF k = n THEN job.cluster ELSE at[k]
    <3> DEFINE f == [k \in 1 .. n |-> IF k = n THEN job.cluster ELSE at[k]]
    <3>1. f \in [1 .. n -> Clusters]
      BY <1>3, <2>5, <2>7
    <3>2. QED
      BY <3>1
  <2>9. /\ new[n] = job.cluster
        /\ \A k \in 1 .. job.written : new[k] = at[k] /\ at[k] # job.cluster
    <3>1. new[n] = job.cluster /\ \A k \in 1 .. job.written : new[k] = at[k]
      BY <2>6, <2>7, <2>8
    <3>2. \A k \in 1 .. job.written : data[at[k]] # <<>>
      BY <2>5
    <3>3. QED
      BY <1>3, <3>1, <3>2
  <2>10. new[1] = job.first
    BY <1>0, <1>3, <1>4, <2>4, <2>9 DEF Begun
  <2>11. ASSUME NEW k \in 1 .. n
         PROVE  data'[new[k]] = <<writes, k>>
    <3>1. CASE k = n
      BY <1>5, <2>9, <3>1
    <3>2. CASE k # n
      <4>1. k \in 1 .. job.written
        BY <2>7, <3>2
      <4>2. QED
        BY <1>5, <2>5, <2>9, <4>1
    <3>3. QED
      BY <3>1, <3>2
  <2>12. ASSUME NEW k \in 1 .. n - 1
         PROVE  fat[new[k]] = new[k + 1] /\ copy[new[k]] = new[k + 1]
    <3>1. CASE k = job.written
      <4>1. new[k] = job.prev /\ new[k + 1] = job.cluster /\ job.prev # 0
        BY <1>0, <1>4, <2>4, <2>9, <3>1 DEF Begun
      <4>2. QED
        BY <1>4, <4>1
    <3>2. CASE k # job.written
      <4>1. k \in 1 .. job.written - 1 /\ k \in 1 .. job.written /\ k + 1 \in 1 .. job.written
        BY <1>0, <1>4, <3>2
      <4>2. new[k] = at[k] /\ new[k + 1] = at[k + 1]
        BY <2>9, <4>1
      <4>3. QED
        BY <1>1, <2>4, <4>1, <4>2, BegunFacts
    <3>3. QED
      BY <3>1, <3>2
  <2>13. Begun(new)'
    <3>1. Holds(writes, job.written, new)'
      BY <1>1, <1>2, <2>11 DEF Holds
    <3>2. QED
      BY <1>1, <1>2, <2>9, <2>10, <2>12, <3>1 DEF Begun
  <2>14. job'.first # 0 => \A c \in Clusters : fat'[c] # job'.first
    BY <1>1, <1>2 DEF VolumeInv, Job
  <2>15. QED
    BY <1>2, <2>1, <2>2, <2>3, <2>13, <2>14 DEF Job
<1>10. Packed'
  BY <1>1 DEF VolumeInv, Packed
<1>11. QED
  BY <1>6, <1>7, <1>8, <1>9, <1>10 DEF VolumeInv

(* What FatWriteDirectoryEntry does to the slots: one that held no file    *)
(* holds the write, which is by now a walk of its own.                     *)
LEMMA EnterFacts ==
  ASSUME VolumeInv, Enter
  PROVE  \E i \in 1 .. Slots, e \in Entries :
           /\ i = FatFindFreeEntry(job.dir, job.slots)
           /\ e = FatCreateEntry(job.name, job.first, job.size, writes)
           /\ dir[job.dir][i] \in {Free, Erased}
           /\ \A j \in 1 .. i - 1 : dir[job.dir][j] \in Entries
           /\ dir' = [dir EXCEPT ![job.dir][i] = e]
           /\ \A d \in Dirs : \A j \in 1 .. Slots :
                dir'[d][j] = IF d = job.dir /\ j = i THEN e ELSE dir[d][j]
           /\ \E at \in [1 .. e.size -> Clusters] : FileOn(e, at)
           /\ \A c \in Clusters : fat[c] # e.first
<1> USE ClustersFacts
<1> VolumeTypeOK
  BY DEF VolumeInv
<1> DEFINE i == FatFindFreeEntry(job.dir, job.slots)
           e == FatCreateEntry(job.name, job.first, job.size, writes)
<1>1. pc = "enter" /\ Writing /\ i # 0 /\ dir' = [dir EXCEPT ![job.dir][i] = e]
  BY DEF Enter, Writing
<1>2. job.dir \in Dirs /\ job.slots \in 1 .. Slots /\ job.name \in Names
  BY JobTyped
<1>3. /\ i \in 1 .. Slots /\ dir[job.dir][i] \in {Free, Erased}
      /\ \A j \in 1 .. i - 1 : dir[job.dir][j] \in Entries
  BY <1>1, <1>2, FreeEntryFacts
<1>4. /\ job.written = job.size /\ job.size \in 1 .. MaxSize /\ job.size \in Nat
      /\ job.prev # 0 /\ job.first \in Clusters
      /\ fat[job.prev] = EOC /\ copy[job.prev] = EOC
  BY <1>1, JobFacts DEF Counted, LastLinked
<1>5. writes \in 0 .. MaxWrites
  BY DEF VolumeTypeOK
<1>6. e \in Entries /\ e.first = job.first /\ e.size = job.size /\ e.id = writes
  BY <1>2, <1>4, <1>5 DEF FatCreateEntry, Entries
<1>7. \A d \in Dirs : \A j \in 1 .. Slots :
        dir'[d][j] = IF d = job.dir /\ j = i THEN e ELSE dir[d][j]
  <2>1. dir \in [Dirs -> [1 .. Slots -> Entries \cup {Free, Erased}]]
    BY DEF VolumeTypeOK
  <2> HIDE DEF e, i
  <2>2. QED
    BY <1>1, <1>2, <1>3, <2>1
<1>8. PICK at \in [1 .. job.written -> Clusters] : Begun(at)
  BY <1>1 DEF VolumeInv, Job
<1>9. FileOn(e, at)
  <2>1. at[1] = job.first /\ at[job.size] = job.prev
    BY <1>4, <1>8 DEF Begun
  <2>2. \A k \in 1 .. job.size :
          /\ fat[at[k]] = IF k = job.size THEN EOC ELSE at[k + 1]
          /\ copy[at[k]] = IF k = job.size THEN EOC ELSE at[k + 1]
    <3>1. \A k \in 1 .. job.written - 1 : fat[at[k]] = at[k + 1] /\ copy[at[k]] = at[k + 1]
      BY <1>8 DEF Begun
    <3>2. ASSUME NEW k \in 1 .. job.size
          PROVE  /\ fat[at[k]] = IF k = job.size THEN EOC ELSE at[k + 1]
                 /\ copy[at[k]] = IF k = job.size THEN EOC ELSE at[k + 1]
      <4>1. CASE k = job.size
        BY <1>4, <2>1, <4>1
      <4>2. CASE k # job.size
        <5>1. k \in 1 .. job.written - 1
          BY <1>4, <3>2, <4>2
        <5>2. QED
          BY <3>1, <4>2, <5>1
      <4>3. QED
        BY <4>1, <4>2
    <3>3. QED
      BY <3>2
  <2> HIDE DEF e
  <2>3. Walk(fat, e.first, e.size, at) /\ Walk(copy, e.first, e.size, at)
    BY <1>6, <2>1, <2>2 DEF Walk
  <2>4. Holds(e.id, e.size, at)
    BY <1>4, <1>6, <1>8 DEF Begun, Holds
  <2>5. QED
    BY <2>3, <2>4 DEF FileOn
<1>10. \A c \in Clusters : fat[c] # e.first
  BY <1>1, <1>4, <1>6 DEF VolumeInv, Job
<1> HIDE DEF e, i
<1>11. \E x \in [1 .. e.size -> Clusters] : FileOn(e, x)
  BY <1>4, <1>6, <1>8, <1>9
<1>12. QED
  BY <1>1, <1>3, <1>6, <1>7, <1>10, <1>11 DEF e, i

LEMMA EnterKeeps ==
  ASSUME VolumeInv, VolumeTypeOK', Enter
  PROVE  VolumeInv'
<1> USE ClustersFacts
<1> VolumeTypeOK
  BY DEF VolumeInv
<1>1. /\ pc = "enter" /\ Writing /\ ~Writing'
      /\ UNCHANGED <<fat, copy, data, writes>>
  BY DEF Enter, Stop, Writing
<1>2. PICK i \in 1 .. Slots, e \in Entries :
        /\ e = FatCreateEntry(job.name, job.first, job.size, writes)
        /\ dir[job.dir][i] \in {Free, Erased}
        /\ \A j \in 1 .. i - 1 : dir[job.dir][j] \in Entries
        /\ \A d \in Dirs : \A j \in 1 .. Slots :
             dir'[d][j] = IF d = job.dir /\ j = i THEN e ELSE dir[d][j]
        /\ \E at \in [1 .. e.size -> Clusters] : FileOn(e, at)
        /\ \A c \in Clusters : fat[c] # e.first
  BY EnterFacts
<1>3. e.id = writes /\ writes \in Nat /\ e.first \in Clusters /\ e.kind = "file"
  BY <1>2, VolumeAssumption DEF FatCreateEntry, VolumeTypeOK, Entries
<1>4. PICK new \in Places : new = <<job.dir, i>>
  BY <1>2, JobTyped, SlotFacts
<1>5. job.dir \in Dirs /\ new \notin Used
  BY <1>2, <1>4, JobTyped, SlotFacts DEF Free, Erased, Entries
<1>6. /\ Used' = Used \cup {new}
      /\ Entry(new)' = e
      /\ \A p \in Used : Entry(p)' = Entry(p)
  <2>1. ASSUME NEW p \in Places
        PROVE  Entry(p)' = IF p = new THEN e ELSE Entry(p)
    <3>1. p[1] \in Dirs /\ p[2] \in 1 .. Slots /\ p = <<p[1], p[2]>>
      BY DEF Places
    <3>2. QED
      BY <1>2, <1>4, <3>1 DEF Entry
  <2>2. /\ Places' = Places
        /\ Used = {p \in Places : Entry(p).kind = "file"}
        /\ Used' = {p \in Places : Entry(p)'.kind = "file"}
    BY DEF Used, Places, Entry
  <2>3. QED
    BY <1>3, <1>5, <2>1, <2>2
<1>7. /\ \A p \in Used : First(p)' = First(p) /\ First(p) = Entry(p).first
      /\ First(new)' = e.first
  BY <1>6 DEF First, Entry
<1>8. Untouched'
  BY <1>1 DEF VolumeInv, Untouched
<1>9. Links'
  <2>1. ASSUME NEW p \in Used'
        PROVE  First(p)' = e.first \/ (p \in Used /\ First(p)' = First(p))
    <3>1. p = new \/ p \in Used
      BY <1>6
    <3>2. QED
      BY <1>7, <3>1
  <2>2. QED
    BY <1>1, <1>2, <2>1 DEF VolumeInv, Links
<1>10. Files'
  <2>1. \A x, at : FileOn(x, at)' <=> FileOn(x, at)
    BY <1>1 DEF FileOn, Walk, Holds
  <2>2. ASSUME NEW p \in Used
        PROVE  /\ Entry(p).id \in Nat /\ Entry(p).id < writes
               /\ \E at \in [1 .. Entry(p).size -> Clusters] : FileOn(Entry(p), at)
               /\ \A q \in Used \ {p} : Entry(q).id # Entry(p).id
    <3>1. Entry(p).id \in Nat
      BY UsedFacts
    <3>2. QED
      BY <1>1, <3>1 DEF VolumeInv, Files
  <2>3. ASSUME NEW p \in Used', NEW x \in Entries, x = Entry(p)'
        PROVE  /\ \E at \in [1 .. x.size -> Clusters] : FileOn(x, at)'
               /\ x.id <= writes
               /\ \A q \in Used' \ {p} : Entry(q)'.id # x.id
    <3>1. CASE p = new
      <4>1. \A q \in Used' \ {p} : q \in Used /\ Entry(q)'.id < writes
        BY <1>6, <2>2, <3>1
      <4>2. x = e
        BY <1>6, <2>3, <3>1
      <4>3. QED
        BY <1>2, <1>3, <2>1, <2>2, <4>1, <4>2, <1>6
    <3>2. CASE p # new
      <4>1. p \in Used /\ x = Entry(p)
        BY <1>6, <2>3, <3>2
      <4>2. \A q \in Used' \ {p} : Entry(q)'.id # Entry(p).id
        BY <1>3, <1>6, <2>2, <4>1
      <4>3. QED
        BY <1>3, <2>1, <2>2, <4>1, <4>2
    <3>3. QED
      BY <3>1, <3>2
  <2>4. ASSUME NEW p \in Used'
        PROVE  /\ \E at \in [1 .. Entry(p)'.size -> Clusters] : FileOn(Entry(p), at)'
               /\ Entry(p)'.id <= writes
               /\ \A q \in Used' \ {p} : Entry(q)'.id # Entry(p)'.id
    <3>1. PICK x \in Entries : x = Entry(p)'
      BY <1>6, UsedFacts
    <3>2. PICK at \in [1 .. x.size -> Clusters] : FileOn(x, at)'
      BY <2>3, <3>1
    <3>3. FileOn(Entry(p), at)'
      BY <3>1, <3>2 DEF FileOn
    <3>4. QED
      BY <2>3, <3>1, <3>2, <3>3
  <2>5. QED
    BY <1>1, <2>4 DEF Files
<1>11. Job'
  BY <1>1 DEF Job
<1>12. Packed'
  <2>1. SUFFICES ASSUME NEW d \in Dirs, NEW a \in 1 .. Slots, NEW b \in 1 .. Slots,
                        a < b, dir'[d][a].kind = "free"
                 PROVE  dir'[d][b].kind = "free"
    BY DEF Packed
  <2>2. ~(d = job.dir /\ a = i) /\ dir'[d][a] = dir[d][a]
    BY <1>2, <1>3, <2>1
  <2>3. dir[d][b].kind = "free"
    BY <2>1, <2>2 DEF VolumeInv, Packed
  <2>4. ~(d = job.dir /\ b = i)
    <3>1. ASSUME d = job.dir, b = i PROVE FALSE
      <4>1. a \in 1 .. i - 1
        BY <2>1, <3>1
      <4>2. dir[d][a] \in Entries
        BY <1>2, <3>1, <4>1
      <4>3. QED
        BY <2>1, <2>2, <4>2 DEF Entries
    <3>2. QED
      BY <3>1
  <2>5. QED
    BY <1>2, <2>3, <2>4
<1>13. QED
  BY <1>8, <1>9, <1>10, <1>11, <1>12 DEF VolumeInv

LEMMA StepInv == VolumeInv /\ [Next]_vars => VolumeInv'
<1> SUFFICES ASSUME VolumeInv, [Next]_vars PROVE VolumeInv'
  OBVIOUS
<1>1. VolumeTypeOK'
  BY StepTyped
<1>2. CASE FatTest
  <2>1. Begin(Root, TEST, FirstSlots, 1) /\ UNCHANGED disk
    BY <1>2 DEF FatTest, Begin
  <2>2. QED
    BY <1>1, <2>1, VolumeAssumption, DiskKept
<1>3. ASSUME NEW d \in Dirs, NEW name \in Names, NEW size \in 1 .. MaxSize,
             IDEWriteFile(d, name, size)
      PROVE  VolumeInv'
  <2>1. Begin(d, name, Slots, size) /\ size > 0 /\ UNCHANGED disk
    BY <1>3 DEF IDEWriteFile, Begin
  <2>2. QED
    BY <1>1, <2>1, VolumeAssumption, DiskKept
<1>4. CASE IDEWriteNothing \/ NoSpace \/ DirFull \/ PowerOff
  <2>1. ~Writing' /\ UNCHANGED <<disk, writes>>
    BY <1>4 DEF IDEWriteNothing, NoSpace, DirFull, PowerOff, Stop, Writing
  <2>2. QED
    BY <1>1, <2>1, DiskKept
<1>5. CASE UNCHANGED vars
  <2>1. /\ Used' = Used /\ \A p : Entry(p)' = Entry(p) /\ First(p)' = First(p)
        /\ UNCHANGED <<fat, copy, dir, data, pc, job, writes>>
    BY <1>5, DirKept DEF vars
  <2>2. Untouched' /\ Packed'
    BY <2>1 DEF VolumeInv, Untouched, Packed
  <2>3. Links'
    BY <2>1 DEF VolumeInv, Links
  <2>4. Files'
    <3>1. \A e, at : FileOn(e, at)' <=> FileOn(e, at)
      BY <2>1 DEF FileOn, Walk, Holds
    <3>2. QED
      BY <2>1, <3>1 DEF VolumeInv, Files, Writing
  <2>5. Job'
    BY <2>1 DEF VolumeInv, Job, Writing, Counted, LastLinked, Taken, Begun, Holds
  <2>6. QED
    BY <1>1, <2>2, <2>3, <2>4, <2>5 DEF VolumeInv
<1>6. CASE Allocate
  BY <1>1, <1>6, AllocateKeeps
<1>7. CASE Mirror
  BY <1>1, <1>7, MirrorKeeps
<1>8. CASE Link
  BY <1>1, <1>8, LinkKeeps
<1>9. CASE MirrorLink
  BY <1>1, <1>9, MirrorLinkKeeps
<1>10. CASE WriteData
  BY <1>1, <1>10, WriteDataKeeps
<1>11. CASE Enter
  BY <1>1, <1>11, EnterKeeps
<1>12. QED
  BY <1>2, <1>3, <1>4, <1>5, <1>6, <1>7, <1>8, <1>9, <1>10, <1>11 DEF Next, Step

LEMMA Invariance == Spec => []VolumeInv
<1>1. Init => VolumeInv
  BY InitInv
<1>2. VolumeInv /\ [Next]_vars => VolumeInv'
  BY StepInv
<1>3. QED
  BY <1>1, <1>2, PTL DEF Spec

-----------------------------------------------------------------------------
(* The properties.                                                         *)

(* Every variable has its type, in volumes of any size.                    *)
THEOREM VolumeTyped == Spec => []VolumeTypeOK
<1>1. VolumeInv => VolumeTypeOK
  BY DEF VolumeInv
<1>2. QED
  BY <1>1, Invariance, PTL

(* No cluster belongs to two files or twice to one, wherever writes failed *)
(* and the power went (fat.c:196-290).                                     *)
THEOREM ChainsApart == Spec => []ChainsDisjoint
<1>1. VolumeInv => ChainsDisjoint
  <2> SUFFICES ASSUME VolumeInv PROVE ChainsDisjoint
    OBVIOUS
  <2> VolumeTypeOK /\ Untouched /\ Links
    BY DEF VolumeInv
  <2>1. \A d \in Dirs : fat[Homes[d]] = EOC
    BY DEF Untouched
  <2>2. ASSUME NEW p \in Used
        PROVE  fat[First(p)] # 0 /\ \A d \in Dirs : First(p) # Homes[d]
    BY FileFacts, ClustersFacts
  <2>3. ASSUME NEW p \in Used, NEW q \in Used \ {p}
        PROVE  First(p) # First(q)
    <3>1. Entry(p).id # Entry(q).id
      BY DEF VolumeInv, Files
    <3>2. /\ data[First(p)] = <<Entry(p).id, 1>> /\ data[First(q)] = <<Entry(q).id, 1>>
          /\ Entry(p).id \in Int /\ Entry(q).id \in Int
      BY FileFacts, UsedFacts
    <3>3. QED
      BY <3>1, <3>2
  <2>4. QED
    BY <2>1, <2>2, <2>3 DEF ChainsDisjoint, Links
<1>2. QED
  BY <1>1, Invariance, PTL

(* A file that has its entry is complete in both tables, also after the    *)
(* power went in the middle of later writes (fat.c:246-290, storage.c:121). *)
THEOREM FilesComplete == Spec => []FilesWhole
<1>1. VolumeInv => FilesWhole
  <2> SUFFICES ASSUME VolumeInv, NEW p \in Used
               PROVE  Whole(fat, Entry(p)) /\ Whole(copy, Entry(p))
    BY DEF FilesWhole, Entry
  <2>1. PICK at \in [1 .. Entry(p).size -> Clusters] : FileOn(Entry(p), at)
    BY DEF VolumeInv, Files
  <2>2. QED
    BY <2>1 DEF Whole, FileOn
<1>2. QED
  BY <1>1, Invariance, PTL

-----------------------------------------------------------------------------
(* The volume is a store.                                                  *)

Reads == [p \in Dirs \X Names |-> FatRead(p[1], p[2])]
Asked == IF pc \in {"idle", "boot"} THEN {} ELSE {<<<<job.dir, job.name>>, writes>>}

(* No read finds garbage: it gives the write the entry located is of.      *)
EntriesRead ==
  \A d \in Dirs, name \in Names :
    LET i == FatLocateInDir(d, name) IN
    /\ Matching(d, name) = {} => i = 0 /\ FatRead(d, name) = Nothing
    /\ Matching(d, name) # {} =>
         /\ i # 0 /\ i \in Matching(d, name) /\ \A j \in Matching(d, name) : i <= j
         /\ FatRead(d, name) = dir[d][i].id /\ FatRead(d, name) \in 0 .. MaxWrites

LEMMA ReadFacts == VolumeInv => EntriesRead
<1> SUFFICES ASSUME VolumeInv, NEW d \in Dirs, NEW name \in Names
             PROVE  LET i == FatLocateInDir(d, name) IN
                    /\ Matching(d, name) = {} => i = 0 /\ FatRead(d, name) = Nothing
                    /\ Matching(d, name) # {} =>
                         /\ i # 0 /\ i \in Matching(d, name)
                         /\ \A j \in Matching(d, name) : i <= j
                         /\ FatRead(d, name) = dir[d][i].id
                         /\ FatRead(d, name) \in 0 .. MaxWrites
  BY DEF EntriesRead
<1> VolumeTypeOK
  BY DEF VolumeInv
<1> DEFINE i == FatLocateInDir(d, name)
<1>1. Matching(d, name) \in SUBSET (1 .. Slots) /\ 1 .. Slots \subseteq Nat /\ 0 \notin 1 .. Slots
  BY DEF Matching
<1>2. CASE Matching(d, name) = {}
  BY <1>2 DEF FatLocateInDir, FatRead
<1>3. CASE Matching(d, name) # {}
  <2>1. i = Least(Matching(d, name))
    BY <1>3 DEF FatLocateInDir
  <2>2. i \in Matching(d, name) /\ \A j \in Matching(d, name) : i <= j
    BY <1>1, <1>3, <2>1, LeastFacts
  <2>3. i \in 1 .. Slots /\ i # 0 /\ dir[d][i].kind = "file"
    BY <1>1, <2>2 DEF Matching
  <2>4. dir[d][i] \in Entries /\ <<d, i>> \in Used /\ Entry(<<d, i>>) = dir[d][i]
    BY <2>3, SlotFacts
  <2>5. \E at \in [1 .. dir[d][i].size -> Clusters] : FileOn(dir[d][i], at)
    BY <2>4 DEF VolumeInv, Files
  <2>6. Whole(fat, dir[d][i])
    BY <2>5 DEF Whole, FileOn
  <2>7. FatRead(d, name) = dir[d][i].id
    BY <2>3, <2>6 DEF FatRead
  <2>8. dir[d][i].id \in 0 .. MaxWrites
    BY <2>4 DEF Entries
  <2>9. QED
    BY <1>3, <2>2, <2>3, <2>7, <2>8
<1>4. QED
  BY <1>2, <1>3

(* What is read is decided by the directories alone.                       *)
LEMMA ReadsKept ==
  ASSUME VolumeInv, VolumeInv', UNCHANGED dir
  PROVE  UNCHANGED Reads
<1>0. EntriesRead /\ EntriesRead'
  BY ReadFacts, PTL
<1>1. ASSUME NEW d \in Dirs, NEW name \in Names
      PROVE  FatRead(d, name)' = FatRead(d, name)
  <2>1. Matching(d, name)' = Matching(d, name)
    BY DEF Matching
  <2>2. FatLocateInDir(d, name)' = FatLocateInDir(d, name)
    BY <2>1 DEF FatLocateInDir
  <2>3. QED
    BY <1>0, <2>1, <2>2 DEF EntriesRead
<1>2. QED
  BY <1>1 DEF Reads

(* The entry of a write is read from now on, unless an older one of that   *)
(* name comes first: then the old file is still the one that is read.      *)
LEMMA EnterReads ==
  ASSUME VolumeInv, VolumeInv', Enter
  PROVE  \/ Reads' = [Reads EXCEPT ![<<job.dir, job.name>>] = writes]
         \/ Reads[<<job.dir, job.name>>] # Nothing /\ UNCHANGED Reads
<1> VolumeTypeOK
  BY DEF VolumeInv
<1>0. EntriesRead /\ EntriesRead'
  BY ReadFacts, PTL
<1>1. PICK dd \in Dirs, nn \in Names : dd = job.dir /\ nn = job.name
  BY JobTyped
<1>2. PICK i \in 1 .. Slots, e \in Entries :
        /\ e = FatCreateEntry(nn, job.first, job.size, writes)
        /\ dir[dd][i] \in {Free, Erased}
        /\ \A j \in 1 .. i - 1 : dir[dd][j] \in Entries
        /\ \A d \in Dirs : \A j \in 1 .. Slots :
             dir'[d][j] = IF d = dd /\ j = i THEN e ELSE dir[d][j]
  <2>1. PICK i \in 1 .. Slots, e \in Entries :
        /\ e = FatCreateEntry(job.name, job.first, job.size, writes)
        /\ dir[job.dir][i] \in {Free, Erased}
        /\ \A j \in 1 .. i - 1 : dir[job.dir][j] \in Entries
        /\ \A d \in Dirs : \A j \in 1 .. Slots :
             dir'[d][j] = IF d = job.dir /\ j = i THEN e ELSE dir[d][j]
    BY EnterFacts
  <2>2. QED
    BY <1>1, <2>1
<1>3. e.id = writes /\ e.name = nn /\ e.kind = "file"
  BY <1>2 DEF FatCreateEntry
<1> Slots \in Nat
  BY VolumeAssumption
<1>4. dir[dd][i].kind # "file"
  BY <1>2 DEF Free, Erased
<1>5. ASSUME NEW d \in Dirs, NEW name \in Names, NEW k \in 1 .. Slots,
             ~(d = dd /\ k = i)
      PROVE  k \in Matching(d, name)' <=> k \in Matching(d, name)
  <2>1. dir'[d][k] = dir[d][k]
    BY <1>2, <1>5
  <2>2. ASSUME dir[d][k].kind = "file", NEW j \in 1 .. k - 1
        PROVE  dir'[d][j].kind # "free" <=> dir[d][j].kind # "free"
    <3>1. j \in 1 .. Slots /\ j < k
      BY <1>1
    <3>2. CASE d = dd /\ j = i
      <4>1. dir[d][j].kind # "free"
        BY <2>2, <3>1 DEF VolumeInv, Packed
      <4>2. QED
        BY <1>2, <1>3, <3>1, <3>2, <4>1
    <3>3. CASE ~(d = dd /\ j = i)
      BY <1>2, <3>1, <3>3
    <3>4. QED
      BY <3>2, <3>3
  <2>3. QED
    BY <2>1, <2>2 DEF Matching
<1>6. ASSUME NEW name \in Names
      PROVE  /\ i \notin Matching(dd, name)
             /\ i \in Matching(dd, name)' <=> name = nn
  <2>1. \A j \in 1 .. i - 1 : dir'[dd][j].kind # "free"
    <3>1. \A j \in 1 .. i - 1 : j \in 1 .. Slots /\ j # i
      BY <1>1
    <3>2. QED
      BY <1>2, <1>1, <3>1 DEF Entries
  <2>2. dir'[dd][i] = e
    BY <1>2, <1>1
  <2>3. QED
    BY <1>3, <1>4, <2>1, <2>2 DEF Matching
<1>7. ASSUME NEW d \in Dirs, NEW name \in Names, ~(d = dd /\ name = nn)
      PROVE  FatRead(d, name)' = FatRead(d, name)
  <2>1. Matching(d, name) \subseteq 1 .. Slots /\ Matching(d, name)' \subseteq 1 .. Slots
    BY DEF Matching
  <2>2. Matching(d, name)' = Matching(d, name)
    BY <1>5, <1>6, <1>7, <2>1
  <2>3. FatLocateInDir(d, name)' = FatLocateInDir(d, name)
    BY <2>2 DEF FatLocateInDir
  <2>4. CASE Matching(d, name) # {}
    <3> DEFINE l == FatLocateInDir(d, name)
    <3>1. l \in Matching(d, name) /\ FatRead(d, name) = dir[d][l].id
          /\ FatRead(d, name)' = dir'[d][l].id
      BY <1>0, <2>2, <2>3, <2>4 DEF EntriesRead
    <3>2. l \in 1 .. Slots /\ ~(d = dd /\ l = i)
      BY <1>6, <2>1, <3>1
    <3>3. QED
      BY <1>2, <3>1, <3>2
  <2>5. QED
    BY <1>0, <2>2, <2>4 DEF EntriesRead
<1>8. \/ FatRead(dd, nn)' = writes
      \/ /\ FatRead(dd, nn)' = FatRead(dd, nn)
         /\ FatRead(dd, nn) # Nothing
  <2> DEFINE M == Matching(dd, nn)
             l == FatLocateInDir(dd, nn)
  <2>1. M \subseteq 1 .. Slots /\ M' \subseteq 1 .. Slots /\ i \in M' /\ i \notin M
    BY <1>1, <1>6 DEF Matching
  <2>2. l' \in M' /\ (\A j \in M' : l' <= j) /\ FatRead(dd, nn)' = dir'[dd][l'].id
    BY <1>0, <1>1, <2>1 DEF EntriesRead
  <2>3. CASE l' = i
    BY <1>2, <1>3, <1>1, <2>2, <2>3
  <2>4. CASE l' # i
    <3>1. l' \in M
      BY <1>1, <1>5, <2>1, <2>2, <2>4
    <3>2. l \in M /\ (\A j \in M : l <= j)
          /\ FatRead(dd, nn) = dir[dd][l].id
          /\ FatRead(dd, nn) \in 0 .. MaxWrites
      BY <1>0, <1>1, <3>1 DEF EntriesRead
    <3>3. l \in M'
      BY <1>1, <1>5, <2>1, <3>2
    <3>4. l = l'
      BY <2>1, <2>2, <3>1, <3>2, <3>3
    <3>5. QED
      BY <1>2, <1>1, <2>1, <2>2, <2>4, <3>2, <3>4 DEF Nothing
  <2>5. QED
    BY <2>3, <2>4
<1>9. /\ Reads[<<dd, nn>>] = FatRead(dd, nn)
      /\ Reads' = [p \in Dirs \X Names |-> FatRead(p[1], p[2])']
      /\ \A p \in Dirs \X Names : p = <<p[1], p[2]>> /\ p[1] \in Dirs /\ p[2] \in Names
  BY DEF Reads
<1>10. CASE FatRead(dd, nn)' = writes
  <2>1. \A p \in Dirs \X Names :
          FatRead(p[1], p[2])' = IF p = <<dd, nn>> THEN writes ELSE FatRead(p[1], p[2])
    BY <1>7, <1>9, <1>10
  <2>2. QED
    BY <1>1, <1>9, <2>1 DEF Reads
<1>11. CASE /\ FatRead(dd, nn)' = FatRead(dd, nn)
            /\ FatRead(dd, nn) # Nothing
  <2>1. \A d \in Dirs, name \in Names : FatRead(d, name)' = FatRead(d, name)
    BY <1>7, <1>11
  <2>2. \A p \in Dirs \X Names : FatRead(p[1], p[2])' = FatRead(p[1], p[2])
    BY <1>9, <2>1
  <2>3. QED
    BY <1>1, <1>9, <1>11, <2>2 DEF Reads
<1>12. QED
  BY <1>1, <1>8, <1>10, <1>11

LEMMA ImplementsStep ==
  ASSUME VolumeInv, VolumeInv', [Next]_vars
  PROVE  [Promise!Next]_<<Reads, Asked, result>>
<1> VolumeTypeOK
  BY DEF VolumeInv
<1>1. job.dir \in Dirs /\ job.name \in Names /\ writes \in 0 .. MaxWrites
  BY JobTyped DEF VolumeTypeOK
<1>2. ASSUME NEW d \in Dirs, NEW name \in Names, NEW slots, NEW size,
             pc \in {"idle", "boot"}, writes < MaxWrites, Begin(d, name, slots, size)
      PROVE  Promise!Next
  <2>1. Asked = {} /\ UNCHANGED <<Reads, result>>
    BY <1>2, ReadsKept DEF Begin, disk, Asked
  <2>2. job'.dir = d /\ job'.name = name /\ pc' = "allocate" /\ writes' = writes + 1
    BY <1>2 DEF Begin, Idle
  <2>3. Asked' = {<<<<d, name>>, writes + 1>>} /\ writes + 1 \in 0 .. MaxWrites
    BY <1>1, <1>2, <2>2, VolumeAssumption DEF Asked
  <2>4. Promise!Ask(<<d, name>>, writes + 1)
    BY <2>1, <2>3 DEF Promise!Ask, Reads, Asked
  <2>5. QED
    BY <2>3, <2>4 DEF Promise!Next
<1>3. CASE FatTest
  BY <1>2, <1>3, VolumeAssumption DEF FatTest
<1>4. ASSUME NEW d \in Dirs, NEW name \in Names, NEW size \in 1 .. MaxSize,
             IDEWriteFile(d, name, size)
      PROVE  Promise!Next
  BY <1>2, <1>4 DEF IDEWriteFile
<1>5. CASE IDEWriteNothing
  <2>1. result' = "no_space" /\ UNCHANGED <<Reads, Asked>>
    BY <1>5, ReadsKept DEF IDEWriteNothing, disk, Asked
  <2>2. QED
    BY <2>1 DEF Promise!Next, Promise!Refuse, Reads, Asked
<1>6. CASE NoSpace \/ DirFull
  <2>1. /\ Asked # {} /\ Asked' = {} /\ UNCHANGED Reads
        /\ result' \in {"no_space", "dir_full"}
    BY <1>6, ReadsKept DEF NoSpace, DirFull, Stop, disk, Asked
  <2>2. Promise!Fail
    BY <2>1 DEF Promise!Fail, Promise!Answers, Reads, Asked
  <2>3. QED
    BY <2>2 DEF Promise!Next
<1>7. CASE PowerOff
  <2>1. Asked' = {} /\ UNCHANGED <<Reads, result>>
    BY <1>7, ReadsKept DEF PowerOff, disk, Asked
  <2>2. QED
    BY <2>1 DEF Promise!Next, Promise!PowerOff, Reads, Asked
<1>8. CASE Enter
  <2>1. /\ Asked = {<<<<job.dir, job.name>>, writes>>} /\ Asked' = {} /\ result' = "ok"
    BY <1>8 DEF Enter, Stop, Asked
  <2>2. PICK write \in Asked : write = <<<<job.dir, job.name>>, writes>>
    BY <2>1
  <2>3. \/ Reads' = [Reads EXCEPT ![write[1]] = write[2]]
        \/ Reads[write[1]] # Nothing /\ UNCHANGED Reads
    BY <1>8, <2>2, EnterReads
  <2>4. Promise!Complete
    BY <2>1, <2>3 DEF Promise!Complete, Reads, Asked
  <2>5. QED
    BY <2>4 DEF Promise!Next
<1>9. CASE Allocate \/ Mirror \/ Link \/ MirrorLink \/ WriteData
  <2>1. UNCHANGED <<dir, writes, result>> /\ job'.dir = job.dir /\ job'.name = job.name
    BY <1>9, JobTyped DEF Allocate, Mirror, Link, MirrorLink, WriteData, JobType
  <2>2. pc \notin {"idle", "boot"} /\ pc' \notin {"idle", "boot"}
    BY <1>9 DEF Allocate, Mirror, Link, MirrorLink, WriteData
  <2>3. UNCHANGED <<Reads, Asked, result>>
    BY <2>1, <2>2, ReadsKept DEF Asked
  <2>4. QED
    BY <2>3
<1>10. CASE UNCHANGED vars
  BY <1>10, ReadsKept DEF vars, Asked
<1>11. QED
  BY <1>3, <1>4, <1>5, <1>6, <1>7, <1>8, <1>9, <1>10 DEF Next, Step

(* A write takes effect in the one step that enters its file, or never:    *)
(* whatever is read at any name changes at no other step, at no write that *)
(* fails and at no loss of power, and the other files at none at all       *)
(* (fat.c:246-290, storage.c:93-160).                                      *)
THEOREM VolumeIsStore == Spec => IsStore
<1>1. Init => Promise!Init
  <2> SUFFICES ASSUME Init PROVE Promise!Init
    OBVIOUS
  <2>1. EntriesRead
    BY InitInv, ReadFacts
  <2>2. Asked = {} /\ result = "ok"
    BY DEF Init, Asked
  <2>3. \A d \in Dirs, name \in Names : FatRead(d, name) \in (0 .. MaxWrites) \cup {Nothing}
    BY <2>1 DEF EntriesRead
  <2>4. Reads \in [Dirs \X Names -> (0 .. MaxWrites) \cup {Nothing}]
    BY <2>3 DEF Reads
  <2>5. QED
    BY <2>2, <2>4 DEF Promise!Init, Reads, Asked
<1>2. VolumeInv /\ VolumeInv' /\ [Next]_vars => [Promise!Next]_<<Reads, Asked, result>>
  BY ImplementsStep
<1>3. QED
  BY <1>1, <1>2, Invariance, PTL DEF Spec, IsStore, Promise!Spec, Promise!vars, Reads, Asked
=============================================================================
