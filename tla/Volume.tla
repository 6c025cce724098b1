------------------------------- MODULE Volume -------------------------------
(***************************************************************************)
(* A FAT volume while the kernel writes files on it (drivers/fs/fat.c,     *)
(* IDEWriteFile of drivers/fs/storage.c): two file allocation tables, the  *)
(* directories' slots and the clusters' contents.                          *)
(*                                                                         *)
(* One write runs at a time.  Each sector it puts on the disk is a step of *)
(* its own, because the power can go between any two of them; what is kept *)
(* in memory is then lost, and the next boot writes its own files.         *)
(*                                                                         *)
(* A cluster is one sector, as mkfs.vfat lays out an image of this size.   *)
(* A file is counted in clusters; its content is known by the number of    *)
(* the write that made it.                                                 *)
(***************************************************************************)
EXTENDS Integers, FiniteSets

CONSTANTS
  LastCluster,  \* FatClusterCount + 1
  PerSector,    \* entries of an allocation table in one sector
  Dirs, Root,   \* the directories, one cluster each or more
  Slots,        \* slots of a directory
  FirstSlots,   \* slots of its first sector
  Names,        \* 8.3 names; TEST is the one the boot writes
  TEST,
  MaxSize,      \* bound: clusters of a file
  MaxWrites,    \* bound: writes begun
  MaxBoots      \* bound: times the machine is switched on

ASSUME VolumeAssumption ==
  /\ IsFiniteSet(Dirs) /\ Root \in Dirs /\ TEST \in Names
  /\ LastCluster \in Nat /\ 2 + Cardinality(Dirs) <= LastCluster  \* room for a file
  /\ PerSector \in Nat \ {0}
  /\ Slots \in Nat \ {0, 1} /\ FirstSlots \in 1 .. Slots
  /\ MaxSize \in Nat \ {0} /\ MaxWrites \in Nat /\ MaxBoots \in Nat

VARIABLES
  fat,     \* the first allocation table: the one that is read
  copy,    \* the second
  dir,     \* the directories' slots
  data,    \* the clusters' contents: a write and a place in its file
  pc,      \* where the write in progress is
  job,     \* that write
  result,  \* the answer of the last one
  writes,  \* writes begun
  boots    \* times the machine was switched on

disk == <<fat, copy, dir, data>>
vars == <<fat, copy, dir, data, pc, job, result, writes, boots>>

-----------------------------------------------------------------------------
Clusters == 2 .. LastCluster
EOC      == LastCluster + 1     \* 0x0FFFFFF8, the end of a chain
Values   == {0} \cup Clusters \cup {EOC}

Free   == [kind |-> "free"]     \* first byte 0x00: nor is anything behind it
Erased == [kind |-> "erased"]   \* first byte 0xE5
FatCreateEntry(name, first, size, id) ==
  [kind |-> "file", name |-> name, first |-> first, size |-> size, id |-> id]

Entries == [kind : {"file"}, name : Names, first : Clusters, size : 1 .. MaxSize,
            id : 0 .. MaxWrites]

(* The cluster each directory starts at. *)
Homes == CHOOSE h \in [Dirs -> 2 .. 1 + Cardinality(Dirs)] :
           \A d, e \in Dirs : d # e => h[d] # h[e]

Idle == [dir |-> Root, name |-> TEST, slots |-> FirstSlots, size |-> 0,
         written |-> 0, first |-> 0, prev |-> 0, cluster |-> 0]

(* The volume: empty but for its directories, or with a file TEST behind   *)
(* an erased slot.                                                         *)
Init ==
  \E old \in BOOLEAN :
  LET taken  == {Homes[d] : d \in Dirs}
      member == 2 + Cardinality(Dirs)
      table  == [c \in Clusters |->
                   IF c \in taken \/ (old /\ c = member) THEN EOC ELSE 0]
      kept   == FatCreateEntry(TEST, member, 1, 0)
  IN
  /\ fat = table /\ copy = table
  /\ dir = [d \in Dirs |-> [i \in 1 .. Slots |->
              IF ~old \/ d # Root \/ i > 2 THEN Free
              ELSE IF i = 1 THEN Erased ELSE kept]]
  /\ data = [c \in Clusters |-> IF old /\ c = member THEN <<0, 1>> ELSE <<>>]
  /\ pc = "boot" /\ job = Idle /\ result = "ok" /\ writes = 0 /\ boots = 1

-----------------------------------------------------------------------------
(* Looking in a directory.                                                 *)

Least(S) == CHOOSE x \in S : \A y \in S : x <= y

SectorOf(i) == (i - 1) \div FirstSlots

(* FatLocateInDir ends its search of a sector at a slot that was never     *)
(* used, but goes on with the next sector.  0 when it finds nothing.       *)
Matching(d, name) ==
  {i \in 1 .. Slots :
     /\ dir[d][i].kind = "file" /\ dir[d][i].name = name
     /\ \A j \in 1 .. i - 1 : SectorOf(j) = SectorOf(i) => dir[d][j].kind # "free"}

FatLocateInDir(d, name) ==
  IF Matching(d, name) = {} THEN 0 ELSE Least(Matching(d, name))

(* Mutant of FatFindFreeEntry: an erased slot is looked for first, and the *)
(* test of its first byte is wrong, so the slot behind it is taken.        *)
FatFindEntryBehind(d, last) ==
  LET usable == {i \in 1 .. last : \/ dir[d][i].kind = "free"
                                   \/ i > 1 /\ dir[d][i - 1].kind = "erased"}
  IN  IF usable = {} THEN 0 ELSE Least(usable)

FatFindFreeEntry(d, last) ==
  LET usable == {i \in 1 .. last : dir[d][i].kind # "file"}
  IN  IF usable = {} THEN 0 ELSE Least(usable)

(* Mutant of FatFindFreeCluster: the search stops at the last cluster of   *)
(* the table and takes it without looking.                                 *)
FatFindAnyCluster ==
  LET unused == {c \in Clusters : fat[c] = 0 \/ c = LastCluster}
  IN  IF unused = {} THEN 0 ELSE Least(unused)

(* Mutant of FatFindFreeCluster: the loop runs one entry too far, and what *)
(* is behind the table is 0.                                               *)
FatFindClusterBehind ==
  LET unused == {c \in 2 .. EOC : c = EOC \/ fat[c] = 0}
  IN  IF unused = {} THEN 0 ELSE Least(unused)

FatFindFreeCluster ==
  LET unused == {c \in Clusters : fat[c] = 0}
  IN  IF unused = {} THEN 0 ELSE Least(unused)

-----------------------------------------------------------------------------
(* Writing.                                                                *)

Begin(d, name, slots, size) ==
  /\ pc' = "allocate"
  /\ job' = [Idle EXCEPT !.dir = d, !.name = name, !.slots = slots, !.size = size]
  /\ writes' = writes + 1
  /\ UNCHANGED <<disk, result, boots>>

(* IDEWriteFile, its path resolved to the directory d.  A file of that     *)
(* name that is already there is warned of and otherwise ignored.          *)
IDEWriteFile(d, name, size) ==
  /\ pc = "idle" /\ writes < MaxWrites
  /\ size > 0 /\ Begin(d, name, Slots, size)

(* Of no bytes: FatWriteData answers 0, which is taken for a full volume.  *)
IDEWriteNothing ==
  /\ pc = "idle"
  /\ result' = "no_space"
  /\ UNCHANGED <<disk, pc, job, writes, boots>>

(* FatTest, which kmain calls on every boot before anything else is        *)
(* written: one cluster, and a slot in the first sector of the root.       *)
FatTest ==
  /\ pc = "boot" /\ writes < MaxWrites
  /\ Begin(Root, TEST, FirstSlots, 1)

Stop(answer) == pc' = "idle" /\ result' = answer /\ job' = Idle

(* FatAllocateCluster, up to the first table on the disk. *)
Allocate ==
  /\ pc = "allocate"
  /\ FatFindFreeCluster # 0
  /\ fat' = [fat EXCEPT ![FatFindFreeCluster] = EOC]
  /\ job' = [job EXCEPT !.cluster = FatFindFreeCluster,
                        !.first = IF @ = 0 THEN FatFindFreeCluster ELSE @]
  /\ pc' = "mirror"
  /\ UNCHANGED <<copy, dir, data, result, writes, boots>>

(* No cluster is left: the write is given up.  What it has allocated stays *)
(* allocated.                                                              *)
NoSpace ==
  /\ pc = "allocate"
  /\ FatFindFreeCluster = 0
  /\ Stop("no_space")
  /\ UNCHANGED <<disk, writes, boots>>

(* The second half of FatSetCluster: the sector of the table, as it was    *)
(* just written, goes to the second table too.                             *)
Mirrored(c) ==
  [e \in Clusters |->
     IF e \div PerSector = c \div PerSector THEN fat[e] ELSE copy[e]]

Mirror ==
  /\ pc = "mirror"
  /\ copy' = Mirrored(job.cluster)
  /\ pc' = IF job.prev = 0 THEN "data" ELSE "link"
  /\ UNCHANGED <<fat, dir, data, job, result, writes, boots>>

Link ==
  /\ pc = "link"
  /\ fat' = [fat EXCEPT ![job.prev] = job.cluster]
  /\ pc' = "mirror_link"
  /\ UNCHANGED <<copy, dir, data, job, result, writes, boots>>

MirrorLink ==
  /\ pc = "mirror_link"
  /\ copy' = Mirrored(job.prev)
  /\ pc' = "data"
  /\ UNCHANGED <<fat, dir, data, job, result, writes, boots>>

(* Mutant of WriteData: the loop counts one cluster too few. *)
WriteDataShort ==
  /\ pc = "data"
  /\ data' = [data EXCEPT ![job.cluster] = <<writes, job.written + 1>>]
  /\ job' = [job EXCEPT !.written = @ + 1, !.prev = job.cluster]
  /\ pc' = IF job.written + 2 >= job.size THEN "enter" ELSE "allocate"
  /\ UNCHANGED <<fat, copy, dir, result, writes, boots>>

(* FatWriteData's loop: the next cluster's worth of the file. *)
WriteData ==
  /\ pc = "data"
  /\ data' = [data EXCEPT ![job.cluster] = <<writes, job.written + 1>>]
  /\ job' = [job EXCEPT !.written = @ + 1, !.prev = job.cluster]
  /\ pc' = IF job.written + 1 = job.size THEN "enter" ELSE "allocate"
  /\ UNCHANGED <<fat, copy, dir, result, writes, boots>>

(* FatFindFreeEntry and FatWriteDirectoryEntry. *)
Enter ==
  LET i == FatFindFreeEntry(job.dir, job.slots) IN
  /\ pc = "enter"
  /\ i # 0
  /\ dir' = [dir EXCEPT ![job.dir][i] =
               FatCreateEntry(job.name, job.first, job.size, writes)]
  /\ Stop("ok")
  /\ UNCHANGED <<fat, copy, data, writes, boots>>

DirFull ==
  /\ pc = "enter"
  /\ FatFindFreeEntry(job.dir, job.slots) = 0
  /\ Stop("dir_full")
  /\ UNCHANGED <<disk, writes, boots>>

(* Nothing in the kernel outlives this; the disk stays as it is. *)
PowerOff ==
  /\ boots < MaxBoots
  /\ boots' = boots + 1
  /\ pc' = "boot"
  /\ job' = Idle
  /\ UNCHANGED <<disk, result, writes>>

Step ==
  \/ Allocate \/ NoSpace \/ Mirror \/ Link \/ MirrorLink
  \/ WriteData \/ Enter \/ DirFull

Next ==
  \/ FatTest
  \/ \E d \in Dirs, name \in Names, size \in 1 .. MaxSize : IDEWriteFile(d, name, size)
  \/ IDEWriteNothing
  \/ Step
  \/ PowerOff

Spec == Init /\ [][Next]_vars

-----------------------------------------------------------------------------
(* Reading.                                                                *)

(* FatRead's walk along a table: at[k] is the k-th cluster it comes to, and *)
(* the last of n is where the table says the chain ends.                   *)
Walk(table, first, n, at) ==
  /\ at[1] = first
  /\ \A k \in 1 .. n : table[at[k]] = IF k = n THEN EOC ELSE at[k + 1]

(* Each cluster of a walk holds its own part of the file written as id. *)
Holds(id, n, at) == \A k \in 1 .. n : data[at[k]] = <<id, k>>

(* The chain of an entry is exactly as long as its size says, and holds    *)
(* the file.                                                               *)
Whole(table, e) ==
  \E at \in [1 .. e.size -> Clusters] :
    Walk(table, e.first, e.size, at) /\ Holds(e.id, e.size, at)

Nothing == -1
Garbage == -2

(* What a read of a name in a directory gives: the write whose file it is. *)
FatRead(d, name) ==
  LET i == FatLocateInDir(d, name) IN
  IF i = 0 THEN Nothing
  ELSE IF Whole(fat, dir[d][i]) THEN dir[d][i].id ELSE Garbage

-----------------------------------------------------------------------------
(* Properties.                                                             *)

Places == {<<d, i>> : d \in Dirs, i \in 1 .. Slots}
Used   == {p \in Places : dir[p[1]][p[2]].kind = "file"}
First(p) == dir[p[1]][p[2]].first

(* Every variable has its type. *)
VolumeTypeOK ==
  /\ fat \in [Clusters -> Values] /\ copy \in [Clusters -> Values]
  /\ dir \in [Dirs -> [1 .. Slots -> Entries \cup {Free, Erased}]]
  /\ data \in [Clusters -> {<<>>} \cup ((0 .. MaxWrites) \X (1 .. MaxSize))]
  /\ pc \in {"boot", "idle", "allocate", "mirror", "link", "mirror_link", "data", "enter"}
  /\ job \in [dir : Dirs, name : Names, slots : {FirstSlots, Slots},
              size : 0 .. MaxSize, written : 0 .. MaxSize, first : {0} \cup Clusters,
              prev : {0} \cup Clusters, cluster : {0} \cup Clusters]
  /\ result \in {"ok", "no_space", "dir_full"}
  /\ writes \in 0 .. MaxWrites /\ boots \in Nat

(* No cluster belongs to two files or twice to one: a cluster that an      *)
(* entry or a link of a chain leads to is in use, and nothing else leads   *)
(* to it, whatever failed and wherever the power went.                     *)
ChainsDisjoint ==
  /\ \A p \in Used : fat[First(p)] # 0 /\ \A q \in Used \ {p} : First(p) # First(q)
  /\ \A c \in Clusters : fat[c] \in Clusters =>
       /\ fat[fat[c]] # 0
       /\ \A b \in Clusters \ {c} : fat[b] # fat[c]
       /\ \A p \in Used : First(p) # fat[c]
       /\ \A d \in Dirs : Homes[d] # fat[c]
  /\ \A d \in Dirs : fat[Homes[d]] = EOC /\ \A p \in Used : First(p) # Homes[d]

(* A file that has its directory entry is complete: its clusters are all   *)
(* there, in order and written, and either table leads to them, also after *)
(* the power went in the middle of later writes.                           *)
FilesWhole == \A p \in Used : LET e == dir[p[1]][p[2]] IN Whole(fat, e) /\ Whole(copy, e)

(* The volume keeps what a store promises. *)
Promise == INSTANCE Store WITH
  Places   <- Dirs \X Names,
  Contents <- 0 .. MaxWrites,
  files    <- [p \in Dirs \X Names |-> FatRead(p[1], p[2])],
  pending  <- IF pc \in {"idle", "boot"} THEN {}
              ELSE {<<<<job.dir, job.name>>, writes>>}

(* Every write takes effect at the one step that writes its directory      *)
(* entry, or never; no other file changes, at no step and by no loss of    *)
(* power.                                                                  *)
IsStore == Promise!Spec

(* What the kernel says of a file that exists, "overwriting": a write that *)
(* is answered with success is what a read then finds.                     *)
OverwriteTakesEffect ==
  [][(pc = "enter" /\ result' = "ok" /\ pc' = "idle" /\ dir' # dir)
       => \E d \in Dirs, name \in Names :
            d = job.dir /\ name = job.name /\ FatRead(d, name)' = writes]_vars
=============================================================================
