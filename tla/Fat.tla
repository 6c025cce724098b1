-------------------------------- MODULE Fat --------------------------------
(***************************************************************************)
(* The arithmetic of a FAT volume (drivers/fs/fat.c): where its tables,    *)
(* directories and clusters lie, how an entry of an allocation table is    *)
(* read, how a name becomes an 8.3 name, how a directory slot is packed    *)
(* into a word, and how a path is followed (drivers/fs/storage.c).         *)
(*                                                                         *)
(* A boot sector is a record of the fields the code reads.  The parameters *)
(* that are literals in the code (an entry of 32 bytes, names of 8 and 3   *)
(* characters, a word of 32 bits) are constants.                           *)
(***************************************************************************)
EXTENDS Integers, Sequences

CONSTANTS
  EntryBytes,      \* sizeof(FATDirectory)
  Max12, Max16,    \* 4085 and 65525: clusters at which the type changes
  NameLen, ExtLen, \* 8 and 3
  HalfWord, Octet  \* 2^16 and 2^8: where a slot's location is divided

ASSUME FatAssumption ==
  /\ EntryBytes \in Nat \ {0} /\ NameLen \in Nat /\ ExtLen \in Nat
  /\ Max12 \in Nat /\ Max16 \in Nat /\ Max12 <= Max16
  /\ Octet \in Nat \ {0, 1} /\ HalfWord = Octet * Octet

-----------------------------------------------------------------------------
(* Regions of the volume, in sectors.                                      *)

FatTotalSectors(bt) == IF bt.TotalSectorsInVolume # 0 THEN bt.TotalSectorsInVolume
                       ELSE bt.ExtendedSectorCount

FatSize(bt) == IF bt.SectorsPerFAT # 0 THEN bt.SectorsPerFAT ELSE bt.SectorsPerFAT32

FatRootDirSize(bt) ==
  (bt.RootDirectoryEntries * EntryBytes + bt.BytesPerSector - 1) \div bt.BytesPerSector

FatFirstFat(bt) == bt.ReservedSectors

FatFirstData(bt) ==
  bt.ReservedSectors + bt.FATCount * FatSize(bt) + FatRootDirSize(bt)

FatFirstRoot(bt) == FatFirstData(bt) - FatRootDirSize(bt)

FatDataCount(bt) == FatTotalSectors(bt) - FatFirstData(bt)

FatClusterCount(bt) == FatDataCount(bt) \div bt.SectorsPerCluster

FatFirstSectorForCluster(bt, cluster) ==
  (cluster - 2) * bt.SectorsPerCluster + FatFirstData(bt)

(* The fields of a boot sector are unsigned, neither its sectors nor its   *)
(* clusters are empty, and what lies in front of the data fits on the      *)
(* volume: then no count of sectors is negative or larger than a word.     *)
IsVolume(bt) ==
  /\ bt.TotalSectorsInVolume \in Nat /\ bt.ExtendedSectorCount \in Nat
  /\ bt.SectorsPerFAT \in Nat /\ bt.SectorsPerFAT32 \in Nat /\ bt.FATCount \in Nat
  /\ bt.RootDirectoryEntries \in Nat /\ bt.ReservedSectors \in Nat
  /\ bt.BytesPerSector \in Nat \ {0} /\ bt.SectorsPerCluster \in Nat \ {0}
  /\ FatFirstData(bt) <= FatTotalSectors(bt)

(* By the number of clusters; the signatures of a FAT12 or FAT16 boot      *)
(* sector and of a FAT32 one lie at different offsets.                     *)
FatIdentify(bt) ==
  IF FatClusterCount(bt) < Max12 /\ bt.Signature THEN "FAT_12"
  ELSE IF FatClusterCount(bt) < Max16 /\ bt.Signature THEN "FAT_16"
  ELSE IF bt.Signature32 THEN "FAT_32"
  ELSE "FAT_UNKNOWN"

-----------------------------------------------------------------------------
(* An entry of the first allocation table.  The drive's buffer is longer   *)
(* than a sector and zero behind it: an entry that straddles two sectors   *)
(* is read without its second half.                                        *)


(* A byte of the buffer after the sector s was read into it. *)
Buffer(disk, bt, s, b) ==
  IF b < bt.BytesPerSector THEN disk[s * bt.BytesPerSector + b] ELSE 0

EntryByte(disk, bt, offset, k) ==
  Buffer(disk, bt, FatFirstFat(bt) + offset \div bt.BytesPerSector,
         (offset % bt.BytesPerSector) + k)

WORD(disk, bt, offset) ==
  EntryByte(disk, bt, offset, 0) + 256 * EntryByte(disk, bt, offset, 1)

(* Mutant of FatNextCluster32: its offset is that of a FAT16 entry. *)
FatNextClusterHalf(disk, bt, cluster) ==
  WORD(disk, bt, cluster * 2) + 65536 * (WORD(disk, bt, cluster * 2 + 2) % 4096)

(* The upper four bits of a FAT32 entry are dropped. *)
FatNextCluster32(disk, bt, cluster) ==
  WORD(disk, bt, cluster * 4) + 65536 * (WORD(disk, bt, cluster * 4 + 2) % 4096)

FatNextCluster16(disk, bt, cluster) == WORD(disk, bt, cluster * 2)

FatNextCluster12(disk, bt, cluster) ==
  LET entry == WORD(disk, bt, cluster + cluster \div 2)
  IN  IF cluster % 2 = 1 THEN entry \div 16 ELSE entry % 4096

FatNextCluster(disk, bt, cluster) ==
  CASE FatIdentify(bt) = "FAT_12" -> FatNextCluster12(disk, bt, cluster)
    [] FatIdentify(bt) = "FAT_16" -> FatNextCluster16(disk, bt, cluster)
    [] FatIdentify(bt) = "FAT_32" -> FatNextCluster32(disk, bt, cluster)
    [] OTHER -> -1

-----------------------------------------------------------------------------
(* Names and slots.                                                        *)

(* A name is a sequence of bytes without a slash, of which strtok has cut  *)
(* the path; an entry's name is a pair, padded with blanks.                *)
Strings == INSTANCE Text WITH Word <- 1, DigitBuffer <- 1

BLANK == 32
DOT   == 46
SLASH == 47

(* The characters of s before the first of those in stops, n at the most. *)
Upto(s, stops, n) ==
  LET ends == {i \in 1 .. Len(s) : s[i] \in stops}
      stop == IF ends = {} THEN Len(s) ELSE (CHOOSE i \in ends : \A j \in ends : i <= j) - 1
  IN  SubSeq(s, 1, IF stop < n THEN stop ELSE n)

After(s, n) == SubSeq(s, n + 1, Len(s))

Padded(s, n) == [i \in 1 .. n |-> IF i <= Len(s) THEN s[i] ELSE BLANK]

(* FatConvert83: a name of more than eight characters before its dot       *)
(* spills into the extension, and the dot with it.                         *)
FatConvert83(path) ==
  LET name == Upto(path, {DOT}, NameLen)
      rest == After(path, Len(name))
      ext  == IF rest # <<>> /\ Head(rest) = DOT THEN Tail(rest) ELSE rest
  IN  <<Padded(name, NameLen), Padded(Upto(ext, {SLASH}, ExtLen), ExtLen)>>

(* Names are the same whatever their letters' case. *)
SameName83(x, y) ==
  /\ Strings!ncsstrncmp(x[1], y[1], NameLen) = 0
  /\ Strings!ncsstrncmp(x[2], y[2], ExtLen) = 0

(* The word FatFindFreeEntry answers with (a full word wraps) and the      *)
(* three parts FatWriteDirectoryEntry takes from it.                       *)
Location(cluster, s, i) ==
  (cluster * HalfWord + s * Octet + i) % (HalfWord * HalfWord)

Located(location) ==
  <<location \div HalfWord, (location \div Octet) % Octet, location % Octet>>

-----------------------------------------------------------------------------
(* Paths.  A path is the sequence of its names, as strtok cuts it at the   *)
(* slashes.  A tree is a set of entries, a directory's in the order of     *)
(* their ids; a directory is known by its id, the root by 0, and what a    *)
(* file holds by its id too.                                               *)

ROOT == 0

(* FatLocateInDir: the first entry of that name, or none. *)
InDir(tree, d, name) ==
  LET same == {e \in tree : e.parent = d /\ SameName83(e.name, FatConvert83(name))}
  IN  {e \in same : \A f \in same : e.id <= f.id}
Entry(found) == CHOOSE e \in found : TRUE

(* In place of what a file holds: no buffer, and a buffer of a file that    *)
(* was not found, of which Location.Found is not looked at.                *)
NULL  == -1
EMPTY == -2

(* IDEReadFile: a component that is no directory leaves the search where   *)
(* it is; the last name is looked up once more in the directory reached,   *)
(* which is the directory itself when the path names one.                  *)
IDEReadFile(tree, path) ==
  LET at[n \in 0 .. Len(path)] ==   \* the directories reached, or {}: no such entry
        IF n = 0 THEN {ROOT}
        ELSE LET found == UNION {InDir(tree, d, path[n]) : d \in at[n - 1]} IN
             IF found = {} THEN {}
             ELSE IF Entry(found).dir THEN {Entry(found).id} ELSE at[n - 1]
  IN  IF path = <<>> \/ at[Len(path)] = {} THEN NULL
      ELSE LET last == UNION {InDir(tree, d, path[Len(path)]) : d \in at[Len(path)]}
           IN  IF last = {} THEN EMPTY ELSE Entry(last).id

(* IDEFileSize: here a component that is no directory ends the search. *)
IDEFileSize(tree, path) ==
  LET at[n \in 0 .. Len(path)] ==   \* the entry reached, or {}
        IF n = 0 THEN {[dir |-> TRUE, id |-> ROOT, size |-> 0]}
        ELSE UNION {InDir(tree, e.id, path[n]) : e \in {f \in at[n - 1] : f.dir}}
  IN  IF path = <<>> \/ at[Len(path)] = {} THEN 0 ELSE Entry(at[Len(path)]).size

(* IDEWriteFile: the directory a new file goes to, all but the last        *)
(* component being directories; {} is the answer -1.                       *)
WriteParent(tree, path) ==
  LET at[n \in 0 .. Len(path)] ==
        IF n = 0 THEN {ROOT}
        ELSE {e.id : e \in {f \in UNION {InDir(tree, d, path[n]) : d \in at[n - 1]} : f.dir}}
  IN  IF path = <<>> THEN {} ELSE at[Len(path) - 1]

-----------------------------------------------------------------------------
(* What these should compute.                                              *)

Sectors(from, n) == from .. from + n - 1

(* The regions of a volume do not overlap: reserved sectors, tables, root  *)
(* directory, and each cluster of those that a table has an entry for.     *)
RegionsDisjoint(bt) ==
  LET clusters == 2 .. FatClusterCount(bt) + 1
      of(c) == Sectors(FatFirstSectorForCluster(bt, c), bt.SectorsPerCluster)
  IN
  /\ FatFirstFat(bt) + bt.FATCount * FatSize(bt) <= FatFirstRoot(bt)
  /\ bt.RootDirectoryEntries * EntryBytes <= FatRootDirSize(bt) * bt.BytesPerSector
  /\ \A c \in clusters :
       /\ of(c) \subseteq FatFirstRoot(bt) + FatRootDirSize(bt) .. FatTotalSectors(bt) - 1
       /\ \A d \in clusters \ {c} : of(c) \cap of(d) = {}

Places == <<1, 16, 256, 4096, 65536, 1048576, 16777216, 268435456>>

HalfByte(disk, bt, n) ==
  LET byte == disk[FatFirstFat(bt) * bt.BytesPerSector + n \div 2]
  IN  IF n % 2 = 0 THEN byte % 16 ELSE byte \div 16

(* An entry by its definition: its hexadecimal digits, the lowest first,   *)
(* are so many half bytes of the table, of which a FAT32 entry does not    *)
(* use the last.                                                           *)
IsEntry(n, disk, bt, width, cluster) ==
  LET digits == IF width = 8 THEN 7 ELSE width IN
  /\ n \in 0 .. Places[digits + 1] - 1
  /\ \A k \in 0 .. digits - 1 :
       (n \div Places[k + 1]) % 16 = HalfByte(disk, bt, width * cluster + k)

Width(bt) == CASE FatIdentify(bt) = "FAT_12" -> 3
               [] FatIdentify(bt) = "FAT_16" -> 4
               [] OTHER -> 8

(* An entry of FAT12 that begins with the last byte of a sector. *)
Straddles(bt, cluster) ==
  /\ FatIdentify(bt) = "FAT_12"
  /\ (cluster + cluster \div 2) % bt.BytesPerSector = bt.BytesPerSector - 1

(* A name that is an 8.3 name: one dot at the most, and room for what is   *)
(* on either side of it.                                                   *)
Fits(name) ==
  \E n \in 1 .. NameLen, k \in 0 .. ExtLen :
    /\ Len(name) = IF k = 0 THEN n ELSE n + 1 + k
    /\ \A i \in 1 .. Len(name) : name[i] \notin {BLANK, SLASH} /\ (name[i] = DOT <=> i = n + 1)

Folded(name) == [i \in DOMAIN name |-> Strings!tolower(name[i])]

(* How an entry's name is written, without its blanks. *)
Spelled(name) ==
  LET part(s) == SelectSeq(s, LAMBDA c : c # BLANK)
  IN  IF part(name[2]) = <<>> THEN part(name[1])
      ELSE part(name[1]) \o <<DOT>> \o part(name[2])

(* The entry a path leads to, through directories only. *)
LeadsTo(tree, path, e) ==
  \E via \in [1 .. Len(path) -> tree] :
    /\ via[Len(path)] = e
    /\ \A i \in 1 .. Len(path) :
         /\ Folded(Spelled(via[i].name)) = Folded(path[i])
         /\ via[i].parent = IF i = 1 THEN ROOT ELSE via[i - 1].id
         /\ i < Len(path) => via[i].dir
=============================================================================
