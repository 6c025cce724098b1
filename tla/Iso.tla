-------------------------------- MODULE Iso --------------------------------
(***************************************************************************)
(* A compact disc: how its drive is found (drivers/dev/storage/disk.c) and *)
(* how files are looked up on it and read (drivers/fs/iso9660.c).          *)
(*                                                                         *)
(* disc maps the sectors that can be read to what they hold: a volume      *)
(* descriptor, the path table, a directory (the sequence of its records)   *)
(* or data.  A name is a sequence of bytes.                                *)
(***************************************************************************)
LOCAL INSTANCE Integers
LOCAL INSTANCE SequencesExt
LOCAL INSTANCE FiniteSetsExt

CONSTANTS
  SectorSize,         \* 2048: what a sector of data holds, in units
  FirstDesc, LastDesc,\* 16 and 32: where descriptors are looked for
  Parts,              \* 32: components of a path
  Slack               \* 128: what iso9660ReadFile reads too much

T == INSTANCE Text WITH Word <- 1, DigitBuffer <- 1   \* its string functions only

PRIMARY == 1
TERMINATOR == 255

SLASH == 47
SEMICOLON == 59
BLANK == 32

Upper(s) == [i \in DOMAIN s |-> T!toupper(s[i])]

CString(s) == SubSeq(s, 1, T!strlen(Append(s, 0)))

\* The components of a path, as strtok cuts it at the slashes.
Components(path) ==
  LET all == T!Tokens(path \o <<0>>, {SLASH})
  IN SubSeq(all, 1, Min({Len(all), Parts}))

-----------------------------------------------------------------------------
(* The drives: a master and a slave on each channel.                        *)
(* 0xA0 & (slave << 4) is 0 for both values of slave: whichever drive is    *)
(* asked for, the master answers.  A drive is one of                        *)
(*   "none"      no drive: the bus reads as all ones, an error,             *)
(*   "disk"      a hard disk, which knows no packets,                       *)
(*   "empty"     a CD drive without a disc,                                 *)
(*   "attention" one that has just been reset and says so first,            *)
(*   "ready"     one with a disc.                                           *)

Selected(channel, slave) == channel.master

cdDetect(drive) == drive \in {"empty", "attention", "ready"}

cdMediaPresent(drive) == drive = "ready"

cdDetectMedia(drive) ==
  IF ~cdDetect(drive) THEN 0 ELSE IF cdMediaPresent(drive) THEN 2 ELSE 1

\* The channel and the drive to read from; channel "0" when there is none.
cdInit(drives) ==
  LET asked(ch)  == cdDetectMedia(Selected(drives[ch], FALSE))
      slave(ch)  == asked(ch) = 0
      status(ch) == IF slave(ch) THEN cdDetectMedia(Selected(drives[ch], TRUE)) ELSE asked(ch)
  IN IF status("primary") = 2 THEN <<"primary", slave("primary")>>
     ELSE IF status("secondary") = 2 THEN <<"secondary", slave("secondary")>>
     ELSE <<"0", FALSE>>

cdRead(disc, lba, sectors) == lba..lba + sectors - 1 \subseteq DOMAIN disc

-----------------------------------------------------------------------------
(* Descriptors.  Failed stands for the answer false.                       *)

Failed == [ok |-> FALSE]

\* Until the terminator: the last primary descriptor counts.  A sector that
\* cannot be read, or a primary descriptor of another version, ends it at once.
iso9660ReadVolumeDescriptors(disc) ==
  LET found(p) == IF p = 0 THEN Failed ELSE [ok |-> TRUE, desc |-> disc[p]]
      from[lba \in FirstDesc..LastDesc, p \in {0} \cup FirstDesc..LastDesc] ==
        IF lba = LastDesc THEN found(p)
        ELSE IF ~cdRead(disc, lba, 1) THEN Failed
        ELSE CASE disc[lba].iden /\ disc[lba].type = PRIMARY ->
                    IF disc[lba].version # 1 THEN Failed ELSE from[lba + 1, lba]
               [] disc[lba].iden /\ disc[lba].type = TERMINATOR -> found(p)
               [] OTHER -> from[lba + 1, p]
  IN from[FirstDesc, 0]

-----------------------------------------------------------------------------
(* The path table: records of 8 bytes and a name, padded to even lengths.  *)

RecordBytes(rec) == 8 + Len(rec.name) + (Len(rec.name) % 2)

OffsetOf(table, k) ==
  FoldLeft(LAMBDA sum, rec : sum + RecordBytes(rec), 0, SubSeq(table, 1, k - 1))

\* The number the code gives the k-th directory: its offset over 8, plus 1,
\* which is k only while the names in front of it fit in 7 bytes together.
IndexOf(table, k) == OffsetOf(table, k) \div 8 + 1

\* A record's name is compared over its own length only; fold says whether
\* both are put in upper case first.
SameName(name, part, fold) ==
  LET f(s) == IF fold THEN Upper(s) ELSE s
  IN T!strncmp(f(CString(name)), f(part), Len(name)) = 0

\* Mutant of InTable: the parent is not looked at.
InTableAny(table, index, part, fold) ==
  {k \in DOMAIN table : SameName(table[k].name, part, fold)}

\* Records of the directory whose number is index that match a component.
InTable(table, index, part, fold) ==
  {k \in DOMAIN table : table[k].parent = index /\ SameName(table[k].name, part, fold)}

\* The place of the directory that the components lead to from lba, the root's;
\* 0 when one fails.
Walk(table, parts, lba, fold) ==
  LET at[n \in 0..Len(parts)] ==
        IF n = 0 THEN [index |-> 1, lba |-> lba]
        ELSE LET found == InTable(table, at[n - 1].index, parts[n], fold)
             IN IF at[n - 1].index = 0 \/ found = {} THEN [index |-> 0, lba |-> 0]
                ELSE [index |-> IndexOf(table, Min(found)), lba |-> table[Min(found)].lba]
  IN at[Len(parts)].lba

PathTable(disc, primary) == disc[primary.table].records

\* Only "" and "/" are the root; a path of more slashes answers true and
\* leaves the place as it was, which FindFile has set to 0.
iso9660FindDirectory(disc, primary, path) ==
  IF path \in {<<>>, <<SLASH>>} THEN [ok |-> TRUE, lba |-> primary.root]
  ELSE IF ~cdRead(disc, primary.table, 1) THEN Failed
  ELSE LET parts == Components(path)
           lba   == Walk(PathTable(disc, primary), parts, 0, TRUE)
       IN IF lba = 0 /\ parts # <<>> THEN Failed ELSE [ok |-> TRUE, lba |-> lba]

-----------------------------------------------------------------------------
(* Directories, of one sector.                                             *)

\* Up to the version.
CleanName(name) ==
  LET s == CString(name)
      n == T!strchr(Append(s, 0), 1, SEMICOLON)
  IN IF n = 0 THEN s ELSE SubSeq(s, 1, n - 1)

iso9660FindInDirectory(disc, lba, filename) ==
  IF ~cdRead(disc, lba, 1) THEN Failed
  ELSE LET found == {k \in DOMAIN disc[lba].records :
                       Upper(CleanName(disc[lba].records[k].name)) = Upper(filename)}
       IN IF found = {} THEN Failed
          ELSE [ok |-> TRUE, entry |-> disc[lba].records[Min(found)]]

iso9660FindFile(disc, primary, path) ==
  LET slash == T!strrchr(Append(path, 0), 1, SLASH)
      dir   == iso9660FindDirectory(disc, primary, SubSeq(path, 1, slash - 1))
  IN IF slash = 0 THEN iso9660FindInDirectory(disc, primary.root, path)
     ELSE IF ~dir.ok THEN Failed
     ELSE iso9660FindInDirectory(disc, dir.lba, SubSeq(path, slash + 1, Len(path)))

\* The names a listing shows, without "." and ".." and trailing blanks.
Trimmed(s) ==
  SubSeq(s, 1, Max({0} \cup {i \in DOMAIN s : s[i] # BLANK}))

iso9660ListDirectory(disc, lba) ==
  IF ~cdRead(disc, lba, 1) THEN Failed
  ELSE LET shown == SelectSeq(disc[lba].records, LAMBDA e : e.name \notin {<<0>>, <<1>>})
       IN [ok |-> TRUE,
           lines |-> [k \in DOMAIN shown |->
             [name |-> IF shown[k].name = <<>> THEN <<"(no name)">>
                       ELSE Trimmed(CleanName(shown[k].name)),
              size |-> shown[k].size, lba |-> shown[k].lba, dir |-> shown[k].dir]]]

iso9660ListDir(disc, primary, path) ==
  LET dir == iso9660FindDirectory(disc, primary, path)
  IN IF ~dir.ok THEN Failed ELSE iso9660ListDirectory(disc, dir.lba)

\* The same walk with cases told apart, and no rule for the root needed.
iso9660TraversePathTable(disc, primary, path) ==
  LET parts == Components(path)
      lba   == Walk(PathTable(disc, primary), parts, primary.root, FALSE)
  IN IF ~cdRead(disc, primary.table, 1) \/ lba = 0 THEN Failed
     ELSE iso9660ListDirectory(disc, lba)

-----------------------------------------------------------------------------
(* Files: Slack more than the size, sector by sector; one that cannot be   *)
(* read loses the file, also when it is behind the file's end.             *)

SectorsToRead(size) == (size + Slack + SectorSize - 1) \div SectorSize

iso9660ReadFile(disc, entry) ==
  IF ~cdRead(disc, entry.lba, SectorsToRead(entry.size)) THEN Failed
  ELSE [ok |-> TRUE,
        data |-> [b \in 1..entry.size + Slack |->
                    disc[entry.lba + (b - 1) \div SectorSize].data[((b - 1) % SectorSize) + 1]]]

-----------------------------------------------------------------------------
(* What a path should lead to.                                             *)

\* The entries that directories lead to by name, whatever the path table says.
Leads(disc, lba, parts) ==
  LET called(dir, part) == {e \in ToSet(disc[dir].records) :
                              Upper(CleanName(e.name)) = Upper(part)}
      to[n \in 1..Len(parts)] ==
        IF n = 1 THEN called(lba, parts[1])
        ELSE UNION {called(e.lba, parts[n]) : e \in {d \in to[n - 1] : d.dir}}
  IN to[Len(parts)]

\* Every directory's number is its place in the table, and among brothers no
\* name begins another.
Countable(table) ==
  /\ \A k \in DOMAIN table : IndexOf(table, k) = k
  /\ \A j, k \in DOMAIN table \ {1} :
       j # k /\ table[j].parent = table[k].parent => ~SameName(table[j].name, table[k].name, TRUE)
=============================================================================
