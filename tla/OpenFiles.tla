----------------------------- MODULE OpenFiles -----------------------------
(***************************************************************************)
(* The table of open files (drivers/fs/file.c), called by programs through *)
(* the system calls and by the font loader (tty/render/fonts.c).           *)
(*                                                                         *)
(* live is the set of heap blocks in use, Blocks the blocks there are; an  *)
(* allocation takes any block that is not in use, and which of two blocks  *)
(* lies higher is not modelled: where it decides, either may.  An          *)
(* allocation that finds no block stops the kernel (alloc.c, kmalloc), so  *)
(* none of the calls here goes on without its block.                       *)
(***************************************************************************)
EXTENDS Integers, FiniteSets, FiniteSetsExt

CONSTANTS
  MAX_FILES,
  Blocks,      \* of the heap
  Contents,    \* the drive: from paths to sequences of bytes
  Modes,       \* the sets of flags files are opened with
  MaxSize,     \* bound on what a file grows to
  Farthest,    \* bound: no read begins farther from a file's start
  FontBlocks   \* 3: the blocks a font keeps

CONSTANT NoBlock

OpenFilesAssumption ==
  /\ MAX_FILES \in Nat /\ MaxSize \in Nat /\ Farthest \in Nat
  /\ \A path \in DOMAIN Contents : Contents[path] \in 0..MaxSize

VARIABLES
  _iofiles,    \* from slots to files
  live,        \* from the blocks in use to the bytes they hold
  stored,      \* from the paths written to the size written last
  fonts        \* the fonts loaded: the blocks of each

openFilesVars == <<_iofiles, live, stored, fonts>>

Slots == 1..MAX_FILES

Closed == [flags |-> {}, base |-> NoBlock, path |-> NoBlock,
           ptr |-> 0, remaining |-> 0, size |-> 0, name |-> ""]

Unused == Blocks \ DOMAIN live

\* live with a block more, or without some.
With(b, n) == [x \in DOMAIN live \cup {b} |-> IF x = b THEN n ELSE live[x]]
Without(heap, bs) == [x \in DOMAIN heap \ bs |-> heap[x]]

OpenFilesInit ==
  /\ _iofiles = [i \in Slots |-> Closed]
  /\ live = [b \in {} |-> 0]
  /\ stored = [p \in {} |-> 0]
  /\ fonts = {}

\* What is found under a path: what was there before, or what was written over
\* it, as a write may leave the older file in front.
SizesOf(path) == {Contents[path]} \cup {stored[p] : p \in DOMAIN stored \cap {path}}

FAllocate == {i \in Slots : "PRESENT" \notin _iofiles[i].flags}

Opened(path, flags, size, base, name) ==
  [flags |-> flags, base |-> base, path |-> name, ptr |-> 0,
   remaining |-> size, size |-> size, name |-> path]

\* The whole file is read into a block, one byte longer than it is, before a
\* slot is looked for; the block is lost when there is none, and when the file
\* is empty.  The path is copied into a block of its own.
FOpen(path, flags) ==
  /\ "PRESENT" \in flags
  /\ path \in DOMAIN Contents
  /\ \E size \in SizesOf(path), b \in Unused :
       IF size = 0 \/ FAllocate = {}
       THEN /\ live' = With(b, size + 1)
            /\ UNCHANGED <<_iofiles, stored, fonts>>
       ELSE \E p \in Unused \ {b} :
              /\ live' = [x \in DOMAIN live \cup {b, p} |->
                            IF x = b THEN size + 1
                            ELSE IF x = p THEN 1 ELSE live[x]]
              /\ _iofiles' = [_iofiles EXCEPT ![Min(FAllocate)] = Opened(path, flags, size, b, p)]
              /\ UNCHANGED <<stored, fonts>>

\* Mutant of FClose: the slot is left as it is.
FCloseKept(i) ==
  LET f == _iofiles[i] IN
  /\ "PRESENT" \in f.flags
  /\ stored' = stored
  /\ live' = Without(live, {f.base})
  /\ UNCHANGED <<_iofiles, fonts>>

\* The block with the path goes back only when the file was to be written.  The
\* copy of the path has no final 0: what is written may go under another name.
FClose(i) ==
  LET f == _iofiles[i]
      written == "WRITABLE" \in f.flags
  IN
  /\ "PRESENT" \in f.flags
  /\ \/ stored' = stored
     \/ written /\ stored' = [p \in DOMAIN stored \cup {f.name} |->
                                 IF p = f.name THEN f.size ELSE stored[p]]
  /\ live' = Without(live, {f.base} \cup (IF written THEN {f.path} ELSE {}))
  /\ _iofiles' = [_iofiles EXCEPT ![i] = Closed]
  /\ UNCHANGED fonts

\* The pointer moves on; the count of bytes that remain does not, so that a
\* read that begins at the file's end copies what lies behind its block.
\* (Bound: none begins beyond Farthest.)
FRead(i, n) ==
  LET f == _iofiles[i] IN
  /\ n > 0
  /\ "READABLE" \in f.flags
  /\ f.remaining > 0
  /\ f.ptr <= Farthest
  /\ _iofiles' = [_iofiles EXCEPT ![i].ptr = @ + Min({n, f.remaining})]
  /\ UNCHANGED <<live, stored, fonts>>

\* Behind the end of the file, whatever has been read.  The position kept is a
\* difference of pointers into two blocks, cut to the old size: it is that size
\* unless reading has left the block.  (Bound: a file grows to MaxSize.)
FWrite(i, n) ==
  LET f == _iofiles[i] IN
  /\ n > 0
  /\ "WRITABLE" \in f.flags
  /\ f.size + n <= MaxSize
  /\ \E b \in Unused, old \in IF f.ptr <= f.size THEN {f.size} ELSE 0..f.size :
       /\ live' = Without(With(b, f.size + n), {f.base})
       /\ _iofiles' = [_iofiles EXCEPT ![i].base = b,
                                       ![i].ptr = old,
                                       ![i].remaining = f.size + n - old,
                                       ![i].size = f.size + n]
  /\ UNCHANGED <<stored, fonts>>

\* The font loader opens a file, copies it, and closes it: of a good file it
\* keeps the font, its bitmap and its name; of every one it loses the path.
FontLoad(path, good) ==
  /\ SizesOf(path) # {0}
  /\ IF FAllocate = {}
     THEN \E size \in SizesOf(path) \ {0}, b \in Unused :
            live' = With(b, size + 1) /\ UNCHANGED fonts
     ELSE \E p \in Unused :
            IF ~good THEN /\ live' = With(p, 1)
                          /\ UNCHANGED fonts
            ELSE \E keep \in kSubset(FontBlocks, Unused \ {p}) :
                   /\ live' = [x \in DOMAIN live \cup {p} \cup keep |->
                                 IF x \in DOMAIN live THEN live[x] ELSE 1]
                   /\ fonts' = fonts \cup {keep}
  /\ UNCHANGED <<_iofiles, stored>>

OpenFilesNext ==
  \/ \E path \in DOMAIN Contents, flags \in Modes : FOpen(path, flags)
  \/ \E i \in Slots : \/ FClose(i)
                      \/ \E n \in 1..MaxSize : FRead(i, n) \/ FWrite(i, n)
  \/ \E path \in DOMAIN Contents, good \in BOOLEAN : FontLoad(path, good)

OpenFilesSpec == OpenFilesInit /\ [][OpenFilesNext]_openFilesVars

-----------------------------------------------------------------------------
OpenFilesTypeOK ==
  /\ \A i \in Slots : /\ _iofiles[i].size \in 0..MaxSize
                      /\ _iofiles[i].ptr \in 0..Farthest + MaxSize
                      /\ _iofiles[i].remaining \in 0..MaxSize
  /\ DOMAIN live \subseteq Blocks
  /\ DOMAIN stored \subseteq DOMAIN Contents

\* The blocks an open file keeps are live and its own: the one with its bytes
\* holds all of them, and neither is another file's, path's or font's.  A file is
\* closed by one process and its slot opened by another while the table, the
\* heap and the drive each keep a part of it (file.c:21-117).  How far a
\* read goes from the block's start is not claimed: FRead does not look.
FilesOwnBlocks ==
  \A i \in Slots : "PRESENT" \in _iofiles[i].flags =>
    LET f == _iofiles[i] IN
    /\ {f.base, f.path} \subseteq DOMAIN live
    /\ f.size <= live[f.base]
    /\ f.base # f.path
    /\ {f.base, f.path} \cap UNION fonts = {}
    /\ \A j \in Slots \ {i} : {f.base, f.path} \cap {_iofiles[j].base, _iofiles[j].path} \subseteq {NoBlock}
=============================================================================
