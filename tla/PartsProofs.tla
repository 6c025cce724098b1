---------------------------- MODULE PartsProofs ----------------------------
(***************************************************************************)
(* Proofs about three more parts of Parts: that the loader's images keep   *)
(* the memory they were given, and stay linked, for every set of well-     *)
(* formed files, every memory and every sequence of loads; what a transfer *)
(* of the disk driver moves, for every machine and every 32-bit sector     *)
(* number; that open files own their blocks, for every number of slots,    *)
(* every heap and every drive. And with the invariants of all parts: their *)
(* variables keep their types.                                             *)
(***************************************************************************)
EXTENDS ConsoleProofs

-----------------------------------------------------------------------------
(* Loaded images: the inductive invariant.                                 *)

ImageType ==
  [file : Files, at : Addresses \cup {0}, off : Seq(Int),
   answer : {"loaded", "not_elf", "unlinked"}]

LoadType ==
  [pc : {"idle", "one", "two", "stack"}, file : Files \cup {<<>>},
   at : Addresses \cup {0}, off : Seq(Int), i : Nat \ {0}, j : Nat \ {0}]

Types ==
  /\ externs \in Seq(STRING \X Int)
  /\ \A k \in DOMAIN externs : k \in DOMAIN Symbols /\ externs[k] = Symbols[k]
  /\ images \in Seq(ImageType) /\ load \in LoadType
  /\ load.pc # "idle" => load.file \in Files
  /\ load.pc \in {"one", "two"} => load.file.type = "REL"
  /\ load.pc = "one" => load.j = 1

(* The blocks given out lie apart.                                         *)
Apart ==
  /\ \A b \in heap : /\ b.at \in Addresses /\ b.size \in Nat \ {0} /\ b.at + b.size <= WORDS
  /\ \A b, d \in heap : b # d => b.at + b.size <= d.at \/ d.at + d.size <= b.at

(* The images, and last the one that is being loaded.                      *)
Current ==
  IF load.pc = "idle" THEN images
  ELSE Append(images, [file |-> load.file, at |-> load.at, off |-> load.off,
                       answer |-> "loaded"])

Copies == {a \in 1 .. Len(Current) : Current[a].answer = "loaded"}
Complete(a) == a <= Len(images)
FileOf(a) == Current[a].file
Sections(a) == FileOf(a).sections

(* What copy a holds: its own block, by 0, and one for each section that   *)
(* has memory of its own and has got it.                                   *)
Has(a, s) ==
  \/ s = 0
  \/ /\ s \in DOMAIN Sections(a) /\ FileOf(a).type = "REL" /\ E!Uninitialised(Sections(a)[s])
     /\ Complete(a) \/ load.pc # "one" \/ s < load.i

Place(a, s) == IF s = 0 THEN Current[a].at ELSE E!Mod(Current[a].at + Current[a].off[s])

BlockOf(a, s) ==
  IF s = 0 THEN E!Block(Place(a, s), FileOf(a).size, "image")
  ELSE E!Block(Place(a, s), Sections(a)[s].size, "bss")

Held ==
  \A a \in Copies : \A s \in Nat : Has(a, s) => BlockOf(a, s) \in heap

Distinct ==
  \A a, b \in Copies : \A s, t \in Nat :
    Has(a, s) /\ Has(b, t) /\ <<a, s>> # <<b, t>> => Place(a, s) # Place(b, t)

Offsets ==
  \A a \in Copies :
    /\ FileOf(a).magic /\ DOMAIN Current[a].off = DOMAIN Sections(a)
    /\ \A s \in DOMAIN Sections(a) :
         ~E!Uninitialised(Sections(a)[s]) => Current[a].off[s] = Sections(a)[s].offset

(* The relocations of a copy that have been applied.                       *)
Applied(a, i, j) ==
  \/ Complete(a) \/ load.pc = "stack"
  \/ load.pc = "two" /\ (i < load.i \/ (i = load.i /\ j < load.j))

(* A word that a relocation has not yet rewritten is as the file has it.   *)
Relocated ==
  \A a \in Copies : FileOf(a).type = "REL" =>
    \A i \in DOMAIN Sections(a) : \A j \in DOMAIN Sections(a)[i].rels :
      /\ Current[a].at + E!WordOf(FileOf(a), i, j) \in DOMAIN words
      /\ IF Applied(a, i, j) THEN E!Linked(Current[a], i, j)
         ELSE words[Current[a].at + E!WordOf(FileOf(a), i, j)]
                = FileOf(a).words[E!WordOf(FileOf(a), i, j)]

ImagesInv == Types /\ Apart /\ Held /\ Distinct /\ Offsets /\ Relocated
-----------------------------------------------------------------------------
(* Facts about addresses, files and copies.                                *)

LEMMA Constants ==
  /\ WORDS \in Nat \ {0} /\ Addresses \subseteq 1 .. WORDS - 2
  /\ \A f \in Files : f.magic => E!WellFormed(f)
  /\ Symbols \in Seq(STRING \X Int) /\ MaxLoads \in Nat
BY PartsAssumption DEF E!ElfAssumption

LEMMA AddressFacts == Addresses \subseteq Nat
BY Constants

LEMMA ModFacts ==
  /\ \A n \in 0 .. WORDS - 1 : E!Mod(n) = n
  /\ \A n \in Int : E!Mod(n) \in 0 .. WORDS - 1
BY Constants DEF E!Mod

(* An offset that leads elsewhere, around the end of memory if need be.    *)
LEMMA OffsetLeads ==
  ASSUME NEW from \in Addresses, NEW to \in Addresses
  PROVE  E!Mod(from + E!Mod(to - from)) = to /\ E!Mod(to - from) \in Int
<1>1. WORDS \in Nat /\ from \in 0 .. WORDS - 1 /\ to \in 0 .. WORDS - 1
  BY Constants
<1>2. E!Mod(to - from) = IF to >= from THEN to - from ELSE to - from + WORDS
  BY <1>1 DEF E!Mod
<1>3. CASE to >= from
  BY <1>1, <1>2, <1>3 DEF E!Mod
<1>4. CASE ~(to >= from)
  <2>1. from + E!Mod(to - from) = to + WORDS
    BY <1>1, <1>2, <1>4
  <2>2. E!Mod(to + WORDS) = to
    BY <1>1 DEF E!Mod
  <2>3. QED
    BY <1>1, <1>2, <1>4, <2>1, <2>2
<1>5. QED
  BY <1>3, <1>4

LEMMA ElementOf ==
  ASSUME NEW S, NEW q \in Seq(S), NEW k \in DOMAIN q
  PROVE  q[k] \in S
OBVIOUS

LEMMA FileFacts ==
  ASSUME NEW f \in Files, f.magic
  PROVE  /\ f.size \in Nat \ {0} /\ DOMAIN f.sections = 1 .. Len(f.sections)
         /\ Len(f.sections) \in Nat
         /\ \A s \in DOMAIN f.sections :
              /\ f.sections[s] \in E!SectionType
              /\ f.sections[s].offset \in Nat /\ f.sections[s].size \in Nat
              /\ DOMAIN f.sections[s].rels = 1 .. Len(f.sections[s].rels)
              /\ Len(f.sections[s].rels) \in Nat
              /\ \A j \in DOMAIN f.sections[s].rels :
                   f.sections[s].rels[j].offset \in Nat /\ f.sections[s].rels[j].sym \in Nat
<1>1. E!WellFormed(f)
  BY Constants
<1>2. f.sections \in Seq(E!SectionType) /\ f.size \in Nat \ {0}
  BY <1>1 DEF E!WellFormed
<1>3. ASSUME NEW s \in DOMAIN f.sections
      PROVE  /\ f.sections[s] \in E!SectionType
             /\ f.sections[s].offset \in Nat /\ f.sections[s].size \in Nat
             /\ f.sections[s].rels \in Seq([offset : Nat, sym : Nat, type : STRING])
  <2>1. f.sections[s] \in E!SectionType
    BY <1>2
  <2>2. QED
    BY <2>1 DEF E!SectionType
<1>4. ASSUME NEW s \in DOMAIN f.sections
      PROVE  /\ DOMAIN f.sections[s].rels = 1 .. Len(f.sections[s].rels)
             /\ Len(f.sections[s].rels) \in Nat
             /\ \A j \in DOMAIN f.sections[s].rels :
                  f.sections[s].rels[j].offset \in Nat /\ f.sections[s].rels[j].sym \in Nat
  <2>1. f.sections[s].rels \in Seq([offset : Nat, sym : Nat, type : STRING])
    BY <1>3
  <2>2. ASSUME NEW j \in DOMAIN f.sections[s].rels
        PROVE  f.sections[s].rels[j] \in [offset : Nat, sym : Nat, type : STRING]
    BY <2>1, <2>2, ElementOf
  <2>3. QED
    BY <2>1, <2>2
<1>5. DOMAIN f.sections = 1 .. Len(f.sections) /\ Len(f.sections) \in Nat
  BY <1>2
<1>6. QED
  BY <1>2, <1>3, <1>4, <1>5

CurrentIs ==
  /\ Len(images) \in Nat /\ Len(Current) \in Nat
  /\ \A a \in Copies : a \in Nat \ {0} /\ Current[a] \in ImageType
  /\ \A a \in 1 .. Len(images) : a \in 1 .. Len(Current) /\ Current[a] = images[a]
  /\ load.pc = "idle" => Current = images /\ \A a \in Copies : a \in 1 .. Len(images)
  /\ load.pc # "idle" =>
       /\ Len(Current) = Len(images) + 1 /\ Len(images) + 1 \in Copies
       /\ \A a \in Copies : a \in 1 .. Len(images) \/ a = Len(images) + 1
       /\ Current[Len(images) + 1] = [file |-> load.file, at |-> load.at, off |-> load.off,
                                      answer |-> "loaded"]

LEMMA CurrentFacts == Types => CurrentIs
<1> SUFFICES ASSUME Types PROVE CurrentIs
  OBVIOUS
<1> DEFINE new == [file |-> load.file, at |-> load.at, off |-> load.off, answer |-> "loaded"]
<1>1. images \in Seq(ImageType) /\ load \in LoadType
  BY DEF Types
<1>2. CASE load.pc = "idle"
  BY <1>1, <1>2 DEF Current, Copies, CurrentIs
<1>3. CASE load.pc # "idle"
  <2>1. new \in ImageType
    BY <1>1, <1>3 DEF Types, LoadType, ImageType
  <2>2. Current = Append(images, new)
    BY <1>3 DEF Current
  <2>3. new.answer = "loaded"
    OBVIOUS
  <2> HIDE DEF new
  <2>4. /\ Current \in Seq(ImageType) /\ Len(Current) = Len(images) + 1
        /\ Current[Len(images) + 1] = new /\ Len(images) \in Nat
        /\ \A a \in 1 .. Len(images) : Current[a] = images[a]
    BY <1>1, <2>1, <2>2
  <2>5. QED
    BY <1>3, <2>3, <2>4 DEF Copies, CurrentIs, new
<1>4. QED
  BY <1>2, <1>3

LEMMA CurrentNext == Types' => CurrentIs'
BY CurrentFacts, PTL

(* Where a copy's relocated words are.                                     *)
LEMMA WordFacts ==
  ASSUME ImagesInv, NEW a \in Copies, FileOf(a).type = "REL",
         NEW i \in DOMAIN Sections(a), NEW j \in DOMAIN Sections(a)[i].rels
  PROVE  /\ E!WordOf(FileOf(a), i, j) \in 0 .. FileOf(a).size - 1
         /\ FileOf(a).words[E!WordOf(FileOf(a), i, j)] \in 0 .. WORDS - 1
         /\ E!Block(Current[a].at, FileOf(a).size, "image") \in heap
         /\ Current[a].at \in Addresses /\ Current[a].at + FileOf(a).size <= WORDS
         /\ FileOf(a).size \in Nat
         /\ E!Relocatable(FileOf(a))
<1>1. FileOf(a) \in Files /\ FileOf(a).magic
  BY CurrentFacts DEF CurrentIs, ImagesInv, FileOf, ImageType, Offsets
<1>2. E!Relocatable(FileOf(a)) /\ E!WellFormed(FileOf(a))
  BY <1>1, Constants DEF E!WellFormed
<1>3. E!WordOf(FileOf(a), i, j) \in DOMAIN FileOf(a).words
  BY <1>2 DEF E!Relocatable, Sections
<1>4. E!Block(Current[a].at, FileOf(a).size, "image") \in heap
  <2>1. Has(a, 0) /\ BlockOf(a, 0) = E!Block(Current[a].at, FileOf(a).size, "image")
    BY DEF Has, BlockOf, Place
  <2>2. QED
    BY <2>1 DEF ImagesInv, Held
<1>5. Current[a].at \in Addresses /\ Current[a].at + FileOf(a).size <= WORDS
  BY <1>4 DEF ImagesInv, Apart, E!Block
<1>6. QED
  BY <1>1, <1>2, <1>3, <1>4, <1>5, FileFacts DEF E!WellFormed

(* Two blocks at one place are one.                                        *)
LEMMA BlocksApart ==
  ASSUME Apart, NEW b \in heap, NEW d \in heap, b.at # d.at
  PROVE  /\ b.at \in Nat /\ d.at \in Nat /\ b.size \in Nat \ {0} /\ d.size \in Nat \ {0}
         /\ b.at + b.size <= d.at \/ d.at + d.size <= b.at
<1>1. b.at \in Addresses /\ d.at \in Addresses /\ b.size \in Nat \ {0} /\ d.size \in Nat \ {0}
  BY DEF Apart
<1>2. b.at + b.size <= d.at \/ d.at + d.size <= b.at
  BY DEF Apart
<1>3. Addresses \subseteq Nat
  BY Constants
<1>4. QED
  BY <1>1, <1>2, <1>3

(* What lies in the copies at a step that moves none of them.              *)
LEMMA MemoryKept ==
  ASSUME ImagesInv, Copies' \subseteq Copies,
         \A a \in Copies' : Current'[a] = Current[a],
         \A a \in Copies' : \A s \in Nat : Has(a, s)' => Has(a, s),
         \A a \in Copies' : \A s \in Nat : Has(a, s) => BlockOf(a, s) \in heap'
  PROVE  Held' /\ Distinct' /\ Offsets'
<1>1. ASSUME NEW a \in Copies', NEW s \in Nat
      PROVE  Place(a, s)' = Place(a, s) /\ BlockOf(a, s)' = BlockOf(a, s)
  BY DEF Place, BlockOf, FileOf, Sections
<1>2. Held'
  BY <1>1 DEF Held
<1>3. Distinct'
  <2>1. ASSUME NEW a \in Copies', NEW b \in Copies', NEW s \in Nat, NEW t \in Nat,
               Has(a, s)', Has(b, t)', <<a, s>> # <<b, t>>
        PROVE  Place(a, s)' # Place(b, t)'
    <3>1. Has(a, s) /\ Has(b, t) /\ a \in Copies /\ b \in Copies
      BY <2>1
    <3>2. Place(a, s) # Place(b, t)
      BY <2>1, <3>1 DEF ImagesInv, Distinct
    <3>3. QED
      BY <1>1, <3>2
  <2>2. QED
    BY <2>1 DEF Distinct
<1>4. Offsets'
  BY DEF ImagesInv, Offsets, FileOf, Sections
<1>5. QED
  BY <1>2, <1>3, <1>4

(* A word that is as it was is linked as it was.                           *)
LEMMA LinkKept ==
  ASSUME NEW im, NEW i, NEW j,
         words'[im.at + E!WordOf(im.file, i, j)] = words[im.at + E!WordOf(im.file, i, j)]
  PROVE  E!Linked(im, i, j)' <=> E!Linked(im, i, j)
BY DEF E!Linked, E!Holds, E!SymbolAt, E!Mod

(* Copies keep their files and places, and also their offsets once a word  *)
(* is linked; a word is as it was, or linked by the step.                  *)
LEMMA WordsKept ==
  ASSUME ImagesInv, Copies' \subseteq Copies,
         \A a \in Copies' :
           Current'[a].file = Current[a].file /\ Current'[a].at = Current[a].at,
         \A a \in Copies' : FileOf(a).type = "REL" =>
           \A i \in DOMAIN Sections(a) : \A j \in DOMAIN Sections(a)[i].rels :
             /\ Current[a].at + E!WordOf(FileOf(a), i, j) \in DOMAIN words'
             /\ \/ Applied(a, i, j)' /\ E!Linked(Current[a], i, j)'
                \/ /\ Applied(a, i, j)' <=> Applied(a, i, j)
                   /\ Applied(a, i, j) => Current'[a] = Current[a]
                   /\ words'[Current[a].at + E!WordOf(FileOf(a), i, j)]
                        = words[Current[a].at + E!WordOf(FileOf(a), i, j)]
  PROVE  Relocated'
<1>1. ASSUME NEW a \in Copies', FileOf(a)'.type = "REL", NEW i \in DOMAIN Sections(a)',
             NEW j \in DOMAIN Sections(a)'[i].rels
      PROVE  /\ Current'[a].at + E!WordOf(FileOf(a), i, j)' \in DOMAIN words'
             /\ IF Applied(a, i, j)' THEN E!Linked(Current[a], i, j)'
                ELSE words'[Current'[a].at + E!WordOf(FileOf(a), i, j)']
                       = FileOf(a)'.words[E!WordOf(FileOf(a), i, j)']
  <2>1. PICK im : im = Current[a]
    OBVIOUS
  <2>2. /\ FileOf(a) = im.file /\ FileOf(a)' = im.file /\ Current'[a].at = im.at
        /\ Sections(a) = im.file.sections /\ Sections(a)' = im.file.sections
    BY <2>1 DEF FileOf, Sections
  <2>3. E!WordOf(FileOf(a), i, j)' = E!WordOf(im.file, i, j)
    BY <2>2 DEF E!WordOf
  <2>4. im.at + E!WordOf(im.file, i, j) \in DOMAIN words'
    BY <1>1, <2>1, <2>2
  <2>5. CASE Applied(a, i, j)' /\ E!Linked(Current[a], i, j)'
    BY <2>2, <2>3, <2>4, <2>5
  <2>6. CASE /\ Applied(a, i, j)' <=> Applied(a, i, j)
             /\ Applied(a, i, j) => Current'[a] = Current[a]
             /\ words'[Current[a].at + E!WordOf(FileOf(a), i, j)]
                  = words[Current[a].at + E!WordOf(FileOf(a), i, j)]
    <3>1. words'[im.at + E!WordOf(im.file, i, j)] = words[im.at + E!WordOf(im.file, i, j)]
      BY <2>1, <2>2, <2>6
    <3>2. E!Linked(im, i, j)' <=> E!Linked(im, i, j)
      BY <3>1, LinkKept
    <3>3. IF Applied(a, i, j) THEN E!Linked(im, i, j)
          ELSE words[im.at + E!WordOf(im.file, i, j)] = im.file.words[E!WordOf(im.file, i, j)]
      BY <1>1, <2>1, <2>2 DEF ImagesInv, Relocated
    <3>4. ASSUME Applied(a, i, j)
          PROVE  E!Linked(Current[a], i, j)' <=> E!Linked(im, i, j)'
      <4>1. im = Current'[a]
        BY <2>1, <2>6, <3>4
      <4>2. QED
        BY <4>1 DEF E!Linked, E!Holds, E!SymbolAt, E!Mod, E!WordOf
    <3>5. QED
      BY <2>2, <2>3, <2>4, <2>6, <3>1, <3>2, <3>3, <3>4
  <2>7. FileOf(a).type = "REL" /\ i \in DOMAIN Sections(a) /\ j \in DOMAIN Sections(a)[i].rels
    BY <1>1, <2>2
  <2>8. \/ Applied(a, i, j)' /\ E!Linked(Current[a], i, j)'
        \/ /\ Applied(a, i, j)' <=> Applied(a, i, j)
           /\ Applied(a, i, j) => Current'[a] = Current[a]
           /\ words'[Current[a].at + E!WordOf(FileOf(a), i, j)]
                = words[Current[a].at + E!WordOf(FileOf(a), i, j)]
    BY <2>7
  <2>9. QED
    BY <2>5, <2>6, <2>8
<1>2. QED
  BY <1>1 DEF Relocated

-----------------------------------------------------------------------------
(* Every step keeps the invariant.                                         *)

(* Steps that neither allocate nor write.                                  *)
LEMMA QuietKeeps ==
  ASSUME ImagesInv, Types', UNCHANGED <<heap, words>>, Copies' \subseteq Copies,
         \A a \in Copies' : Current'[a] = Current[a],
         \A a \in Copies' : \A s \in Nat : Has(a, s)' => Has(a, s),
         \A a \in Copies' : FileOf(a).type = "REL" =>
           \A i \in DOMAIN Sections(a) : \A j \in DOMAIN Sections(a)[i].rels :
             Applied(a, i, j)' <=> Applied(a, i, j)
  PROVE  ImagesInv'
<1>1. Held' /\ Distinct' /\ Offsets'
  <2>1. \A a \in Copies' : \A s \in Nat : Has(a, s) => BlockOf(a, s) \in heap'
    BY DEF ImagesInv, Held
  <2>2. QED
    BY <2>1, MemoryKept
<1>2. Relocated'
  <2>1. \A a \in Copies' : FileOf(a).type = "REL" =>
          \A i \in DOMAIN Sections(a) : \A j \in DOMAIN Sections(a)[i].rels :
            Current[a].at + E!WordOf(FileOf(a), i, j) \in DOMAIN words'
    BY DEF ImagesInv, Relocated
  <2>2. QED
    BY <2>1, WordsKept
<1>3. Apart'
  BY DEF ImagesInv, Apart
<1>4. QED
  BY <1>1, <1>2, <1>3 DEF ImagesInv

(* Nor changes the load.                                                   *)
LEMMA StillKeeps ==
  ASSUME ImagesInv, Types', UNCHANGED <<heap, words, images, load>>
  PROVE  ImagesInv'
<1>1. Current' = Current /\ Copies' = Copies
  BY DEF Current, Copies
<1>2. \A a \in Copies' : \A s \in Nat : Has(a, s)' => Has(a, s)
  BY <1>1 DEF Has, Complete, FileOf, Sections
<1>3. \A a \in Copies' : \A i, j : Applied(a, i, j)' <=> Applied(a, i, j)
  BY DEF Applied, Complete
<1>4. QED
  BY <1>1, <1>2, <1>3, QuietKeeps

LEMMA RegisterKeeps ==
  ASSUME ImagesInv, E!Register
  PROVE  ImagesInv'
<1>1. UNCHANGED <<heap, words, images, load>>
  BY DEF E!Register
<1>2. Types'
  <2>1. /\ externs' = Append(externs, Symbols[Len(externs) + 1]) /\ Len(externs) < Len(Symbols)
        /\ externs \in Seq(STRING \X Int)
        /\ \A k \in DOMAIN externs : k \in DOMAIN Symbols /\ externs[k] = Symbols[k]
    BY DEF E!Register, ImagesInv, Types
  <2>2. Symbols[Len(externs) + 1] \in STRING \X Int /\ Len(externs) + 1 \in DOMAIN Symbols
    BY <2>1, Constants
  <2>3. /\ externs' \in Seq(STRING \X Int)
        /\ \A k \in DOMAIN externs' : k \in DOMAIN Symbols /\ externs'[k] = Symbols[k]
    BY <2>1, <2>2
  <2>4. QED
    BY <1>1, <2>3 DEF ImagesInv, Types
<1>3. QED
  BY <1>1, <1>2, StillKeeps

(* A file that is not taken leaves a copy neither before nor after.        *)
LEMMA RefusedIsNoCopy ==
  ASSUME ImagesInv, NEW f \in Files, NEW answer \in {"not_elf", "unlinked"},
         E!Refuse(f, answer), load'.pc = "idle"
  PROVE  /\ images' \in Seq(ImageType) /\ Len(images') = Len(images) + 1
         /\ Copies' \subseteq Copies /\ \A a \in Copies' : a \in 1 .. Len(images)
         /\ \A a \in Copies' : Current'[a] = Current[a]
<1> DEFINE new == [file |-> f, at |-> 0, off |-> <<>>, answer |-> answer]
<1>1. images' = Append(images, new) /\ images \in Seq(ImageType) /\ Current' = images'
  BY DEF E!Refuse, ImagesInv, Types, Current
<1>2. new \in ImageType /\ new.answer # "loaded"
  BY DEF ImageType
<1> HIDE DEF new
<1>3. /\ images' \in Seq(ImageType) /\ Len(images') = Len(images) + 1 /\ Len(images) \in Nat
      /\ images'[Len(images) + 1] = new
      /\ \A a \in 1 .. Len(images) : images'[a] = images[a]
  BY <1>1, <1>2
<1>4. \A a \in 1 .. Len(images) : a \in 1 .. Len(Current) /\ Current[a] = images[a]
  BY CurrentFacts DEF CurrentIs, ImagesInv
<1>5. \A a \in Copies' : a \in 1 .. Len(images)
  BY <1>1, <1>2, <1>3 DEF Copies
<1>6. QED
  BY <1>1, <1>3, <1>4, <1>5 DEF Copies

LEMMA RefuseKeeps ==
  ASSUME ImagesInv, NEW f \in Files, load.pc = "idle", E!Refuse(f, "not_elf"),
         UNCHANGED <<externs, heap, words, load>>
  PROVE  ImagesInv'
<1>1. /\ images' \in Seq(ImageType) /\ Len(images') = Len(images) + 1
      /\ Copies' \subseteq Copies /\ \A a \in Copies' : a \in 1 .. Len(images)
      /\ \A a \in Copies' : Current'[a] = Current[a] /\ Len(images) \in Nat
  BY RefusedIsNoCopy, CurrentFacts DEF CurrentIs, ImagesInv
<1>2. Types'
  BY <1>1 DEF ImagesInv, Types
<1>3. \A a \in Copies' : Complete(a) /\ Complete(a)'
  BY <1>1 DEF Complete
<1>4. \A a \in Copies' : \A s \in Nat : Has(a, s)' => Has(a, s)
  BY <1>1, <1>3 DEF Has, FileOf, Sections
<1>5. \A a \in Copies' : \A i, j : Applied(a, i, j)' <=> Applied(a, i, j)
  BY <1>3 DEF Applied
<1>6. QED
  BY <1>1, <1>2, <1>4, <1>5, QuietKeeps

(* A new block lies apart from the others.                                 *)
LEMMA BlockAdded ==
  ASSUME Apart, NEW adr \in Addresses, NEW size \in Nat \ {0}, NEW use,
         E!Fits(adr, size), heap' = heap \cup {E!Block(adr, size, use)}
  PROVE  /\ Apart'
         /\ \A b \in heap : b.at # adr /\ (b.at + b.size <= adr \/ adr + size <= b.at)
<1> DEFINE new == E!Block(adr, size, use)
<1>1. new.at = adr /\ new.size = size
  BY DEF E!Block
<1>2. adr + size <= WORDS /\ \A b \in heap : adr + size <= b.at \/ b.at + b.size <= adr
  BY DEF E!Fits
<1> HIDE DEF new
<1>3. \A b \in heap : b.at # adr
  <2>1. \A b \in heap : b.at \in Addresses /\ b.size \in Nat \ {0}
    BY DEF Apart
  <2>2. Addresses \subseteq Nat
    BY Constants
  <2>3. QED
    BY <1>2, <2>1, <2>2
<1>4. heap' = heap \cup {new}
  BY DEF new
<1>5. Apart'
  BY <1>1, <1>2, <1>4 DEF Apart
<1>6. QED
  BY <1>2, <1>3, <1>5

(* A block more is held by one of the copies.                              *)
Gets(z, t, new) ==
  /\ heap' = heap \cup {new} /\ \A b \in heap : b.at # new.at
  /\ \A a \in Copies' : \A s \in Nat : Has(a, s)' =>
       IF a = z /\ s = t THEN BlockOf(a, s)' = new
       ELSE a \in Copies /\ Has(a, s) /\ BlockOf(a, s)' = BlockOf(a, s)

LEMMA MemoryGrown ==
  ASSUME ImagesInv, NEW z, NEW t, NEW new, Gets(z, t, new)
  PROVE  Held' /\ Distinct'
<1>0. /\ heap' = heap \cup {new} /\ \A b \in heap : b.at # new.at
      /\ \A a \in Copies' : \A s \in Nat : Has(a, s)' =>
           IF a = z /\ s = t THEN BlockOf(a, s)' = new
           ELSE a \in Copies /\ Has(a, s) /\ BlockOf(a, s)' = BlockOf(a, s)
  BY DEF Gets
<1>1. \A a, s : BlockOf(a, s).at = Place(a, s) /\ BlockOf(a, s)'.at = Place(a, s)'
  BY DEF BlockOf, E!Block
<1>2. ASSUME NEW a \in Copies, NEW s \in Nat, Has(a, s)
      PROVE  BlockOf(a, s) \in heap
  BY <1>2 DEF ImagesInv, Held
<1>3. Held'
  BY <1>0, <1>2 DEF Held
<1>4. Distinct'
  <2>1. ASSUME NEW a \in Copies', NEW b \in Copies', NEW s \in Nat, NEW u \in Nat,
               Has(a, s)', Has(b, u)', <<a, s>> # <<b, u>>
        PROVE  BlockOf(a, s)'.at # BlockOf(b, u)'.at
    <3>1. CASE a = z /\ s = t
      <4>1. BlockOf(a, s)' = new /\ BlockOf(b, u)' \in heap
        BY <1>0, <1>2, <2>1, <3>1
      <4>2. QED
        BY <1>0, <4>1
    <3>2. CASE b = z /\ u = t
      <4>1. BlockOf(b, u)' = new /\ BlockOf(a, s)' \in heap
        BY <1>0, <1>2, <2>1, <3>2
      <4>2. QED
        BY <1>0, <4>1
    <3>3. CASE ~(a = z /\ s = t) /\ ~(b = z /\ u = t)
      <4>1. /\ a \in Copies /\ Has(a, s) /\ BlockOf(a, s)' = BlockOf(a, s)
            /\ b \in Copies /\ Has(b, u) /\ BlockOf(b, u)' = BlockOf(b, u)
        BY <1>0, <2>1, <3>3
      <4>2. Place(a, s) # Place(b, u)
        BY <2>1, <4>1 DEF ImagesInv, Distinct
      <4>3. QED
        BY <1>1, <4>1, <4>2
    <3>4. QED
      BY <3>1, <3>2, <3>3
  <2>2. QED
    BY <1>1, <2>1 DEF Distinct
<1>5. QED
  BY <1>3, <1>4

LEMMA CopyKeeps ==
  ASSUME ImagesInv, NEW f \in Files, E!elfCheckSupported(f), E!Load(f)
  PROVE  ImagesInv'
<1>0. PICK z : z = Len(images) + 1
  OBVIOUS
<1>1. PICK adr \in Addresses :
        /\ E!Fits(adr, f.size)
        /\ heap' = heap \cup {E!Block(adr, f.size, "image")}
        /\ words' = [a \in DOMAIN words \cup {adr + o : o \in DOMAIN f.words} |->
                       IF a - adr \in DOMAIN f.words THEN f.words[a - adr] ELSE words[a]]
        /\ load' = [E!NoLoad EXCEPT !.pc = IF f.type = "REL" THEN "one" ELSE "stack",
                                    !.file = f, !.at = adr,
                                    !.off = [s \in DOMAIN f.sections |-> f.sections[s].offset]]
        /\ load.pc = "idle" /\ UNCHANGED <<images, externs>>
  BY DEF E!Load
<1>2. /\ load'.pc = (IF f.type = "REL" THEN "one" ELSE "stack") /\ load'.file = f
      /\ load'.at = adr /\ load'.off = [s \in DOMAIN f.sections |-> f.sections[s].offset]
      /\ load'.i = 1 /\ load'.j = 1
  BY <1>1 DEF E!NoLoad
<1>3. f.magic /\ f.type \in {"REL", "EXEC"} /\ f.size \in Nat \ {0}
  BY FileFacts DEF E!elfCheckSupported, E!elfCheckFile
<1>4. [s \in DOMAIN f.sections |-> f.sections[s].offset] \in Seq(Int)
  <2>1. /\ DOMAIN f.sections = 1 .. Len(f.sections) /\ Len(f.sections) \in Nat
        /\ \A s \in DOMAIN f.sections : f.sections[s].offset \in Int
    BY <1>3, FileFacts
  <2>2. QED
    BY <2>1
<1>5. Types'
  <2>1. load' \in LoadType
    <3>1. adr \in Addresses \cup {0} /\ 1 \in Nat \ {0}
      OBVIOUS
    <3>2. load' = [pc |-> load'.pc, file |-> f, at |-> adr,
                   off |-> [s \in DOMAIN f.sections |-> f.sections[s].offset], i |-> 1, j |-> 1]
      BY <1>1 DEF E!NoLoad
    <3>3. load'.pc \in {"idle", "one", "two", "stack"}
      BY <1>2
    <3>4. QED
      BY <1>4, <3>1, <3>2, <3>3 DEF LoadType
  <2>2. QED
    BY <1>1, <1>2, <2>1 DEF ImagesInv, Types
<1>6. /\ Copies' = Copies \cup {z} /\ z \notin Copies /\ z \in Nat
      /\ \A a \in Copies : Current'[a] = Current[a] /\ a \in 1 .. Len(images)
      /\ Current'[z] = [file |-> f, at |-> adr,
                        off |-> [s \in DOMAIN f.sections |-> f.sections[s].offset],
                        answer |-> "loaded"]
  <2>1. CurrentIs /\ CurrentIs' /\ images' = images /\ load'.pc # "idle" /\ load.pc = "idle"
    BY <1>1, <1>2, <1>5, CurrentFacts, CurrentNext DEF ImagesInv
  <2>2. /\ Len(images) \in Nat /\ \A a \in Copies : a \in 1 .. Len(images)
        /\ \A a \in 1 .. Len(images) : Current[a] = images[a] /\ Current'[a] = images[a]
        /\ Current = images
    BY <2>1 DEF CurrentIs
  <2>3. /\ Len(Current)' = z /\ z \in Copies' /\ \A a \in Copies' : a \in 1 .. Len(images) \/ a = z
        /\ Current'[z] = [file |-> f, at |-> adr,
                          off |-> [s \in DOMAIN f.sections |-> f.sections[s].offset],
                          answer |-> "loaded"]
    BY <1>0, <1>2, <2>1 DEF CurrentIs
  <2>4. Copies' = Copies \cup {z}
    <3>1. Len(Current)' = Len(Current') /\ Len(Current) = Len(images)
      BY <2>2
    <3>2. QED
      BY <1>0, <2>2, <2>3, <3>1 DEF Copies
  <2>5. QED
    BY <1>0, <2>2, <2>3, <2>4
<1>7. /\ \A a \in Copies : /\ Complete(a) /\ Complete(a)' /\ FileOf(a)' = FileOf(a)
                           /\ Sections(a)' = Sections(a)
      /\ FileOf(z)' = f /\ Sections(z)' = f.sections /\ ~Complete(z)'
  <2>1. \A a \in Copies : a <= Len(images) /\ a <= Len(images')
    BY <1>1, <1>6
  <2>2. ~(z <= Len(images'))
    BY <1>0, <1>1, <1>6, CurrentFacts DEF ImagesInv, CurrentIs
  <2>3. QED
    BY <1>6, <2>1, <2>2 DEF Complete, FileOf, Sections
<1>8. /\ Apart'
      /\ \A b \in heap : b.at # adr /\ (b.at + b.size <= adr \/ adr + f.size <= b.at)
  BY <1>1, <1>3, BlockAdded DEF ImagesInv
<1>9. Held' /\ Distinct'
  <2> DEFINE new == E!Block(adr, f.size, "image")
  <2>1. ASSUME NEW a \in Copies', NEW s \in Nat, Has(a, s)'
        PROVE  IF a = z /\ s = 0 THEN BlockOf(a, s)' = new
               ELSE a \in Copies /\ Has(a, s) /\ BlockOf(a, s)' = BlockOf(a, s)
    <3>1. CASE a = z
      <4>1. s = 0
        <5>1. ~(s \in DOMAIN f.sections /\ s < 1)
          BY <1>3, FileFacts
        <5>2. QED
          BY <1>2, <1>7, <2>1, <3>1, <5>1 DEF Has
      <4>2. BlockOf(a, 0)' = new
        BY <1>6, <1>7, <3>1 DEF BlockOf, Place
      <4>3. QED
        BY <3>1, <4>1, <4>2
    <3>2. CASE a # z
      BY <1>6, <1>7, <2>1, <3>2 DEF Has, BlockOf, Place
    <3>3. QED
      BY <3>1, <3>2
  <2>2. \A b \in heap : b.at # new.at
    BY <1>8 DEF E!Block
  <2>3. heap' = heap \cup {new}
    BY <1>1
  <2> HIDE DEF new
  <2>4. \A a \in Copies' : \A s \in Nat : Has(a, s)' =>
          IF a = z /\ s = 0 THEN BlockOf(a, s)' = new
          ELSE a \in Copies /\ Has(a, s) /\ BlockOf(a, s)' = BlockOf(a, s)
    BY <2>1
  <2>5. Gets(z, 0, new)
    BY <2>2, <2>3, <2>4 DEF Gets
  <2>6. QED
    BY <2>5, MemoryGrown
<1>10. Offsets'
  <2>1. ASSUME NEW a \in Copies'
        PROVE  /\ FileOf(a)'.magic /\ DOMAIN Current'[a].off = DOMAIN Sections(a)'
               /\ \A s \in DOMAIN Sections(a)' : ~E!Uninitialised(Sections(a)'[s]) =>
                    Current'[a].off[s] = Sections(a)'[s].offset
    <3>1. CASE a = z
      BY <1>3, <1>6, <1>7, <3>1
    <3>2. CASE a # z
      BY <1>6, <1>7, <3>2 DEF ImagesInv, Offsets
    <3>3. QED
      BY <3>1, <3>2
  <2>2. QED
    BY <2>1 DEF Offsets, E!Uninitialised
<1>11. Relocated'
  <2>1. ASSUME NEW a \in Copies', FileOf(a)'.type = "REL",
               NEW i \in DOMAIN Sections(a)', NEW j \in DOMAIN Sections(a)'[i].rels
        PROVE  /\ Current'[a].at + E!WordOf(FileOf(a), i, j)' \in DOMAIN words'
               /\ IF Applied(a, i, j)' THEN E!Linked(Current[a], i, j)'
                  ELSE words'[Current'[a].at + E!WordOf(FileOf(a), i, j)']
                         = FileOf(a)'.words[E!WordOf(FileOf(a), i, j)']
    <3>1. CASE a = z
      <4>1. ~Applied(a, i, j)'
        BY <1>2, <1>7, <2>1, <3>1 DEF Applied
      <4>2. E!WordOf(FileOf(a), i, j)' = E!WordOf(f, i, j)
        BY <1>7, <3>1 DEF E!WordOf
      <4>3. E!WordOf(f, i, j) \in DOMAIN f.words /\ E!WordOf(f, i, j) \in Nat
        <5>1. E!WellFormed(f) /\ f.type = "REL"
          BY <1>3, <1>7, <2>1, <3>1, Constants
        <5>2. E!Relocatable(f) /\ DOMAIN f.words \subseteq 0 .. f.size - 1
          BY <5>1 DEF E!WellFormed
        <5>3. i \in DOMAIN f.sections /\ j \in DOMAIN f.sections[i].rels
          BY <1>7, <3>1
        <5>4. QED
          BY <5>2, <5>3 DEF E!Relocatable
      <4>4. (adr + E!WordOf(f, i, j)) - adr = E!WordOf(f, i, j)
        BY <4>3, Constants
      <4>5. QED
        BY <1>1, <1>6, <1>7, <3>1, <4>1, <4>2, <4>3, <4>4
    <3>2. CASE a # z
      <4>1. PICK im : im = Current[a] /\ im = Current'[a]
        BY <1>6, <3>2
      <4>2. /\ a \in Copies /\ FileOf(a) = im.file /\ FileOf(a)' = im.file
            /\ Sections(a) = im.file.sections /\ Sections(a)' = im.file.sections
        BY <1>6, <1>7, <3>2, <4>1 DEF FileOf, Sections
      <4> DEFINE Spot == im.at + E!WordOf(im.file, i, j)
      <4>3. /\ Spot \in DOMAIN words /\ Applied(a, i, j)
            /\ E!Linked(im, i, j)
        BY <1>7, <2>1, <4>1, <4>2 DEF ImagesInv, Relocated, Applied
      <4>4. Spot \in im.at .. im.at + im.file.size - 1 /\ (im.at + im.file.size <= adr \/ adr + f.size <= im.at)
            /\ im.at \in Nat /\ im.file.size \in Nat
        <5>1. /\ E!WordOf(im.file, i, j) \in 0 .. im.file.size - 1
              /\ E!Block(im.at, im.file.size, "image") \in heap
              /\ im.at \in Addresses /\ im.file.size \in Nat
          BY <2>1, <4>1, <4>2, WordFacts
        <5>2. im.at + im.file.size <= adr \/ adr + f.size <= im.at
          <6>1. PICK b \in heap : b.at = im.at /\ b.size = im.file.size
            BY <5>1 DEF E!Block
          <6>2. QED
            BY <1>8, <6>1
        <5>3. im.at \in Nat
          BY <5>1, AddressFacts
        <5>4. QED
          BY <5>1, <5>2, <5>3
      <4>5. Spot - adr \notin DOMAIN f.words
        <5>1. DOMAIN f.words \subseteq 0 .. f.size - 1 /\ adr \in Nat
          <6>1. E!WellFormed(f) /\ adr \in Nat
            BY <1>3, Constants
          <6>2. QED
            BY <6>1 DEF E!WellFormed
        <5>2. Spot - adr \notin 0 .. f.size - 1
          BY <1>3, <4>4, <5>1
        <5>3. QED
          BY <5>1, <5>2
      <4>6. Spot \in DOMAIN words' /\ words'[Spot] = words[Spot]
        BY <1>1, <4>3, <4>5
      <4>7. E!Linked(im, i, j)'
        BY <4>3, <4>6, LinkKept
      <4>8. E!Linked(Current[a], i, j)' <=> E!Linked(im, i, j)'
        BY <4>1 DEF E!Linked, E!Holds, E!SymbolAt, E!Mod, E!WordOf
      <4>9. E!WordOf(FileOf(a), i, j)' = E!WordOf(im.file, i, j) /\ Applied(a, i, j)'
        BY <1>6, <1>7, <3>2, <4>2 DEF E!WordOf, Applied
      <4>10. QED
        BY <4>1, <4>6, <4>7, <4>8, <4>9
    <3>3. QED
      BY <3>1, <3>2
  <2>2. QED
    BY <2>1 DEF Relocated
<1>12. QED
  BY <1>5, <1>8, <1>9, <1>10, <1>11 DEF ImagesInv

(* The load in progress is the last of the copies.                         *)
LEMMA LastCopy ==
  ASSUME ImagesInv, load.pc # "idle"
  PROVE  \E z \in Copies :
           /\ z = Len(images) + 1 /\ ~Complete(z) /\ z \in Nat
           /\ \A a \in Copies \ {z} : Complete(a) /\ a \in 1 .. Len(images)
           /\ Current[z] = [file |-> load.file, at |-> load.at, off |-> load.off,
                            answer |-> "loaded"]
           /\ FileOf(z) = load.file /\ Sections(z) = load.file.sections
           /\ load.file \in Files /\ load.file.magic /\ load.at \in Addresses
           /\ DOMAIN load.off = DOMAIN load.file.sections
           /\ load.off \in Seq(Int) /\ load.i \in Nat \ {0} /\ load.j \in Nat \ {0}
<1>1. PICK z : z = Len(images) + 1
  OBVIOUS
<1>2. /\ z \in Copies /\ z \in Nat /\ \A a \in Copies : a \in 1 .. Len(images) \/ a = z
      /\ Current[z] = [file |-> load.file, at |-> load.at, off |-> load.off, answer |-> "loaded"]
      /\ Len(images) \in Nat
  BY <1>1, CurrentFacts DEF ImagesInv, CurrentIs
<1>3. FileOf(z) = load.file /\ Sections(z) = load.file.sections
  BY <1>2 DEF FileOf, Sections
<1>4. load.file.magic /\ DOMAIN load.off = DOMAIN load.file.sections
  BY <1>2, <1>3 DEF ImagesInv, Offsets
<1>5. load.at \in Addresses
  <2>1. Has(z, 0) /\ BlockOf(z, 0).at = load.at
    BY <1>2 DEF Has, BlockOf, Place, E!Block
  <2>2. QED
    BY <1>2, <2>1 DEF ImagesInv, Held, Apart
<1>6. /\ load.file \in Files /\ load.off \in Seq(Int)
      /\ load.i \in Nat \ {0} /\ load.j \in Nat \ {0}
  BY DEF ImagesInv, Types, LoadType
<1>7. ~Complete(z) /\ \A a \in Copies \ {z} : Complete(a) /\ a \in 1 .. Len(images)
  BY <1>1, <1>2 DEF Complete
<1>8. QED
  BY <1>1, <1>2, <1>3, <1>4, <1>5, <1>6, <1>7

(* It stays that during a step of the load.                                *)
LEMMA LoadGoesOn ==
  ASSUME ImagesInv, Types', load.pc # "idle", load'.pc # "idle", images' = images,
         load'.file = load.file, load'.at = load.at, NEW z, z = Len(images) + 1
  PROVE  /\ Copies' = Copies /\ \A a : Complete(a)' <=> Complete(a)
         /\ \A a \in Copies \ {z} : Current'[a] = Current[a]
         /\ Current'[z] = [file |-> load.file, at |-> load.at, off |-> load'.off,
                           answer |-> "loaded"]
         /\ \A a \in Copies : FileOf(a)' = FileOf(a) /\ Sections(a)' = Sections(a)
<1>1. CurrentIs /\ CurrentIs'
  BY CurrentFacts, CurrentNext DEF ImagesInv
<1>2. /\ Len(Current) = z /\ z \in Copies /\ \A a \in Copies : a \in 1 .. Len(images) \/ a = z
      /\ \A a \in 1 .. Len(images) : a \in 1 .. z /\ Current[a] = images[a]
      /\ Current[z] = [file |-> load.file, at |-> load.at, off |-> load.off,
                       answer |-> "loaded"]
  BY <1>1 DEF CurrentIs
<1>3. /\ Len(Current)' = z /\ z \in Copies' /\ \A a \in Copies' : a \in 1 .. Len(images) \/ a = z
      /\ \A a \in 1 .. Len(images) : a \in 1 .. z /\ Current'[a] = images[a]
      /\ Current'[z] = [file |-> load.file, at |-> load.at, off |-> load'.off,
                        answer |-> "loaded"]
  BY <1>1 DEF CurrentIs
<1>4. Copies' = Copies
  BY <1>2, <1>3 DEF Copies
<1>5. \A a \in Copies \ {z} : Current'[a] = Current[a]
  BY <1>2, <1>3
<1>6. \A a \in Copies : FileOf(a)' = FileOf(a) /\ Sections(a)' = Sections(a)
  BY <1>2, <1>3, <1>5 DEF FileOf, Sections
<1>7. \A a : Complete(a)' <=> Complete(a)
  BY DEF Complete
<1>8. QED
  BY <1>3, <1>4, <1>5, <1>6, <1>7

(* The load goes on to its next stage, section or relocation.              *)
LEMMA AdvanceKeeps ==
  ASSUME ImagesInv, load.pc # "idle", load'.pc # "idle", load'.file = load.file,
         load'.at = load.at, load'.off = load.off, load' \in LoadType,
         load'.pc \in {"one", "two"} => load.file.type = "REL",
         load'.pc = "one" => load'.j = 1,
         UNCHANGED <<externs, heap, words, images>>,
         \A s \in DOMAIN load.file.sections : E!Uninitialised(load.file.sections[s]) =>
           ((load'.pc # "one" \/ s < load'.i) => (load.pc # "one" \/ s < load.i)),
         \A i \in DOMAIN load.file.sections : \A j \in DOMAIN load.file.sections[i].rels :
           load.file.type = "REL" =>
           ((load'.pc = "stack" \/ (load'.pc = "two" /\ (i < load'.i \/ (i = load'.i /\ j < load'.j))))
            <=> (load.pc = "stack" \/ (load.pc = "two" /\ (i < load.i \/ (i = load.i /\ j < load.j)))))
  PROVE  ImagesInv'
<1>1. PICK z \in Copies :
        /\ z = Len(images) + 1 /\ ~Complete(z)
        /\ \A a \in Copies \ {z} : Complete(a)
        /\ FileOf(z) = load.file /\ Sections(z) = load.file.sections
        /\ Current[z] = [file |-> load.file, at |-> load.at, off |-> load.off,
                         answer |-> "loaded"]
        /\ load.file \in Files
  BY LastCopy
<1>2. Types'
  BY <1>1 DEF ImagesInv, Types
<1>3. /\ Copies' = Copies /\ \A a : Complete(a)' <=> Complete(a)
      /\ \A a \in Copies \ {z} : Current'[a] = Current[a]
      /\ Current'[z] = Current[z]
      /\ \A a \in Copies : FileOf(a)' = FileOf(a) /\ Sections(a)' = Sections(a)
  BY <1>1, <1>2, LoadGoesOn
<1>4. ASSUME NEW a \in Copies', NEW s \in Nat, Has(a, s)'
      PROVE  Has(a, s)
  <2>1. CASE a = z
    BY <1>1, <1>3, <1>4, <2>1 DEF Has
  <2>2. CASE a # z
    BY <1>1, <1>3, <1>4, <2>2 DEF Has
  <2>3. QED
    BY <2>1, <2>2
<1>5. ASSUME NEW a \in Copies', FileOf(a).type = "REL", NEW i \in DOMAIN Sections(a),
             NEW j \in DOMAIN Sections(a)[i].rels
      PROVE  Applied(a, i, j)' <=> Applied(a, i, j)
  <2>1. CASE a = z
    BY <1>1, <1>3, <1>5, <2>1 DEF Applied
  <2>2. CASE a # z
    BY <1>1, <1>3, <2>2 DEF Applied
  <2>3. QED
    BY <2>1, <2>2
<1>6. QED
  BY <1>2, <1>3, <1>4, <1>5, QuietKeeps

LEMMA StagesKeep ==
  ASSUME ImagesInv, E!StageOneDone \/ E!StageTwo \/ E!StageTwoDone
  PROVE  ImagesInv'
<1>1. /\ load.pc # "idle" /\ load \in LoadType /\ load.i \in Nat \ {0} /\ load.j \in Nat \ {0}
      /\ load.pc \in {"one", "two"} => load.file.type = "REL"
      /\ load.pc = "one" => load.j = 1
      /\ UNCHANGED <<externs, heap, words, images>>
  BY DEF ImagesInv, Types, LoadType, E!StageOneDone, E!StageTwo, E!StageTwoDone
<1>2. /\ load.file \in Files /\ load.file.magic
  BY <1>1, LastCopy
<1>3. /\ DOMAIN load.file.sections = 1 .. Len(load.file.sections)
      /\ Len(load.file.sections) \in Nat
      /\ \A i \in DOMAIN load.file.sections :
           /\ DOMAIN load.file.sections[i].rels = 1 .. Len(load.file.sections[i].rels)
           /\ Len(load.file.sections[i].rels) \in Nat
  BY <1>2, FileFacts
<1>4. CASE E!StageOneDone
  <2>1. /\ load.pc = "one" /\ load.i > Len(load.file.sections)
        /\ load' = [load EXCEPT !.pc = "two", !.i = 1]
    BY <1>4 DEF E!StageOneDone
  <2>2. /\ load'.pc = "two" /\ load'.i = 1 /\ load'.j = 1 /\ load'.file = load.file
        /\ load'.at = load.at /\ load'.off = load.off /\ load' \in LoadType
    BY <1>1, <2>1 DEF LoadType
  <2>3. \A i \in DOMAIN load.file.sections : i < load.i /\ ~(i < 1)
    BY <1>1, <1>3, <2>1
  <2>4. \A i \in DOMAIN load.file.sections : \A j \in DOMAIN load.file.sections[i].rels : ~(j < 1)
    BY <1>3
  <2>5. QED
    BY <1>1, <2>1, <2>2, <2>3, <2>4, AdvanceKeeps
<1>5. CASE E!StageTwo
  <2>1. /\ load.pc = "two" /\ load.i <= Len(load.file.sections)
        /\ load.file.sections[load.i].type = "REL" => load.j > Len(E!Relocations)
        /\ load' = [load EXCEPT !.i = load.i + 1, !.j = 1]
    BY <1>5 DEF E!StageTwo
  <2>2. /\ load'.pc = "two" /\ load'.i = load.i + 1 /\ load'.j = 1 /\ load'.file = load.file
        /\ load'.at = load.at /\ load'.off = load.off /\ load' \in LoadType
    <3>1. load.i + 1 \in Nat \ {0} /\ 1 \in Nat \ {0}
      BY <1>1
    <3>2. QED
      BY <1>1, <2>1, <3>1 DEF LoadType
  <2>3. ASSUME NEW i \in DOMAIN load.file.sections,
               NEW j \in DOMAIN load.file.sections[i].rels
        PROVE  (i < load.i + 1 \/ (i = load.i + 1 /\ j < 1))
                 <=> (i < load.i \/ (i = load.i /\ j < load.j))
    <3>1. i \in Nat /\ j \in Nat /\ j >= 1 /\ j <= Len(load.file.sections[i].rels)
          /\ Len(load.file.sections[i].rels) \in Nat
      BY <1>3, <2>3
    <3>2. load.file.sections[i].type = "REL"
      BY <1>1, <1>2, <2>1, <2>3, Constants DEF E!WellFormed, E!Relocatable
    <3>3. i = load.i => j < load.j
      BY <1>1, <2>1, <3>1, <3>2 DEF E!Relocations
    <3>4. QED
      BY <1>1, <3>1, <3>3
  <2>4. QED
    BY <1>1, <2>1, <2>2, <2>3, AdvanceKeeps
<1>6. CASE E!StageTwoDone
  <2>1. /\ load.pc = "two" /\ load.i > Len(load.file.sections)
        /\ load' = [load EXCEPT !.pc = "stack"]
    BY <1>6 DEF E!StageTwoDone
  <2>2. /\ load'.pc = "stack" /\ load'.file = load.file
        /\ load'.at = load.at /\ load'.off = load.off /\ load' \in LoadType
    BY <1>1, <2>1 DEF LoadType
  <2>3. \A i \in DOMAIN load.file.sections : i < load.i
    BY <1>1, <1>3, <2>1
  <2>4. QED
    BY <1>1, <2>1, <2>2, <2>3, AdvanceKeeps
<1>7. QED
  BY <1>4, <1>5, <1>6

LEMMA LoadedKeeps ==
  ASSUME ImagesInv, E!Loaded
  PROVE  ImagesInv'
<1> DEFINE new == [file |-> load.file, at |-> load.at, off |-> load.off, answer |-> "loaded"]
<1>1. /\ load.pc = "stack" /\ images' = Append(images, new) /\ load' = E!NoLoad
      /\ UNCHANGED <<externs, heap, words>>
  BY DEF E!Loaded
<1>2. PICK z \in Copies :
        /\ z = Len(images) + 1 /\ \A a \in Copies \ {z} : a \in 1 .. Len(images)
        /\ load.file \in Files /\ load.at \in Addresses /\ load.off \in Seq(Int)
  BY <1>1, LastCopy
<1>3. load'.pc = "idle" /\ load' \in LoadType
  BY <1>1 DEF E!NoLoad, LoadType
<1>4. new \in ImageType /\ images \in Seq(ImageType)
  BY <1>2 DEF ImageType, ImagesInv, Types
<1>5. images' \in Seq(ImageType) /\ Len(images') = Len(images) + 1 /\ Len(images) \in Nat
  <2> HIDE DEF new
  <2>1. QED
    BY <1>1, <1>4
<1>6. Types'
  BY <1>1, <1>3, <1>5 DEF ImagesInv, Types
<1>7. Current' = Current /\ Copies' = Copies
  <2>1. Current' = images' /\ Current = Append(images, new)
    BY <1>1, <1>3 DEF Current
  <2>2. QED
    BY <1>1, <2>1 DEF Copies
<1>8. \A a \in Copies : Complete(a)' /\ (a \in 1 .. Len(images) \/ a = z)
  BY <1>2, <1>5 DEF Complete
<1>9. ASSUME NEW a \in Copies', NEW s \in Nat, Has(a, s)'
      PROVE  Has(a, s)
  BY <1>1, <1>7, <1>9 DEF Has, FileOf, Sections
<1>10. \A a \in Copies' : \A i, j : Applied(a, i, j) /\ Applied(a, i, j)'
  BY <1>1, <1>7, <1>8 DEF Applied
<1>11. QED
  BY <1>1, <1>6, <1>7, <1>9, <1>10, QuietKeeps

(* The copy is freed, and with it nothing that another image holds.        *)
LEMMA FailureKeeps ==
  ASSUME ImagesInv, E!RelocationFails
  PROVE  ImagesInv'
<1>1. /\ load.pc = "two" /\ load' = E!NoLoad /\ E!Refuse(load.file, "unlinked")
      /\ heap' = {b \in heap : b.at # load.at}
      /\ words' = [w \in {v \in DOMAIN words :
                            v \notin load.at .. load.at + load.file.size - 1} |-> words[w]]
      /\ UNCHANGED externs
  BY DEF E!RelocationFails
<1>2. PICK z \in Copies :
        /\ z = Len(images) + 1 /\ z \in Nat
        /\ \A a \in Copies \ {z} : Complete(a) /\ a \in 1 .. Len(images)
        /\ Current[z] = [file |-> load.file, at |-> load.at, off |-> load.off,
                         answer |-> "loaded"]
        /\ FileOf(z) = load.file /\ load.file \in Files
  BY <1>1, LastCopy
<1>3. load'.pc = "idle" /\ load' \in LoadType
  BY <1>1 DEF E!NoLoad, LoadType
<1>4. /\ images' \in Seq(ImageType) /\ Len(images') = Len(images) + 1
      /\ Copies' \subseteq Copies /\ \A a \in Copies' : a \in 1 .. Len(images)
      /\ \A a \in Copies' : Current'[a] = Current[a] /\ Len(images) \in Nat
  BY <1>1, <1>2, <1>3, RefusedIsNoCopy, CurrentFacts DEF ImagesInv, CurrentIs
<1>5. Types'
  BY <1>1, <1>3, <1>4 DEF ImagesInv, Types
<1>6. \A a \in Copies' : a \in Copies /\ a # z /\ Complete(a) /\ Complete(a)'
  BY <1>2, <1>4 DEF Complete
<1>7. ASSUME NEW a \in Copies', NEW s \in Nat, Has(a, s)
      PROVE  BlockOf(a, s) \in heap'
  <2>1. Has(z, 0) /\ Place(z, 0) = load.at
    BY <1>2 DEF Has, Place
  <2>2. Place(a, s) # load.at
    BY <1>6, <1>7, <2>1 DEF ImagesInv, Distinct
  <2>3. BlockOf(a, s) \in heap /\ BlockOf(a, s).at = Place(a, s)
    BY <1>6, <1>7 DEF ImagesInv, Held, BlockOf, E!Block
  <2>4. QED
    BY <1>1, <2>2, <2>3
<1>8. Held' /\ Distinct' /\ Offsets'
  <2>1. ASSUME NEW a \in Copies', NEW s \in Nat, Has(a, s)'
        PROVE  Has(a, s)
    BY <1>4, <1>6, <2>1 DEF Has, FileOf, Sections
  <2>2. QED
    BY <1>4, <1>7, <2>1, MemoryKept
<1>9. Relocated'
  <2>1. ASSUME NEW a \in Copies', FileOf(a).type = "REL", NEW i \in DOMAIN Sections(a),
               NEW j \in DOMAIN Sections(a)[i].rels
        PROVE  /\ Applied(a, i, j)' <=> Applied(a, i, j)
               /\ Current[a].at + E!WordOf(FileOf(a), i, j) \in DOMAIN words'
               /\ words'[Current[a].at + E!WordOf(FileOf(a), i, j)]
                    = words[Current[a].at + E!WordOf(FileOf(a), i, j)]
    <3> DEFINE Spot == Current[a].at + E!WordOf(FileOf(a), i, j)
    <3>1. Spot \in DOMAIN words
      BY <1>6, <2>1 DEF ImagesInv, Relocated
    <3>2. /\ E!WordOf(FileOf(a), i, j) \in 0 .. FileOf(a).size - 1
          /\ E!Block(Current[a].at, FileOf(a).size, "image") \in heap
      BY <1>6, <2>1, WordFacts
    <3>3. /\ E!Block(load.at, load.file.size, "image") \in heap
          /\ Current[a].at # load.at
      <4>1. Has(z, 0) /\ Place(z, 0) = load.at /\ Has(a, 0) /\ Place(a, 0) = Current[a].at
            /\ BlockOf(z, 0) = E!Block(load.at, load.file.size, "image")
        BY <1>2 DEF Has, Place, BlockOf
      <4>2. QED
        BY <1>6, <4>1 DEF ImagesInv, Held, Distinct
    <3>4. PICK b \in heap, d \in heap :
            /\ b.at = Current[a].at /\ b.size = FileOf(a).size
            /\ d.at = load.at /\ d.size = load.file.size
      BY <3>2, <3>3 DEF E!Block
    <3>5. /\ b.at \in Nat /\ d.at \in Nat /\ b.size \in Nat \ {0} /\ d.size \in Nat \ {0}
          /\ b.at + b.size <= d.at \/ d.at + d.size <= b.at
      BY <3>3, <3>4, BlocksApart DEF ImagesInv
    <3>6. Spot \notin load.at .. load.at + load.file.size - 1
      BY <3>2, <3>4, <3>5
    <3>7. Spot \in DOMAIN words' /\ words'[Spot] = words[Spot]
      BY <1>1, <3>1, <3>6
    <3>8. Applied(a, i, j)' /\ Applied(a, i, j)
      BY <1>6 DEF Applied
    <3>9. QED
      BY <3>7, <3>8
  <2>2. QED
    BY <1>4, <2>1, WordsKept
<1>10. Apart'
  BY <1>1 DEF ImagesInv, Apart
<1>11. QED
  BY <1>5, <1>8, <1>9, <1>10 DEF ImagesInv

(* A name that is found is that of a symbol the kernel registered.         *)
LEMMA LookupFacts ==
  ASSUME Types, NEW symbol, E!elfLookupSymbol(symbol) # 0
  PROVE  \E k \in DOMAIN Symbols :
           Symbols[k][1] = symbol /\ Symbols[k][2] = E!elfLookupSymbol(symbol)
<1> DEFINE found == {k \in DOMAIN externs : externs[k][1] = symbol}
           k == CHOOSE i \in found : \A j \in found : i <= j
<1>1. found # {} /\ E!elfLookupSymbol(symbol) = externs[k][2]
  BY DEF E!elfLookupSymbol
<1>2. found \subseteq Nat
  BY DEF Types
<1>3. \E i \in found : \A j \in found : i <= j
  <2> HIDE DEF found
  <2>1. IsWellFoundedOn(OpToRel(<, Nat), Nat)
    BY NatLessThanWellFounded
  <2>2. PICK i \in found : \A j \in found : ~(<<j, i>> \in OpToRel(<, Nat))
    BY <1>1, <1>2, <2>1, WFMin
  <2>3. \A j \in found : ~(j < i)
    BY <1>2, <2>2 DEF OpToRel
  <2>4. QED
    BY <1>2, <2>3
<1>4. k \in found
  <2> HIDE DEF found
  <2>1. QED
    BY <1>3
<1>5. k \in DOMAIN Symbols /\ externs[k] = Symbols[k] /\ externs[k][1] = symbol
  <2>1. \A i \in found : i \in DOMAIN Symbols /\ externs[i] = Symbols[i] /\ externs[i][1] = symbol
    BY DEF Types
  <2> HIDE DEF found, k
  <2>2. QED
    BY <1>4, <2>1
<1> HIDE DEF k
<1>6. QED
  BY <1>1, <1>5

(* What elfGetSymbolValue answers with is what the symbol stands for.      *)
LEMMA ValueFacts ==
  ASSUME ImagesInv, load.pc = "two", NEW sym \in Nat, NEW im,
         im = [file |-> load.file, at |-> load.at, off |-> load.off, answer |-> "loaded"],
         E!elfGetSymbolValue(sym) # E!ELF_ERROR
  PROVE  IF sym = 0 THEN E!elfGetSymbolValue(sym) = 0
         ELSE IF im.file.symbols[sym].shndx # E!SHN_UNDEF
         THEN E!elfGetSymbolValue(sym) = E!SymbolAt(im, sym)
         ELSE \E k \in DOMAIN Symbols :
                /\ Symbols[k][1] = im.file.symbols[sym].name
                /\ Symbols[k][2] = E!elfGetSymbolValue(sym)
<1> DEFINE symbol == load.file.symbols[sym]
<1>1. /\ load.file \in Files /\ load.file.magic /\ load.file.type = "REL"
      /\ DOMAIN load.off = DOMAIN load.file.sections /\ load.off \in Seq(Int)
      /\ load.at \in Nat
  BY LastCopy, AddressFacts DEF ImagesInv, Types
<1>2. CASE sym = 0
  BY <1>2 DEF E!elfGetSymbolValue, E!SHN_UNDEF
<1>3. CASE sym # 0
  <2>1. sym \in 1 .. Len(load.file.symbols)
    <3>1. ~(sym > Len(load.file.symbols))
      BY <1>3 DEF E!elfGetSymbolValue
    <3>2. load.file.symbols \in Seq([name : STRING, value : Int,
                           shndx : {E!SHN_UNDEF, E!SHN_ABS} \cup DOMAIN load.file.sections])
      BY <1>1, Constants DEF E!WellFormed
    <3>3. Len(load.file.symbols) \in Nat
      BY <3>2
    <3>4. QED
      BY <1>3, <3>1, <3>3
  <2>2. /\ symbol.value \in Int
        /\ symbol.shndx \in {E!SHN_UNDEF, E!SHN_ABS} \cup DOMAIN load.file.sections
    <3>1. load.file.symbols \in Seq([name : STRING, value : Int,
                           shndx : {E!SHN_UNDEF, E!SHN_ABS} \cup DOMAIN load.file.sections])
      BY <1>1, Constants DEF E!WellFormed
    <3>2. symbol \in [name : STRING, value : Int,
                      shndx : {E!SHN_UNDEF, E!SHN_ABS} \cup DOMAIN load.file.sections]
      <4>1. sym \in DOMAIN load.file.symbols
        BY <2>1, <3>1
      <4>2. QED
        BY <3>1, <4>1, ElementOf
    <3>3. QED
      BY <3>2
  <2>3. E!elfGetSymbolValue(sym) =
          IF symbol.shndx = E!SHN_UNDEF THEN E!elfGetSymbolExternal(symbol)
          ELSE IF symbol.shndx = E!SHN_ABS THEN symbol.value
          ELSE E!Mod(load.at + load.off[symbol.shndx] + symbol.value)
    <3>1. ~(sym > Len(load.file.symbols))
      BY <1>3 DEF E!elfGetSymbolValue
    <3>2. QED
      BY <1>3, <3>1 DEF E!elfGetSymbolValue
  <2>4. im.file.symbols[sym] = symbol /\ im.file = load.file /\ im.at = load.at /\ im.off = load.off
    OBVIOUS
  <2>5. CASE symbol.shndx = E!SHN_UNDEF
    <3>1. E!elfGetSymbolExternal(symbol) # E!ELF_ERROR
      BY <2>3, <2>5
    <3>2. /\ E!elfLookupSymbol(symbol.name) # 0
          /\ E!elfGetSymbolExternal(symbol) = E!elfLookupSymbol(symbol.name)
      BY <3>1 DEF E!elfGetSymbolExternal
    <3>3. \E k \in DOMAIN Symbols :
            Symbols[k][1] = symbol.name /\ Symbols[k][2] = E!elfLookupSymbol(symbol.name)
      BY <3>2, LookupFacts DEF ImagesInv
    <3>4. QED
      BY <1>3, <2>3, <2>4, <2>5, <3>2, <3>3
  <2>6. CASE symbol.shndx = E!SHN_ABS
    BY <1>3, <2>3, <2>4, <2>6 DEF E!SymbolAt, E!SHN_ABS, E!SHN_UNDEF
  <2>7. CASE symbol.shndx \notin {E!SHN_UNDEF, E!SHN_ABS}
    <3>1. symbol.shndx \in DOMAIN load.file.sections
      BY <2>2, <2>7
    <3>2. load.file.sections[symbol.shndx].addr = 0
      <4>1. E!Relocatable(load.file)
        BY <1>1, Constants DEF E!WellFormed
      <4>2. QED
        BY <3>1, <4>1 DEF E!Relocatable
    <3>3. load.off[symbol.shndx] \in Int
      BY <1>1, <3>1, ElementOf
    <3>4. load.at + load.off[symbol.shndx] + symbol.value
            = load.at + load.off[symbol.shndx] + symbol.value - load.file.sections[symbol.shndx].addr
      BY <1>1, <2>2, <3>2, <3>3
    <3>5. QED
      BY <1>3, <2>3, <2>4, <2>7, <3>4 DEF E!SymbolAt
  <2>8. QED
    BY <2>5, <2>6, <2>7
<1>4. QED
  BY <1>2, <1>3

LEMMA RelocationKeeps ==
  ASSUME ImagesInv, E!elfDoRelocation
  PROVE  ImagesInv'
<1> DEFINE S == E!elfGetSymbolValue(E!Relocations[load.j].sym)
<1>0. PICK z \in Copies :
        /\ z = Len(images) + 1 /\ ~Complete(z)
        /\ \A a \in Copies \ {z} : Complete(a)
        /\ Current[z] = [file |-> load.file, at |-> load.at, off |-> load.off,
                         answer |-> "loaded"]
        /\ FileOf(z) = load.file /\ Sections(z) = load.file.sections
        /\ load.file \in Files /\ load.file.magic /\ load.at \in Addresses
        /\ load.i \in Nat \ {0} /\ load.j \in Nat \ {0}
        /\ load.pc = "two"
  BY LastCopy DEF E!elfDoRelocation
<1>1. PICK im, i0, j0 :
        /\ i0 = load.i /\ j0 = load.j /\ im = Current[z]
        /\ z \in Copies
        /\ z = Len(images) + 1 /\ ~Complete(z)
        /\ \A a \in Copies \ {z} : Complete(a)
        /\ im = [file |-> load.file, at |-> load.at, off |-> load.off, answer |-> "loaded"]
        /\ FileOf(z) = im.file /\ Sections(z) = im.file.sections
        /\ im.file \in Files /\ im.file.magic /\ im.at \in Addresses
        /\ im.file.type = "REL" /\ i0 \in Nat \ {0} /\ j0 \in Nat \ {0}
        /\ load.pc = "two"
  <2>1. load.file.type = "REL"
    BY <1>0 DEF ImagesInv, Types
  <2>2. PICK im : im = Current[z]
    OBVIOUS
  <2>3. QED
    BY <1>0, <2>1, <2>2
<1>2. /\ i0 <= Len(im.file.sections) /\ j0 <= Len(im.file.sections[i0].rels)
      /\ S # E!ELF_ERROR /\ im.file.sections[i0].rels[j0].type \in {"NONE", "32", "PC32"}
      /\ E!Relocations[load.j] = im.file.sections[i0].rels[j0]
      /\ load' = [load EXCEPT !.j = load.j + 1]
      /\ UNCHANGED <<externs, heap, images>>
      /\ im.file = load.file /\ im.at = load.at /\ im.off = load.off
  <2>1. im.file = load.file /\ im.at = load.at /\ im.off = load.off
    BY <1>1
  <2>2. E!Relocations = im.file.sections[i0].rels
    BY <1>1, <2>1 DEF E!Relocations
  <2>3. /\ load.i <= Len(load.file.sections) /\ load.j <= Len(E!Relocations)
        /\ S # E!ELF_ERROR /\ E!Relocations[load.j].type \in {"NONE", "32", "PC32"}
        /\ load' = [load EXCEPT !.j = load.j + 1]
        /\ UNCHANGED <<externs, heap, images>>
    BY DEF E!elfDoRelocation
  <2> HIDE DEF S
  <2>4. QED
    BY <1>1, <2>1, <2>2, <2>3
<1> DEFINE rel == im.file.sections[i0].rels[j0]
           o == E!WordOf(im.file, i0, j0)
           Spot == im.at + o
<1>3. i0 \in DOMAIN im.file.sections /\ j0 \in DOMAIN im.file.sections[i0].rels
      /\ rel.sym \in Nat /\ rel.offset \in Nat
  <2>1. /\ DOMAIN im.file.sections = 1 .. Len(im.file.sections)
        /\ Len(im.file.sections) \in Nat
        /\ \A s \in DOMAIN im.file.sections :
             /\ DOMAIN im.file.sections[s].rels = 1 .. Len(im.file.sections[s].rels)
             /\ Len(im.file.sections[s].rels) \in Nat
             /\ \A j \in DOMAIN im.file.sections[s].rels :
                  im.file.sections[s].rels[j].offset \in Nat
                    /\ im.file.sections[s].rels[j].sym \in Nat
    BY <1>1, FileFacts
  <2> HIDE DEF S
  <2>2. i0 \in DOMAIN im.file.sections
    <3>1. i0 \in 1 .. Len(im.file.sections)
      <4>1. PICK n : n = Len(im.file.sections)
        OBVIOUS
      <4>2. i0 \in Nat \ {0} /\ i0 <= n /\ n \in Nat
        BY <1>1, <1>2, <2>1, <4>1
      <4>3. QED
        BY <4>1, <4>2
    <3>2. QED
      BY <2>1, <3>1
  <2>3. j0 \in DOMAIN im.file.sections[i0].rels
    <3>1. PICK n : n = Len(im.file.sections[i0].rels)
      OBVIOUS
    <3>2. j0 \in Nat \ {0} /\ j0 <= n /\ n \in Nat
      BY <1>1, <1>2, <2>1, <2>2, <3>1
    <3>3. j0 \in 1 .. n /\ DOMAIN im.file.sections[i0].rels = 1 .. n
      BY <2>1, <2>2, <3>1, <3>2
    <3>4. QED
      BY <3>3
  <2>4. QED
    BY <2>1, <2>2, <2>3
<1>4. /\ o \in 0 .. im.file.size - 1 /\ im.file.words[o] \in 0 .. WORDS - 1
      /\ im.at + im.file.size <= WORDS /\ im.file.size \in Nat /\ im.at \in Nat
      /\ E!Relocatable(im.file)
  BY <1>1, <1>3, WordFacts, AddressFacts
<1>5. E!Ref(rel) = Spot
  <2>1. /\ im.file.sections[i0].info \in DOMAIN im.file.sections
        /\ ~E!Uninitialised(im.file.sections[im.file.sections[i0].info])
    BY <1>3, <1>4 DEF E!Relocatable
  <2>2. load.off[im.file.sections[i0].info]
          = im.file.sections[im.file.sections[i0].info].offset
    <3>1. Offsets /\ z \in Copies /\ Sections(z) = im.file.sections /\ Current[z].off = load.off
      BY <1>1 DEF ImagesInv
    <3>2. QED
      BY <2>1, <3>1 DEF Offsets
  <2>3. E!Ref(rel) = E!Mod(im.at + im.file.sections[im.file.sections[i0].info].offset + rel.offset)
    <3>1. E!Ref(rel) = E!Mod(load.at + load.off[load.file.sections[load.i].info] + rel.offset)
      BY DEF E!Ref
    <3>2. load.i = i0
      BY <1>1
    <3> HIDE DEF rel
    <3>3. QED
      BY <1>2, <2>2, <3>1, <3>2
  <2>4. im.file.sections[im.file.sections[i0].info].offset \in Nat
    BY <1>1, <2>1, FileFacts
  <2>5. im.at + im.file.sections[im.file.sections[i0].info].offset + rel.offset = Spot
    <3>1. PICK b, c : b = im.file.sections[im.file.sections[i0].info].offset /\ c = rel.offset
      OBVIOUS
    <3>2. o = b + c
      BY <3>1 DEF E!WordOf
    <3>3. b \in Nat /\ c \in Nat /\ im.at \in Nat
      BY <1>3, <1>4, <2>4, <3>1
    <3>4. im.at + b + c = im.at + (b + c)
      BY <3>3
    <3>5. QED
      BY <3>1, <3>2, <3>4
  <2>6. Spot \in 0 .. WORDS - 1
    BY <1>4, Constants
  <2>7. QED
    BY <2>3, <2>5, <2>6, ModFacts
<1>6. /\ Spot \in DOMAIN words /\ words[Spot] = im.file.words[o]
  <2>1. ~Applied(z, i0, j0)
    BY <1>1 DEF Applied
  <2>2. /\ Relocated /\ z \in Copies /\ Current[z].at = im.at /\ FileOf(z) = im.file
        /\ Sections(z) = im.file.sections /\ im.file.type = "REL"
    BY <1>1 DEF ImagesInv
  <2>3. i0 \in DOMAIN Sections(z) /\ j0 \in DOMAIN Sections(z)[i0].rels
    BY <1>3, <2>2
  <2>4. LET w == E!WordOf(FileOf(z), i0, j0)
        IN  Current[z].at + w \in DOMAIN words /\ words[Current[z].at + w] = FileOf(z).words[w]
    BY <2>1, <2>2, <2>3 DEF Relocated
  <2>5. QED
    BY <2>2, <2>4
<1>7. words' = CASE rel.type = "32"   -> [words EXCEPT ![Spot] = E!Mod(S + words[Spot])]
                 [] rel.type = "PC32" -> [words EXCEPT ![Spot] = E!Mod(S + words[Spot] - Spot)]
                 [] OTHER             -> words
  <2>1. PICK r, v : r = E!Relocations[load.j] /\ v = E!elfGetSymbolValue(r.sym)
    OBVIOUS
  <2>2. words' = CASE r.type = "32"   -> [words EXCEPT ![E!Ref(r)] = E!DO_386_32(v, @)]
                   [] r.type = "PC32" -> [words EXCEPT ![E!Ref(r)] = E!DO_386_PC32(v, @, E!Ref(r))]
                   [] OTHER           -> words
    BY <2>1 DEF E!elfDoRelocation
  <2>3. r = rel /\ v = S /\ E!Ref(r) = Spot
    BY <1>2, <1>5, <2>1
  <2> HIDE DEF S, rel, Spot
  <2>4. words' = CASE rel.type = "32"   -> [words EXCEPT ![Spot] = E!DO_386_32(S, words[Spot])]
                   [] rel.type = "PC32" -> [words EXCEPT ![Spot] = E!DO_386_PC32(S, words[Spot], Spot)]
                   [] OTHER             -> words
    BY <2>2, <2>3
  <2>5. QED
    BY <2>4 DEF E!DO_386_32, E!DO_386_PC32
<1>8. /\ DOMAIN words' = DOMAIN words /\ \A w : w # Spot => words'[w] = words[w]
      /\ words'[Spot] = CASE rel.type = "32"   -> E!Mod(S + im.file.words[o])
                       [] rel.type = "PC32" -> E!Mod(S + im.file.words[o] - Spot)
                       [] OTHER             -> im.file.words[o]
  <2>1. CASE rel.type = "32"
    BY <1>6, <1>7, <2>1
  <2>2. CASE rel.type = "PC32"
    BY <1>6, <1>7, <2>2
  <2>3. CASE rel.type \notin {"32", "PC32"}
    BY <1>6, <1>7, <2>3
  <2>4. QED
    BY <2>1, <2>2, <2>3
<1>9. /\ load'.pc = "two" /\ load'.i = load.i /\ load'.j = load.j + 1
      /\ load'.file = load.file /\ load'.at = load.at /\ load'.off = load.off
      /\ load' \in LoadType
  <2>1. load.j + 1 \in Nat \ {0}
    BY <1>1
  <2>2. QED
    BY <1>1, <1>2, <2>1 DEF ImagesInv, Types, LoadType
<1>10. Types'
  BY <1>1, <1>2, <1>9 DEF ImagesInv, Types
<1>11. /\ Copies' = Copies /\ \A a : Complete(a)' <=> Complete(a)
       /\ \A a \in Copies : Current'[a] = Current[a]
       /\ \A a \in Copies : FileOf(a)' = FileOf(a) /\ Sections(a)' = Sections(a)
  <2>1. /\ load.pc # "idle" /\ load'.pc # "idle" /\ images' = images
        /\ load'.file = load.file /\ load'.at = load.at /\ load'.off = load.off
        /\ z = Len(images) + 1
    BY <1>1, <1>2, <1>9
  <2>2. /\ Copies' = Copies /\ \A a : Complete(a)' <=> Complete(a)
        /\ \A a \in Copies \ {z} : Current'[a] = Current[a]
        /\ Current'[z] = [file |-> load.file, at |-> load.at, off |-> load'.off,
                          answer |-> "loaded"]
        /\ \A a \in Copies : FileOf(a)' = FileOf(a) /\ Sections(a)' = Sections(a)
    BY <1>10, <2>1, LoadGoesOn
  <2>3. Current'[z] = Current[z]
    BY <1>1, <2>1, <2>2
  <2>4. QED
    BY <2>2, <2>3
<1>12. Held' /\ Distinct' /\ Offsets'
  <2>1. ASSUME NEW a \in Copies', NEW s \in Nat, Has(a, s)'
        PROVE  Has(a, s)
    BY <1>1, <1>9, <1>11, <2>1 DEF Has
  <2>2. \A a \in Copies' : \A s \in Nat : Has(a, s) => BlockOf(a, s) \in heap'
    BY <1>2, <1>11 DEF ImagesInv, Held
  <2>3. QED
    BY <1>11, <2>1, <2>2, MemoryKept
<1>13. E!Linked(im, i0, j0)'
  <2>1. IF rel.sym = 0 THEN S = 0
        ELSE IF im.file.symbols[rel.sym].shndx # E!SHN_UNDEF
        THEN S = E!SymbolAt(im, rel.sym)
        ELSE \E k \in DOMAIN Symbols :
               Symbols[k][1] = im.file.symbols[rel.sym].name /\ Symbols[k][2] = S
    <3>1. PICK sym : sym = rel.sym
      OBVIOUS
    <3>2. sym \in Nat /\ S = E!elfGetSymbolValue(sym) /\ E!elfGetSymbolValue(sym) # E!ELF_ERROR
      BY <1>2, <1>3, <3>1
    <3>3. IF sym = 0 THEN E!elfGetSymbolValue(sym) = 0
          ELSE IF im.file.symbols[sym].shndx # E!SHN_UNDEF
          THEN E!elfGetSymbolValue(sym) = E!SymbolAt(im, sym)
          ELSE \E k \in DOMAIN Symbols :
                 /\ Symbols[k][1] = im.file.symbols[sym].name
                 /\ Symbols[k][2] = E!elfGetSymbolValue(sym)
      BY <1>1, <3>2, ValueFacts
    <3> HIDE DEF S
    <3>4. QED
      BY <3>1, <3>2, <3>3
  <2>2. PICK v : v = S
    OBVIOUS
  <2>3. E!Holds(im, i0, j0, v)'
    BY <1>8, <2>2 DEF E!Holds, E!Mod, E!WordOf
  <2>4. E!SymbolAt(im, rel.sym)' = E!SymbolAt(im, rel.sym)
    BY DEF E!SymbolAt, E!Mod
  <2> HIDE DEF S
  <2>5. CASE rel.sym = 0
    BY <2>1, <2>2, <2>3, <2>5 DEF E!Linked
  <2>6. CASE rel.sym # 0 /\ im.file.symbols[rel.sym].shndx # E!SHN_UNDEF
    BY <2>1, <2>2, <2>3, <2>4, <2>6 DEF E!Linked, E!SHN_UNDEF
  <2>7. CASE rel.sym # 0 /\ im.file.symbols[rel.sym].shndx = E!SHN_UNDEF
    BY <2>1, <2>2, <2>3, <2>7 DEF E!Linked, E!SHN_UNDEF
  <2>8. QED
    BY <2>5, <2>6, <2>7
<1>14. Relocated'
  <2>1. ASSUME NEW a \in Copies', FileOf(a).type = "REL", NEW i \in DOMAIN Sections(a),
               NEW j \in DOMAIN Sections(a)[i].rels
        PROVE  /\ Current[a].at + E!WordOf(FileOf(a), i, j) \in DOMAIN words'
               /\ \/ Applied(a, i, j)' /\ E!Linked(Current[a], i, j)'
                  \/ /\ Applied(a, i, j)' <=> Applied(a, i, j)
                     /\ Applied(a, i, j) => Current'[a] = Current[a]
                     /\ words'[Current[a].at + E!WordOf(FileOf(a), i, j)]
                          = words[Current[a].at + E!WordOf(FileOf(a), i, j)]
    <3>1. Current[a].at + E!WordOf(FileOf(a), i, j) \in DOMAIN words'
      BY <1>8, <1>11, <2>1 DEF ImagesInv, Relocated
    <3>2. CASE a = z /\ i = i0 /\ j = j0
      <4>1. Applied(a, i, j)'
        BY <1>1, <1>9, <3>2 DEF Applied
      <4>2. im = Current'[a]
        BY <1>1, <1>11, <3>2
      <4>3. E!Linked(Current[a], i, j)' <=> E!Linked(im, i0, j0)'
        BY <3>2, <4>2 DEF E!Linked, E!Holds, E!SymbolAt, E!Mod, E!WordOf
      <4>4. QED
        BY <1>13, <3>1, <4>1, <4>3
    <3>3. CASE a = z /\ ~(i = i0 /\ j = j0)
      <4>1. Applied(a, i, j)' <=> Applied(a, i, j)
        <5>1. i \in Nat /\ j \in Nat
          BY <1>1, <2>1, <3>3, FileFacts
        <5>2. QED
          BY <1>1, <1>9, <1>11, <3>3, <5>1 DEF Applied
      <4>2. E!WordOf(FileOf(a), i, j) # o
        <5>1. /\ FileOf(a) = im.file /\ i \in DOMAIN im.file.sections
              /\ j \in DOMAIN im.file.sections[i].rels /\ <<i, j>> # <<i0, j0>>
          BY <1>1, <2>1, <3>3
        <5>2. E!WordOf(im.file, i, j) # E!WordOf(im.file, i0, j0)
          BY <1>3, <1>4, <5>1 DEF E!Relocatable
        <5>3. E!WordOf(FileOf(a), i, j) = E!WordOf(im.file, i, j)
          BY <5>1 DEF E!WordOf
        <5>4. QED
          BY <5>2, <5>3
      <4>3. E!WordOf(FileOf(a), i, j) \in Nat
        BY <1>11, <2>1, WordFacts
      <4>4. Current[a].at + E!WordOf(FileOf(a), i, j) # Spot
        BY <1>1, <1>4, <3>3, <4>2, <4>3
      <4>5. QED
        BY <1>8, <1>11, <3>1, <4>1, <4>4
    <3>4. CASE a # z
      <4>1. /\ E!WordOf(FileOf(a), i, j) \in 0 .. FileOf(a).size - 1
            /\ E!Block(Current[a].at, FileOf(a).size, "image") \in heap
        BY <1>11, <2>1, WordFacts
      <4>2. /\ E!Block(im.at, im.file.size, "image") \in heap /\ Current[a].at # im.at
        <5>1. Has(z, 0) /\ Place(z, 0) = im.at /\ Has(a, 0) /\ Place(a, 0) = Current[a].at
              /\ BlockOf(z, 0) = E!Block(im.at, im.file.size, "image")
          BY <1>1 DEF Has, Place, BlockOf
        <5>2. a \in Copies /\ z \in Copies
          BY <1>1, <1>11, <2>1
        <5>3. /\ BlockOf(z, 0) \in heap
              /\ Place(z, 0) # Place(a, 0)
          BY <3>4, <5>1, <5>2 DEF ImagesInv, Held, Distinct
        <5>4. QED
          BY <5>1, <5>3
      <4>3. PICK b \in heap, d \in heap :
              /\ b.at = Current[a].at /\ b.size = FileOf(a).size
              /\ d.at = im.at /\ d.size = im.file.size
        BY <4>1, <4>2 DEF E!Block
      <4>4. /\ b.at \in Nat /\ d.at \in Nat /\ b.size \in Nat \ {0} /\ d.size \in Nat \ {0}
            /\ b.at + b.size <= d.at \/ d.at + d.size <= b.at
        BY <4>2, <4>3, BlocksApart DEF ImagesInv
      <4>5. Current[a].at + E!WordOf(FileOf(a), i, j) # Spot
        BY <1>4, <4>1, <4>3, <4>4
      <4>6. Applied(a, i, j)' /\ Applied(a, i, j)
        BY <1>1, <1>11, <3>4 DEF Applied
      <4>7. QED
        BY <1>8, <1>11, <3>1, <4>5, <4>6
    <3>5. QED
      BY <3>2, <3>3, <3>4
  <2>2. QED
    BY <1>11, <2>1, WordsKept
<1>15. Apart'
  BY <1>2 DEF ImagesInv, Apart
<1>16. QED
  BY <1>10, <1>12, <1>14, <1>15 DEF ImagesInv

(* A section gets memory of its own, or needs none. *)
LEMMA StageOneKeeps ==
  ASSUME ImagesInv, E!StageOne
  PROVE  ImagesInv'
<1>1. PICK z, i0, file, from :
        /\ z \in Copies
        /\ i0 = load.i /\ file = load.file /\ from = load.at
        /\ z = Len(images) + 1 /\ ~Complete(z) /\ z \in Nat
        /\ \A a \in Copies \ {z} : Complete(a)
        /\ Current[z] = [file |-> load.file, at |-> load.at, off |-> load.off,
                         answer |-> "loaded"]
        /\ FileOf(z) = file /\ Sections(z) = file.sections
        /\ file \in Files /\ file.magic /\ from \in Addresses
        /\ DOMAIN load.off = DOMAIN file.sections /\ load.off \in Seq(Int)
        /\ i0 \in Nat \ {0} /\ load.pc = "one"
  BY LastCopy DEF E!StageOne
<1>2. /\ i0 <= Len(file.sections) /\ file.type = "REL" /\ load.j = 1 /\ load \in LoadType
      /\ UNCHANGED <<externs, words, images>>
  BY <1>1 DEF E!StageOne, ImagesInv, Types
<1>3. /\ DOMAIN file.sections = 1 .. Len(file.sections) /\ Len(file.sections) \in Nat
      /\ \A s \in DOMAIN file.sections : file.sections[s].size \in Nat
  BY <1>1, FileFacts
<1>4. i0 \in DOMAIN file.sections /\ i0 + 1 \in Nat \ {0}
  BY <1>1, <1>2, <1>3
<1>5. CASE ~E!Uninitialised(file.sections[i0])
  <2>1. load' = [load EXCEPT !.i = load.i + 1] /\ UNCHANGED heap
    BY <1>1, <1>5 DEF E!StageOne
  <2>2. /\ load'.pc = "one" /\ load'.i = i0 + 1 /\ load'.j = 1 /\ load'.file = load.file
        /\ load'.at = load.at /\ load'.off = load.off /\ load' \in LoadType
    BY <1>1, <1>2, <1>4, <2>1 DEF LoadType
  <2>3. \A s \in DOMAIN file.sections : E!Uninitialised(file.sections[s]) =>
          (s < i0 + 1 => s < i0)
    BY <1>1, <1>3, <1>5
  <2>4. QED
    BY <1>1, <1>2, <2>1, <2>2, <2>3, AdvanceKeeps
<1>6. CASE E!Uninitialised(file.sections[i0])
  <2>1. PICK adr \in Addresses :
          /\ E!Fits(adr, file.sections[i0].size)
          /\ heap' = heap \cup {E!Block(adr, file.sections[i0].size, "bss")}
          /\ load' = [load EXCEPT !.i = load.i + 1, !.off[load.i] = E!Mod(adr - load.at)]
    BY <1>1, <1>6 DEF E!StageOne
  <2>2. PICK d : d = E!Mod(adr - from) /\ d \in Int /\ E!Mod(from + d) = adr
    BY <1>1, OffsetLeads
  <2>3. [load.off EXCEPT ![i0] = d] \in Seq(Int)
    BY <1>1, <1>4, <2>2
  <2>4. /\ load'.pc = "one" /\ load'.i = i0 + 1 /\ load'.j = 1 /\ load'.file = load.file
        /\ load'.at = load.at /\ load'.off = [load.off EXCEPT ![i0] = d] /\ load' \in LoadType
    <3>1. load' = [load EXCEPT !.i = i0 + 1, !.off = [load.off EXCEPT ![i0] = d]]
      BY <1>1, <2>1, <2>2
    <3>2. QED
      BY <1>1, <1>2, <1>4, <2>3, <3>1 DEF LoadType
  <2>5. Types'
    BY <1>1, <1>2, <2>4 DEF ImagesInv, Types
  <2>6. /\ Copies' = Copies /\ \A a : Complete(a)' <=> Complete(a)
        /\ \A a \in Copies \ {z} : Current'[a] = Current[a]
        /\ Current'[z] = [file |-> file, at |-> from, off |-> [load.off EXCEPT ![i0] = d],
                          answer |-> "loaded"]
        /\ \A a \in Copies : FileOf(a)' = FileOf(a) /\ Sections(a)' = Sections(a)
    BY <1>1, <1>2, <2>4, <2>5, LoadGoesOn
  <2>7. file.sections[i0].size \in Nat \ {0}
    BY <1>3, <1>4, <1>6 DEF E!Uninitialised
  <2>8. Apart' /\ \A b \in heap : b.at # adr
    BY <2>1, <2>7, BlockAdded DEF ImagesInv
  <2>9. PICK new : new = E!Block(adr, file.sections[i0].size, "bss")
    OBVIOUS
  <2>10. ASSUME NEW a \in Copies', NEW s \in Nat, Has(a, s)'
         PROVE  IF a = z /\ s = i0 THEN BlockOf(a, s)' = new
                ELSE a \in Copies /\ Has(a, s) /\ BlockOf(a, s)' = BlockOf(a, s)
    <3>1. CASE a = z /\ s = i0
      <4>1. Place(a, s)' = adr
        BY <1>1, <1>4, <2>2, <2>6, <3>1 DEF Place, E!Mod
      <4>2. QED
        BY <1>1, <2>6, <2>9, <3>1, <4>1 DEF BlockOf, E!Block
    <3>2. CASE a = z /\ s # i0
      <4>1. s = 0 \/ (s \in DOMAIN file.sections /\ s < i0 + 1)
        BY <1>1, <2>4, <2>6, <2>10, <3>2 DEF Has
      <4>2. s = 0 \/ s < i0
        BY <1>1, <3>2, <4>1
      <4>3. Has(a, s)
        BY <1>1, <2>4, <2>6, <2>10, <3>2, <4>2 DEF Has
      <4>4. BlockOf(a, s)' = BlockOf(a, s)
        BY <1>1, <2>6, <3>2, <4>1 DEF BlockOf, Place, FileOf, Sections, E!Block, E!Mod
      <4>5. QED
        BY <2>6, <3>2, <4>3, <4>4
    <3>3. CASE a # z
      <4>1. Has(a, s) /\ a \in Copies
        BY <1>1, <2>6, <2>10, <3>3 DEF Has
      <4>2. BlockOf(a, s)' = BlockOf(a, s)
        BY <2>6, <3>3 DEF BlockOf, Place, E!Block, E!Mod
      <4>3. QED
        BY <3>3, <4>1, <4>2
    <3>4. QED
      BY <3>1, <3>2, <3>3
  <2>11. Held' /\ Distinct'
    <3>1. heap' = heap \cup {new} /\ \A b \in heap : b.at # new.at
      BY <2>1, <2>8, <2>9 DEF E!Block
    <3>2. \A a \in Copies' : \A s \in Nat : Has(a, s)' =>
            IF a = z /\ s = i0 THEN BlockOf(a, s)' = new
            ELSE a \in Copies /\ Has(a, s) /\ BlockOf(a, s)' = BlockOf(a, s)
      BY <2>10
    <3>3. Gets(z, i0, new)
      BY <3>1, <3>2 DEF Gets
    <3>4. QED
      BY <3>3, MemoryGrown
  <2>12. Offsets'
    <3>1. ASSUME NEW a \in Copies'
          PROVE  /\ FileOf(a)'.magic /\ DOMAIN Current'[a].off = DOMAIN Sections(a)'
                 /\ \A s \in DOMAIN Sections(a)' : ~E!Uninitialised(Sections(a)'[s]) =>
                      Current'[a].off[s] = Sections(a)'[s].offset
      <4>1. CASE a = z
        <5>1. \A s \in DOMAIN file.sections : ~E!Uninitialised(file.sections[s]) =>
                load.off[s] = file.sections[s].offset /\ s # i0
          BY <1>1, <1>6 DEF ImagesInv, Offsets
        <5>2. FileOf(a)' = file /\ Sections(a)' = file.sections
          BY <1>1, <2>6, <4>1
        <5>3. Current'[a].off = [load.off EXCEPT ![i0] = d]
          BY <2>6, <4>1
        <5>4. DOMAIN load.off = DOMAIN file.sections /\ file.magic
          BY <1>1
        <5>5. QED
          BY <5>1, <5>2, <5>3, <5>4
      <4>2. CASE a # z
        BY <2>6, <4>2 DEF ImagesInv, Offsets
      <4>3. QED
        BY <4>1, <4>2
    <3>2. QED
      BY <3>1 DEF Offsets, E!Uninitialised
  <2>13. Relocated'
    <3>1. ASSUME NEW a \in Copies', FileOf(a).type = "REL", NEW i \in DOMAIN Sections(a),
                 NEW j \in DOMAIN Sections(a)[i].rels
          PROVE  /\ Current[a].at + E!WordOf(FileOf(a), i, j) \in DOMAIN words'
                 /\ Applied(a, i, j)' <=> Applied(a, i, j)
                 /\ Applied(a, i, j) => Current'[a] = Current[a]
                 /\ words'[Current[a].at + E!WordOf(FileOf(a), i, j)]
                      = words[Current[a].at + E!WordOf(FileOf(a), i, j)]
      <4>1. Current[a].at + E!WordOf(FileOf(a), i, j) \in DOMAIN words
        BY <2>6, <3>1 DEF ImagesInv, Relocated
      <4>2. /\ Applied(a, i, j)' <=> Applied(a, i, j)
            /\ Applied(a, i, j) => a # z
        BY <1>1, <2>4, <2>6 DEF Applied
      <4>3. QED
        BY <1>2, <2>6, <4>1, <4>2
    <3>2. ASSUME NEW a \in Copies'
          PROVE  Current'[a].file = Current[a].file /\ Current'[a].at = Current[a].at
      <4>1. CASE a = z
        <5>1. Current[z].file = file /\ Current[z].at = from
          BY <1>1
        <5>2. Current'[z].file = file /\ Current'[z].at = from
          BY <2>6
        <5>3. QED
          BY <4>1, <5>1, <5>2
      <4>2. CASE a # z
        BY <2>6, <4>2
      <4>3. QED
        BY <4>1, <4>2
    <3>3. QED
      BY <2>6, <3>1, <3>2, WordsKept
  <2>14. QED
    BY <2>5, <2>8, <2>11, <2>12, <2>13 DEF ImagesInv
<1>7. QED
  BY <1>5, <1>6

-----------------------------------------------------------------------------
(* The invariant holds from the start, whatever the loader does, and the   *)
(* other parts leave it alone.                                             *)
LEMMA ImagesInit == E!ElfInit => ImagesInv
<1> SUFFICES ASSUME E!ElfInit PROVE ImagesInv
  OBVIOUS
<1>1. /\ externs = <<>> /\ heap = {} /\ words = <<>> /\ images = <<>>
      /\ load = [pc |-> "idle", file |-> <<>>, at |-> 0, off |-> <<>>, i |-> 1, j |-> 1]
  BY DEF E!ElfInit, E!NoLoad
<1>2. Types
  BY <1>1 DEF Types, LoadType
<1>3. Copies = {}
  BY <1>1 DEF Copies, Current
<1>4. QED
  BY <1>1, <1>2, <1>3 DEF ImagesInv, Apart, Held, Distinct, Offsets, Relocated

LEMMA LoadKeeps ==
  ASSUME ImagesInv, NEW f \in Files, E!Load(f)
  PROVE  ImagesInv'
<1>1. CASE E!elfCheckSupported(f)
  BY <1>1, CopyKeeps
<1>2. CASE ~E!elfCheckSupported(f)
  <2>1. load.pc = "idle" /\ E!Refuse(f, "not_elf") /\ UNCHANGED <<externs, heap, words, load>>
    BY <1>2 DEF E!Load
  <2>2. QED
    BY <2>1, RefuseKeeps
<1>3. QED
  BY <1>1, <1>2

LEMMA ImagesStep == ImagesInv /\ [PartsNext]_vars => ImagesInv'
<1> SUFFICES ASSUME ImagesInv, [PartsNext]_vars PROVE ImagesInv'
  OBVIOUS
<1>1. CASE UNCHANGED elfVars
  <2>1. UNCHANGED <<externs, heap, words, images, load>>
    BY <1>1 DEF elfVars
  <2>2. Types'
    BY <2>1 DEF ImagesInv, Types
  <2>3. QED
    BY <2>1, <2>2, StillKeeps
<1>2. CASE E!ElfNext
  <2>1. CASE E!Register
    BY <2>1, RegisterKeeps
  <2>2. CASE \E f \in Files : E!Load(f)
    BY <2>2, LoadKeeps
  <2>3. CASE E!StageOne
    BY <2>3, StageOneKeeps
  <2>4. CASE E!StageOneDone \/ E!StageTwo \/ E!StageTwoDone
    BY <2>4, StagesKeep
  <2>5. CASE E!elfDoRelocation
    BY <2>5, RelocationKeeps
  <2>6. CASE E!RelocationFails
    BY <2>6, FailureKeeps
  <2>7. CASE E!Loaded
    BY <2>7, LoadedKeeps
  <2>8. QED
    BY <1>2, <2>1, <2>2, <2>3, <2>4, <2>5, <2>6, <2>7 DEF E!ElfNext
<1>3. QED
  BY <1>1, <1>2 DEF PartsNext, Turn, Others, vars

LEMMA ImagesInvariant == PartsSpec => []ImagesInv
<1>1. PartsInit => ImagesInv
  BY ImagesInit DEF PartsInit
<1>2. QED
  BY <1>1, ImagesStep, PTL DEF PartsSpec

-----------------------------------------------------------------------------
(* What follows for the images that are loaded.                            *)
LEMMA LoadedFacts ==
  ASSUME ImagesInv, NEW image \in E!LoadedImages
  PROVE  \E a \in Copies :
           /\ Complete(a) /\ Current[a] = image /\ FileOf(a) = image.file
           /\ Sections(a) = image.file.sections
           /\ image.file \in Files /\ image.file.magic
           /\ DOMAIN image.file.sections \subseteq Nat \ {0}
           /\ image.at \in Addresses /\ image.off \in Seq(Int)
           /\ DOMAIN image.off = DOMAIN image.file.sections
<1>1. PICK a \in DOMAIN images : images[a] = image /\ image.answer = "loaded"
  BY DEF E!LoadedImages
<1>2. a \in 1 .. Len(images) /\ images \in Seq(ImageType)
  BY DEF ImagesInv, Types
<1>3. a \in Copies /\ Complete(a) /\ Current[a] = image
  BY <1>1, <1>2, CurrentFacts DEF ImagesInv, CurrentIs, Copies, Complete
<1>4. FileOf(a) = image.file /\ Sections(a) = image.file.sections
  BY <1>3 DEF FileOf, Sections
<1>5. image \in ImageType
  BY <1>1, <1>2, ElementOf
<1>6. image.file \in Files /\ image.off \in Seq(Int)
  BY <1>5 DEF ImageType
<1>7. image.file.magic /\ DOMAIN image.off = DOMAIN image.file.sections
  BY <1>3, <1>4 DEF ImagesInv, Offsets
<1>8. image.at \in Addresses
  <2>1. Has(a, 0) /\ BlockOf(a, 0).at = image.at
    BY <1>3 DEF Has, BlockOf, Place, E!Block
  <2>2. QED
    BY <1>3, <2>1 DEF ImagesInv, Held, Apart
<1>9. DOMAIN image.file.sections \subseteq Nat \ {0}
  BY <1>6, <1>7, FileFacts
<1>10. QED
  BY <1>3, <1>4, <1>6, <1>7, <1>8, <1>9

(* Whatever is loaded, refused or half loaded besides, an image keeps its  *)
(* copy of the file and a block for each uninitialised section, and no     *)
(* other image has that block (elf.c:199-217).                             *)
THEOREM ImagesKeepMemory == PartsSpec => []ImagesHoldMemory
<1>1. ImagesInv => ImagesHoldMemory
  <2> SUFFICES ASSUME ImagesInv, NEW x \in E!LoadedImages, NEW y \in E!LoadedImages,
                      NEW i \in DOMAIN x.file.sections,
                      E!Uninitialised(x.file.sections[i]), x.file.type = "REL"
               PROVE  /\ E!Block(E!Mod(x.at + x.off[i]), x.file.sections[i].size, "bss") \in heap
                      /\ E!Block(x.at, x.file.size, "image") \in heap
                      /\ \A j \in DOMAIN y.file.sections :
                           /\ E!Uninitialised(y.file.sections[j]) /\ y.file.type = "REL"
                           /\ <<x, i>> # <<y, j>>
                           => E!Mod(x.at + x.off[i]) # E!Mod(y.at + y.off[j])
    BY DEF ImagesHoldMemory, E!ImagesHoldMemory
  <2>1. PICK a \in Copies :
          /\ Complete(a) /\ Current[a] = x /\ FileOf(a) = x.file
          /\ Sections(a) = x.file.sections /\ DOMAIN x.file.sections \subseteq Nat \ {0}
    BY LoadedFacts
  <2>2. PICK b \in Copies :
          /\ Complete(b) /\ Current[b] = y /\ FileOf(b) = y.file
          /\ Sections(b) = y.file.sections /\ DOMAIN y.file.sections \subseteq Nat \ {0}
    BY LoadedFacts
  <2>3. Has(a, i) /\ Has(a, 0) /\ i \in Nat \ {0}
    BY <2>1 DEF Has
  <2>4. /\ Place(a, i) = E!Mod(x.at + x.off[i])
        /\ BlockOf(a, i) = E!Block(E!Mod(x.at + x.off[i]), x.file.sections[i].size, "bss")
        /\ BlockOf(a, 0) = E!Block(x.at, x.file.size, "image")
    BY <2>1, <2>3 DEF Place, BlockOf
  <2>5. ASSUME NEW j \in DOMAIN y.file.sections, E!Uninitialised(y.file.sections[j]),
               y.file.type = "REL", <<x, i>> # <<y, j>>
        PROVE  E!Mod(x.at + x.off[i]) # E!Mod(y.at + y.off[j])
    <3>1. Has(b, j) /\ j \in Nat \ {0} /\ Place(b, j) = E!Mod(y.at + y.off[j])
      BY <2>2, <2>5 DEF Has, Place
    <3>2. <<a, i>> # <<b, j>>
      BY <2>1, <2>2, <2>5
    <3>3. QED
      BY <2>3, <2>4, <3>1, <3>2 DEF ImagesInv, Distinct
  <2>6. QED
    BY <2>3, <2>4, <2>5 DEF ImagesInv, Held
<1>2. QED
  BY <1>1, ImagesInvariant, PTL

LEMMA SymbolsAreFound == ImagesInv => E!SymbolsFound
<1> SUFFICES ASSUME ImagesInv, NEW image \in E!LoadedImages,
                    NEW k \in DOMAIN image.file.symbols,
                    \A j \in 1 .. k - 1 :
                      image.file.symbols[j].name # image.file.symbols[k].name,
                    image.file.symbols[k].shndx \in DOMAIN image.file.sections,
                    image.file.sections[image.file.symbols[k].shndx].addr
                      - E!LinkAddress(image.file)
                      = image.off[image.file.symbols[k].shndx]
             PROVE  E!elfSymbol(image, image.file.symbols[k].name) = E!SymbolAt(image, k)
  BY DEF E!SymbolsFound
<1>1. /\ image.file \in Files /\ image.file.magic /\ image.at \in Nat
      /\ DOMAIN image.file.sections \subseteq Nat \ {0}
      /\ image.off \in Seq(Int) /\ DOMAIN image.off = DOMAIN image.file.sections
  BY LoadedFacts, AddressFacts
<1>2. E!WellFormed(image.file)
  BY <1>1, Constants
<1>3. image.file.symbols \in Seq([name : STRING, value : Int,
                           shndx : {E!SHN_UNDEF, E!SHN_ABS} \cup DOMAIN image.file.sections])
  BY <1>2 DEF E!WellFormed
<1>4. PICK value, t, addr :
        /\ value = image.file.symbols[k].value /\ t = image.file.symbols[k].shndx
        /\ addr = image.file.sections[t].addr
  OBVIOUS
<1>5. value \in Int
  <2>1. image.file.symbols[k] \in
          [name : STRING, value : Int,
           shndx : {E!SHN_UNDEF, E!SHN_ABS} \cup DOMAIN image.file.sections]
    BY <1>3, ElementOf
  <2>2. QED
    BY <1>4, <2>1
<1>6. addr \in Nat /\ image.off[t] \in Int
  <2>1. image.file.sections \in Seq(E!SectionType)
    BY <1>2 DEF E!WellFormed
  <2>2. image.file.sections[t] \in E!SectionType
    BY <1>4, <2>1, ElementOf
  <2>3. image.off[t] \in Int
    BY <1>1, <1>4, ElementOf
  <2>4. QED
    BY <1>4, <2>2, <2>3 DEF E!SectionType
<1>7. E!LinkAddress(image.file) \in Nat
  BY PartsAssumption DEF E!ElfAssumption, E!LinkAddress
<1> DEFINE named == {j \in DOMAIN image.file.symbols :
                       image.file.symbols[j].name = image.file.symbols[k].name}
           first == CHOOSE j \in named : \A l \in named : j <= l
<1>8. first = k
  <2>1. k \in named /\ named \subseteq Nat \ {0}
    <3>1. DOMAIN image.file.symbols \subseteq Nat \ {0}
      BY <1>3
    <3>2. QED
      BY <3>1
  <2>2. \A j \in named : k <= j
    <3>1. \A j \in named : j \notin 1 .. k - 1
      OBVIOUS
    <3> HIDE DEF named
    <3>2. QED
      BY <2>1, <3>1
  <2> HIDE DEF named
  <2>3. first \in named /\ \A l \in named : first <= l
    BY <2>1, <2>2
  <2>4. first <= k /\ k <= first /\ first \in Nat /\ k \in Nat
    BY <2>1, <2>2, <2>3
  <2> HIDE DEF first
  <2>5. QED
    BY <2>4
<1>9. t # E!SHN_ABS
  BY <1>1, <1>4 DEF E!SHN_ABS
<1>10. E!elfSymbol(image, image.file.symbols[k].name)
         = E!Mod(value - E!LinkAddress(image.file) + image.at)
  <2>1. named # {}
    OBVIOUS
  <2>2. E!elfSymbol(image, image.file.symbols[k].name)
          = IF image.file.symbols[first].shndx = E!SHN_ABS
            THEN E!Mod(image.file.symbols[first].value + image.at)
            ELSE E!Mod(image.file.symbols[first].value - E!LinkAddress(image.file) + image.at)
    BY <2>1 DEF E!elfSymbol
  <2> HIDE DEF named, first
  <2>3. QED
    BY <1>4, <1>8, <1>9, <2>2
<1>11. E!SymbolAt(image, k) = E!Mod(image.at + image.off[t] + value - addr)
  BY <1>4, <1>9 DEF E!SymbolAt
<1>12. value - E!LinkAddress(image.file) + image.at = image.at + image.off[t] + value - addr
  <2>1. addr - E!LinkAddress(image.file) = image.off[t]
    BY <1>4
  <2>2. QED
    BY <1>1, <1>5, <1>6, <1>7, <2>1
<1>13. QED
  BY <1>10, <1>11, <1>12

(* Every word that a relocation of a loaded image rewrites holds what its  *)
(* symbol stands for, and goes on holding it; and a symbol asked for by    *)
(* its name is found where the image has it (elf.c:222-296, 444-501).      *)
THEOREM ImagesStayLinked == PartsSpec => []ImagesLinked
<1>1. ImagesInv => E!ImagesLinked
  <2> SUFFICES ASSUME ImagesInv, NEW image \in E!LoadedImages, image.file.type = "REL",
                      NEW i \in DOMAIN image.file.sections,
                      NEW j \in DOMAIN image.file.sections[i].rels
               PROVE  E!Linked(image, i, j)
    BY DEF E!ImagesLinked
  <2>1. PICK a \in Copies :
          /\ Complete(a) /\ Current[a] = image /\ FileOf(a) = image.file
          /\ Sections(a) = image.file.sections
    BY LoadedFacts
  <2>2. Applied(a, i, j)
    BY <2>1 DEF Applied
  <2>3. QED
    BY <2>1, <2>2 DEF ImagesInv, Relocated
<1>2. QED
  BY <1>1, SymbolsAreFound, ImagesInvariant, PTL DEF ImagesLinked

-----------------------------------------------------------------------------
(* Cutting numbers into registers and back.                                *)

LEMMA BytesJoin ==
  ASSUME NEW n \in Nat, n \div 16777216 < 256
  PROVE  A!Byte(n, 1) + 256 * A!Byte(n, 256) + 65536 * A!Byte(n, 65536)
           + 16777216 * A!Byte(n, 16777216) = n
BY DEF A!Byte

LEMMA BitsJoin ==
  ASSUME NEW n \in Nat, n < 268435456
  PROVE  A!Byte(n, 1) + 256 * A!Byte(n, 256) + 65536 * A!Byte(n, 65536)
           + 16777216 * ((n \div 16777216) % 16) = n
BY DEF A!Byte

LEMMA GeometryJoins ==
  ASSUME NEW n \in Nat, n < 65536 * 16 * 63
  PROVE  LET a == A!AddressCHS(n) IN
         ((a.lba[2] + 256 * a.lba[3]) * 16 + a.head) * 63 + a.lba[1] - 1 = n
BY DEF A!AddressCHS

-----------------------------------------------------------------------------
(* The disk driver's inductive invariant.                                  *)

Commanded == {"in", "out", "flush", "packet", "wait", "data", "end", "last"}
Requested == {"check", "program"} \cup Commanded

(* The tables hold what was plugged in. *)
Entered ==
  /\ DOMAIN IDEDev \subseteq Nat /\ DOMAIN Drives \subseteq Nat
  /\ \A i \in DOMAIN IDEDev : \E m \in Machines, u \in A!Units :
       m.drive[u] # A!NoDrive /\ IDEDev[i] = A!Found(m, u)

(* From the command on the registers name the sector that is asked for: a  *)
(* disk's is within its size, and only a disc's goes by packet.            *)
Request ==
  /\ regs = [c \in A!Channels |-> regs[c]]
  /\ req \in [pc : {"off", "found", "idle"} \cup Requested, k : Nat, lba : Nat, write : BOOLEAN]
  /\ req.pc \in Requested => req.lba \in Lbas
  /\ req.pc \in {"program"} \cup Commanded =>
       /\ A!Index(req.k) \in DOMAIN IDEDev
       /\ A!Dev.type = "IDE_ATA" => req.lba + 1 <= A!Dev.size
       /\ A!Dev.type = "IDE_ATAPI" => ~req.write
  /\ req.pc \in {"in", "packet", "wait", "data", "end", "last"} => ~req.write
  /\ req.pc \in {"out", "flush"} => req.write
  /\ req.pc \in Commanded => A!Named(A!Ch) = <<A!Addressed, req.lba>>

(* The buffer is clear until the sector is in it.                          *)
Buffer ==
  req.pc \in Requested /\ ~req.write =>
    BufferA = IF req.pc \in {"end", "last"} THEN <<A!Addressed, req.lba>> ELSE A!Nothing_

DiskInv == Entered /\ Request /\ Buffer

(* An entry is of a drive that is there, and has its channel and place.    *)
LEMMA DriveFacts ==
  ASSUME Entered, NEW i \in DOMAIN IDEDev
  PROVE  /\ IDEDev[i].channel \in A!Channels /\ IDEDev[i].drive \in {0, 1}
         /\ IDEDev[i].type \in A!Types /\ IDEDev[i].size \in Nat
         /\ IDEDev[i].type = "IDE_ATA" /\ ~IDEDev[i].lba => IDEDev[i].size <= 65536 * 16 * 63
<1>1. PICK m \in Machines, u \in A!Units :
        m.drive[u] # A!NoDrive /\ IDEDev[i] = A!Found(m, u)
  BY DEF Entered
<1>2. /\ m.drive[u].type \in A!Types /\ m.drive[u].size \in Nat
      /\ m.drive[u].type = "IDE_ATA" /\ ~m.drive[u].lba => m.drive[u].size <= 65536 * 16 * 63
  BY <1>1, PartsAssumption DEF A!AtaAssumption
<1>3. u[1] \in A!Channels /\ u[2] \in {0, 1}
  BY DEF A!Units
<1>4. QED
  BY <1>1, <1>2, <1>3 DEF A!Found

LEMMA SectorFacts ==
  ASSUME NEW lba \in Lbas
  PROVE  lba \in Nat /\ lba \div 16777216 < 256
BY PartsAssumption DEF A!AtaAssumption

(* While the tables, the registers and the request are what they were, the *)
(* drive and the sector named are.                                         *)
LEMMA SameDrive ==
  ASSUME UNCHANGED <<IDEDev, Drives, regs>>, req'.k = req.k, req'.lba = req.lba
  PROVE  /\ A!Dev' = A!Dev /\ A!Ch' = A!Ch /\ A!Addressed' = A!Addressed
         /\ A!Index(req.k)' = A!Index(req.k)
         /\ (A!Named(A!Ch))' = A!Named(A!Ch)
BY DEF A!Dev, A!Ch, A!Addressed, A!Index, A!Named

LEMMA SamePlace ==
  ASSUME UNCHANGED <<IDEDev, Drives>>
  PROVE  Entered => Entered'
BY DEF Entered

(* A request that ends leaves nothing to keep. *)
LEMMA Ended ==
  ASSUME DiskInv, UNCHANGED <<IDEDev, Drives>>, regs' = regs,
         req' \in [pc : {"off", "found", "idle"}, k : Nat, lba : Nat, write : BOOLEAN]
  PROVE  DiskInv'
BY SamePlace DEF DiskInv, Request, Buffer, Requested, Commanded

LEMMA AnswerEnds ==
  ASSUME NEW code, A!Answer(code)
  PROVE  /\ req' \in [pc : {"off", "found", "idle"}, k : Nat, lba : Nat, write : BOOLEAN]
         /\ req'.pc = "idle" /\ package' = code
BY DEF A!Answer, A!NoReq

(* A request that goes on, with its registers and its tables as they were. *)
LEMMA Carried ==
  ASSUME DiskInv, UNCHANGED <<IDEDev, Drives, regs>>,
         NEW to \in {"program"} \cup Commanded, req' = [req EXCEPT !.pc = to],
         req.pc \in {"program"} \cup Commanded,
         to \in Commanded => req.pc \in Commanded,
         to \in {"in", "packet", "wait", "data", "end", "last"} => ~req.write,
         to \in {"out", "flush"} => req.write,
         ~req.write => BufferA' = IF to \in {"end", "last"} THEN <<A!Addressed, req.lba>>
                                                              ELSE A!Nothing_
  PROVE  DiskInv'
<1>1. /\ req'.pc = to /\ req'.k = req.k /\ req'.lba = req.lba /\ req'.write = req.write
      /\ req' \in [pc : {"off", "found", "idle"} \cup Requested, k : Nat, lba : Nat, write : BOOLEAN]
  BY DEF DiskInv, Request, Requested
<1>2. Entered'
  BY SamePlace DEF DiskInv
<1>3. Request'
  BY <1>1, SameDrive DEF DiskInv, Request, Requested
<1>4. Buffer'
  BY <1>1, SameDrive DEF Buffer
<1>5. QED
  BY <1>2, <1>3, <1>4 DEF DiskInv

LEMMA BeginKeeps ==
  ASSUME DiskInv, A!Begin
  PROVE  DiskInv'
<1>1. /\ req.pc = "check" /\ req' = [req EXCEPT !.pc = "program"]
      /\ UNCHANGED <<IDEDev, Drives, regs, BufferA>>
      /\ A!Index(req.k) \in DOMAIN IDEDev
      /\ A!Dev.type = "IDE_ATA" => req.lba + 1 <= A!Dev.size
      /\ A!Dev.type = "IDE_ATAPI" => ~req.write
  BY DEF A!Begin, A!AtaDrive
<1>2. /\ req'.pc = "program" /\ req'.k = req.k /\ req'.lba = req.lba /\ req'.write = req.write
      /\ req' \in [pc : {"off", "found", "idle"} \cup Requested, k : Nat, lba : Nat, write : BOOLEAN]
  BY <1>1 DEF DiskInv, Request, Requested
<1>3. Entered'
  BY <1>1, SamePlace DEF DiskInv
<1>4. Request'
  BY <1>1, <1>2, SameDrive DEF DiskInv, Request, Requested, Commanded
<1>5. Buffer'
  BY <1>1, <1>2 DEF DiskInv, Buffer, Requested
<1>6. QED
  BY <1>3, <1>4, <1>5 DEF DiskInv

(* What Command puts into the registers names the sector asked for.        *)
LEMMA RegisterFacts ==
  ASSUME DiskInv, req.pc = "program"
  PROVE  LET a == IF A!Dev.type = "IDE_ATA" THEN A!Address(req.lba) ELSE A!Address48(req.lba) IN
         /\ a.mode \in 0 .. 2
         /\ a.mode = 0 => ((a.lba[2] + 256 * a.lba[3]) * 16 + a.head) * 63 + a.lba[1] - 1 = req.lba
         /\ a.mode = 1 => a.lba[1] + 256 * a.lba[2] + 65536 * a.lba[3] + 16777216 * a.head = req.lba
         /\ a.mode = 2 => a.lba[1] + 256 * a.lba[2] + 65536 * a.lba[3] + 16777216 * a.lba[4] = req.lba
<1>1. /\ req.lba \in Nat /\ req.lba \div 16777216 < 256
      /\ A!Dev.type = "IDE_ATA" => req.lba + 1 <= A!Dev.size
      /\ A!Dev.size \in Nat
      /\ A!Dev.type = "IDE_ATA" /\ ~A!Dev.lba => A!Dev.size <= 65536 * 16 * 63
  <2>1. A!Index(req.k) \in DOMAIN IDEDev /\ req.lba \in Lbas
    BY DEF DiskInv, Request, Requested
  <2>2. A!Dev.type = "IDE_ATA" => req.lba + 1 <= A!Dev.size
    BY DEF DiskInv, Request
  <2>3. QED
    BY <2>1, <2>2, DriveFacts, SectorFacts DEF DiskInv, A!Dev
<1>2. CASE A!Dev.type # "IDE_ATA" \/ req.lba >= 268435456
  BY <1>1, <1>2, BytesJoin DEF A!Address, A!Address48
<1>3. CASE A!Dev.type = "IDE_ATA" /\ req.lba < 268435456 /\ A!Dev.lba
  BY <1>1, <1>3, BitsJoin DEF A!Address, A!Address28
<1>4. CASE A!Dev.type = "IDE_ATA" /\ req.lba < 268435456 /\ ~A!Dev.lba
  <2>1. A!Address(req.lba) = A!AddressCHS(req.lba)
    BY <1>1, <1>4 DEF A!Address
  <2>2. req.lba < 65536 * 16 * 63
    BY <1>1, <1>4
  <2>3. A!AddressCHS(req.lba).mode = 0
    BY DEF A!AddressCHS
  <2>4. QED
    BY <1>1, <1>4, <2>1, <2>2, <2>3, GeometryJoins
<1>5. QED
  BY <1>1, <1>2, <1>3, <1>4

LEMMA CommandKeeps ==
  ASSUME DiskInv, A!Command
  PROVE  DiskInv'
<1> DEFINE a == IF A!Dev.type = "IDE_ATA" THEN A!Address(req.lba) ELSE A!Address48(req.lba)
           r == A!Registers(A!Dev.drive, a)
<1>1. /\ req.pc = "program" /\ regs' = [regs EXCEPT ![A!Ch] = r]
      /\ UNCHANGED <<IDEDev, Drives, BufferA>>
      /\ req' = [req EXCEPT !.pc = IF A!Dev.type = "IDE_ATAPI" THEN "packet"
                                   ELSE IF req.write THEN "out" ELSE "in"]
  BY DEF A!Command
<1>2. /\ req'.k = req.k /\ req'.lba = req.lba /\ req'.write = req.write
      /\ req' \in [pc : {"off", "found", "idle"} \cup Requested, k : Nat, lba : Nat, write : BOOLEAN]
      /\ req'.pc \in {"in", "out", "packet"}
      /\ req'.pc \in {"in", "packet"} => ~req.write
      /\ req'.pc = "out" => req.write
  BY <1>1 DEF DiskInv, Request, Requested, Commanded
<1>3. /\ A!Dev' = A!Dev /\ A!Ch' = A!Ch /\ A!Addressed' = A!Addressed
      /\ A!Index(req.k)' = A!Index(req.k)
  BY <1>1, <1>2 DEF A!Dev, A!Ch, A!Addressed, A!Index
<1>4. A!Ch \in A!Channels
  BY <1>1, DriveFacts DEF DiskInv, Request, A!Ch, A!Dev
<1>5. regs' = [c \in A!Channels |-> regs'[c]] /\ regs'[A!Ch] = r
  BY <1>1, <1>4 DEF DiskInv, Request
<1>6. (A!Named(A!Ch))' = <<A!Addressed, req.lba>>
  <2>1. r.slave = A!Dev.drive /\ r.mode = a.mode /\ r.head = a.head /\ r.lba = a.lba
    BY DEF A!Registers
  <2>2. PICK c : c = A!Ch /\ c = A!Ch'
    BY <1>3
  <2>3. (A!Named(A!Ch))' = A!Named(c)'
    BY <2>2 DEF A!Named
  <2>4. A!Named(c)' = <<<<c, r.slave>>, req.lba>>
    <3> HIDE DEF a, r
    <3>1. regs'[c] = r
      BY <1>5, <2>2
    <3>2. /\ a.mode \in 0 .. 2
          /\ a.mode = 0 => ((a.lba[2] + 256 * a.lba[3]) * 16 + a.head) * 63 + a.lba[1] - 1 = req.lba
          /\ a.mode = 1 => a.lba[1] + 256 * a.lba[2] + 65536 * a.lba[3] + 16777216 * a.head = req.lba
          /\ a.mode = 2 => a.lba[1] + 256 * a.lba[2] + 65536 * a.lba[3] + 16777216 * a.lba[4] = req.lba
      BY <1>1, RegisterFacts DEF a
    <3>3. QED
      BY <2>1, <3>1, <3>2 DEF A!Named
  <2>5. QED
    BY <2>1, <2>2, <2>3, <2>4 DEF A!Addressed, A!Ch
<1>7. Entered'
  BY <1>1, SamePlace DEF DiskInv
<1>8. Request'
  <2>1. req'.pc \in Commanded /\ req'.pc \notin {"flush", "wait", "data", "end", "last"}
    BY <1>2 DEF Commanded
  <2>2. QED
    BY <1>1, <1>2, <1>3, <1>5, <1>6, <2>1 DEF DiskInv, Request, Requested
<1>9. Buffer'
  BY <1>1, <1>2 DEF DiskInv, Buffer, Requested
<1>10. QED
  BY <1>7, <1>8, <1>9 DEF DiskInv

LEMMA AskKeeps ==
  ASSUME DiskInv, A!Ask
  PROVE  DiskInv'
<1>1. PICK k \in DOMAIN Drives, lba \in Lbas, write \in BOOLEAN :
        /\ req' = [pc |-> "check", k |-> k, lba |-> lba, write |-> write]
        /\ ~write => BufferA' = A!Nothing_
  BY DEF A!Ask, A!SMReadFrom, A!SMWriteTo
<1>2. UNCHANGED <<IDEDev, Drives, regs>>
  BY DEF A!Ask, A!AtaDrive
<1>3. k \in Nat /\ lba \in Nat
  BY SectorFacts DEF DiskInv, Entered
<1>4. Entered'
  BY <1>2, SamePlace DEF DiskInv
<1>5. Request'
  BY <1>1, <1>2, <1>3 DEF DiskInv, Request, Requested, Commanded
<1>6. Buffer'
  BY <1>1 DEF Buffer
<1>7. QED
  BY <1>4, <1>5, <1>6 DEF DiskInv

(* The driver's steps in the middle of a transfer.                         *)
LEMMA TransferKeeps ==
  ASSUME DiskInv, A!WriteDisk \/ A!SendPacket \/ A!IDEWaitIRQ \/ A!ReadDisc
  PROVE  DiskInv'
<1>1. UNCHANGED <<IDEDev, Drives, regs>>
  BY DEF A!WriteDisk, A!SendPacket, A!IDEWaitIRQ, A!ReadDisc, A!AtaDrive
<1>2. req.pc \in Commanded => A!Named(A!Ch) = <<A!Addressed, req.lba>>
  BY DEF DiskInv, Request
<1>3. req.pc \in {"packet", "wait", "data"} => ~req.write /\ BufferA = A!Nothing_
  BY DEF DiskInv, Request, Buffer, Requested, Commanded
<1>4. CASE A!WriteDisk
  <2>1. req.pc = "out" /\ req' = [req EXCEPT !.pc = "flush"] /\ BufferA' = BufferA
    BY <1>4 DEF A!WriteDisk
  <2>2. req.write
    BY <2>1 DEF DiskInv, Request
  <2>3. QED
    BY <1>1, <2>1, <2>2, Carried DEF Commanded
<1>5. CASE A!SendPacket
  <2>1. req.pc = "packet" /\ req' = [req EXCEPT !.pc = "wait"] /\ BufferA' = BufferA
    BY <1>5 DEF A!SendPacket
  <2>2. QED
    BY <1>1, <1>3, <2>1, Carried DEF Commanded
<1>6. CASE A!IDEWaitIRQ /\ req.pc = "wait"
  <2>1. req' = [req EXCEPT !.pc = "data"] /\ BufferA' = BufferA
    BY <1>6 DEF A!IDEWaitIRQ, DiskInv, Request
  <2>2. QED
    BY <1>1, <1>3, <1>6, <2>1, Carried DEF Commanded
<1>7. CASE A!IDEWaitIRQ /\ req.pc = "end"
  <2>1. req' = [req EXCEPT !.pc = "last"] /\ BufferA' = BufferA
    BY <1>7 DEF A!IDEWaitIRQ, DiskInv, Request
  <2>2. ~req.write /\ BufferA = <<A!Addressed, req.lba>>
    BY <1>7 DEF DiskInv, Request, Buffer, Requested, Commanded
  <2>3. QED
    BY <1>1, <1>7, <2>1, <2>2, Carried DEF Commanded
<1>8. CASE A!ReadDisc
  <2>1. req.pc = "data" /\ req' = [req EXCEPT !.pc = "end"] /\ BufferA' = A!Named(A!Ch)
    BY <1>8 DEF A!ReadDisc
  <2>2. BufferA' = <<A!Addressed, req.lba>>
    BY <1>2, <2>1 DEF Commanded
  <2>3. QED
    BY <1>1, <1>3, <2>1, <2>2, Carried DEF Commanded
<1>9. QED
  BY <1>4, <1>5, <1>6, <1>7, <1>8 DEF A!IDEWaitIRQ

LEMMA StartKeeps ==
  ASSUME DiskInv, (\E m \in Machines : A!IDEInitialise(m)) \/ A!SMInit
  PROVE  DiskInv'
<1>1. regs' = regs
  BY DEF A!IDEInitialise, A!SMInit, A!AtaDrive
<1>2. /\ req' \in [pc : {"off", "found", "idle"} \cup Requested, k : Nat, lba : Nat, write : BOOLEAN]
      /\ req'.pc \in {"found", "idle"}
  <2>1. PICK pc \in {"found", "idle"} : req' = [req EXCEPT !.pc = pc]
    <3>1. CASE \E m \in Machines : A!IDEInitialise(m)
      BY <3>1 DEF A!IDEInitialise
    <3>2. CASE A!SMInit
      BY <3>2 DEF A!SMInit
    <3>3. QED
      BY <3>1, <3>2
  <2>2. QED
    BY <2>1 DEF DiskInv, Request
<1>3. Entered'
  <2>1. ASSUME NEW m \in Machines, A!IDEInitialise(m)
        PROVE  Entered'
    <3>1. PICK count \in 0 .. 4 :
            \E unit \in [1 .. count -> {u \in A!Units : m.drive[u] # A!NoDrive}] :
              IDEDev' = [i \in 1 .. count |-> A!Found(m, unit[i])]
      BY <2>1 DEF A!IDEInitialise
    <3>2. Drives' = Drives
      BY <2>1 DEF A!IDEInitialise
    <3>3. PICK unit \in [1 .. count -> {u \in A!Units : m.drive[u] # A!NoDrive}] :
            IDEDev' = [i \in 1 .. count |-> A!Found(m, unit[i])]
      BY <3>1
    <3>4. \A i \in 1 .. count : unit[i] \in A!Units /\ m.drive[unit[i]] # A!NoDrive
      OBVIOUS
    <3>5. QED
      BY <3>2, <3>3, <3>4 DEF DiskInv, Entered
  <2>2. CASE A!SMInit
    BY <2>2 DEF A!SMInit, DiskInv, Entered
  <2>3. QED
    BY <2>1, <2>2
<1>4. Request' /\ Buffer'
  BY <1>1, <1>2 DEF DiskInv, Request, Buffer, Requested, Commanded
<1>5. QED
  BY <1>3, <1>4 DEF DiskInv

LEMMA DiskInvariant == PartsSpec => []DiskInv
<1>1. PartsInit => DiskInv
  BY DEF PartsInit, A!AtaInit, A!NoReq, DiskInv, Entered, Request, Buffer, Requested, Commanded
<1>2. DiskInv /\ [PartsNext]_vars => DiskInv'
  <2> SUFFICES ASSUME DiskInv, [PartsNext]_vars PROVE DiskInv'
    OBVIOUS
  <2>1. CASE UNCHANGED <<IDEDev, Drives, regs, req, BufferA>>
    <3>1. Entered'
      BY <2>1, SamePlace DEF DiskInv
    <3>2. Request' /\ Buffer'
      BY <2>1, SameDrive DEF DiskInv, Request, Buffer
    <3>3. QED
      BY <3>1, <3>2 DEF DiskInv
  <2>2. CASE UNCHANGED ataVars
    BY <2>1, <2>2 DEF ataVars
  <2>3. ASSUME NEW c \in A!Channels, A!DriveReady(c) \/ A!DriveFails(c) \/ A!IDEIrq(c)
        PROVE  DiskInv'
    BY <2>1, <2>3 DEF A!DriveReady, A!DriveFails, A!IDEIrq, A!AtaDrive
  <2>4. CASE A!Refused \/ A!PollFails \/ A!Flushed \/ A!DiscDone \/ A!ReadDisk
    <3>1. UNCHANGED <<IDEDev, Drives, regs>>
      BY <2>4 DEF A!Refused, A!PollFails, A!Flushed, A!DiscDone, A!ReadDisk, A!AtaDrive
    <3>2. \E code : A!Answer(code)
      BY <2>4 DEF A!Refused, A!PollFails, A!Flushed, A!DiscDone, A!ReadDisk
    <3>3. QED
      BY <3>1, <3>2, AnswerEnds, Ended
  <2>5. [A!AtaNext]_ataVars
    BY DEF PartsNext, Turn, Others, vars
  <2>6. QED
    BY <2>2, <2>3, <2>4, <2>5, AskKeeps, TransferKeeps, StartKeeps, BeginKeeps, CommandKeeps
       DEF A!AtaNext, A!Driver
<1>3. QED
  BY <1>1, <1>2, PTL DEF PartsSpec

-----------------------------------------------------------------------------
(* No error that is looked at is answered with 0.                          *)
LEMMA ErrorsNotZero ==
  ASSUME NEW e \in 1 .. 4, NEW bits
  PROVE  A!IDEPrintErr(e, bits) # 0
<1> DEFINE set == {i \in DOMAIN A!ErrorBits : A!ErrorBits[i][1] \in bits}
<1>1. DOMAIN A!ErrorBits = 1 .. 8 /\ \A i \in 1 .. 8 : A!ErrorBits[i][2] # 0
  BY DEF A!ErrorBits
<1>2. CASE e = 2
  <2>1. CASE set = {}
    BY <1>2, <2>1 DEF A!IDEPrintErr
  <2>2. CASE set # {}
    <3>1. set \subseteq 1 .. 8
      BY <1>1
    <3>2. \E i \in set : \A j \in set : j <= i
      BY <2>2, <3>1
    <3>3. (CHOOSE i \in set : \A j \in set : j <= i) \in set
      BY <3>2
    <3>4. A!IDEPrintErr(e, bits) = A!ErrorBits[CHOOSE i \in set : \A j \in set : j <= i][2]
      BY <1>2, <2>2 DEF A!IDEPrintErr
    <3>5. QED
      BY <1>1, <3>1, <3>3, <3>4
  <2>3. QED
    BY <2>1, <2>2
<1>3. CASE e # 2
  BY <1>3 DEF A!IDEPrintErr
<1>4. QED
  BY <1>2, <1>3

-----------------------------------------------------------------------------
(* The open files' inductive invariant.                                    *)

Present(i) == "PRESENT" \in _iofiles[i].flags
BlocksOf(i) == {_iofiles[i].base, _iofiles[i].path}

FileType ==
  [flags : Modes \cup {{}}, base : Blocks \cup {NoBlock}, path : Blocks \cup {NoBlock},
   ptr : 0 .. Farthest + MaxSize, remaining : 0 .. MaxSize, size : 0 .. MaxSize,
   name : DOMAIN Contents \cup {""}]

(* A slot that is not taken is as it was at the start, so that nothing of  *)
(* the file it last held is in it.                                         *)
Table ==
  /\ _iofiles \in [F!Slots -> FileType]
  /\ \A i \in F!Slots : IF Present(i) THEN _iofiles[i].name \in DOMAIN Contents
                                      ELSE _iofiles[i] = F!Closed

(* What the fonts keep stays allocated: no new block is one of theirs.     *)
Heap ==
  /\ DOMAIN live \subseteq Blocks
  /\ UNION fonts \subseteq DOMAIN live

Stored ==
  /\ DOMAIN stored \subseteq DOMAIN Contents
  /\ \A path \in DOMAIN stored : stored[path] \in 0 .. MaxSize

(* Files that are open own their blocks; as nothing is allocated that is   *)
(* in use, no other comes to own them.                                     *)
Owned ==
  \A i \in F!Slots : Present(i) =>
    /\ BlocksOf(i) \subseteq DOMAIN live
    /\ _iofiles[i].size <= live[_iofiles[i].base]
    /\ _iofiles[i].base # _iofiles[i].path
    /\ BlocksOf(i) \cap UNION fonts = {}
    /\ \A j \in F!Slots \ {i} : Present(j) => BlocksOf(i) \cap BlocksOf(j) = {}

FilesInv == Table /\ Heap /\ Stored /\ Owned

-----------------------------------------------------------------------------
(* Facts about the operators.                                              *)

LEMMA LeastFacts ==
  ASSUME NEW S \in SUBSET Nat, S # {}
  PROVE  F!Min(S) \in S /\ \A y \in S : F!Min(S) <= y
<1>1. IsWellFoundedOn(OpToRel(<, Nat), Nat)
  BY NatLessThanWellFounded
<1>2. PICK x \in S : \A y \in S : ~(<<y, x>> \in OpToRel(<, Nat))
  BY <1>1, WFMin
<1>3. \A y \in S : ~(y < x)
  BY <1>2 DEF OpToRel
<1>4. \A y \in S : x <= y
  BY <1>3
<1>5. QED
  BY <1>4 DEF F!Min

LEMMA FirstSlotFacts ==
  ASSUME F!FAllocate # {}
  PROVE  F!Min(F!FAllocate) \in F!Slots /\ ~Present(F!Min(F!FAllocate))
<1>1. F!FAllocate \in SUBSET Nat
  BY PartsAssumption DEF F!FAllocate, F!Slots, F!OpenFilesAssumption
<1>2. F!Min(F!FAllocate) \in F!FAllocate
  BY <1>1, LeastFacts
<1>3. QED
  BY <1>2 DEF F!FAllocate, Present

LEMMA FieldFacts ==
  ASSUME NEW f \in FileType
  PROVE  f.remaining \in 0 .. MaxSize /\ f.size \in 0 .. MaxSize /\ f.ptr \in 0 .. Farthest + MaxSize
BY DEF FileType

LEMMA SizeFacts ==
  ASSUME Stored, NEW path \in DOMAIN Contents, NEW size \in F!SizesOf(path)
  PROVE  size \in 0 .. MaxSize
BY PartsAssumption DEF F!SizesOf, Stored, F!OpenFilesAssumption

LEMMA MinFacts ==
  ASSUME NEW m \in Nat, NEW n \in Nat
  PROVE  F!Min({m, n}) \in Nat /\ F!Min({m, n}) <= n
BY LeastFacts, {m, n} \in SUBSET Nat /\ n \in {m, n}

-----------------------------------------------------------------------------
(* Every call keeps the invariant.                                         *)

(* Blocks that were not in use are taken, and no file changes.             *)
LEMMA BlocksTaken ==
  ASSUME FilesInv, NEW bs \in SUBSET F!Unused, UNCHANGED <<_iofiles, stored>>,
         DOMAIN live' = DOMAIN live \cup bs,
         \A x \in DOMAIN live : live'[x] = live[x],
         UNION fonts' \subseteq (UNION fonts) \cup bs
  PROVE  FilesInv'
<1> USE DEF F!Unused
<1>1. Table' /\ Stored'
  <2>1. \A i : _iofiles'[i] = _iofiles[i] /\ (Present(i)' <=> Present(i))
    BY DEF Present
  <2>2. QED
    BY <2>1 DEF FilesInv, Table, Stored
<1>2. Heap'
  BY DEF FilesInv, Heap
<1>3. ASSUME NEW i \in F!Slots, Present(i)
      PROVE  /\ BlocksOf(i) \subseteq DOMAIN live'
             /\ _iofiles[i].size <= live'[_iofiles[i].base]
             /\ BlocksOf(i) \cap UNION fonts' = {}
  <2>1. /\ BlocksOf(i) \subseteq DOMAIN live /\ _iofiles[i].base \in DOMAIN live
        /\ _iofiles[i].size <= live[_iofiles[i].base]
        /\ BlocksOf(i) \cap UNION fonts = {}
    BY <1>3 DEF FilesInv, Owned, BlocksOf
  <2>2. BlocksOf(i) \cap bs = {}
    <3>1. \A x \in bs : x \notin DOMAIN live
      OBVIOUS
    <3>2. QED
      BY <2>1, <3>1
  <2>3. QED
    BY <2>1, <2>2
<1>4. Owned'
  BY <1>3 DEF FilesInv, Owned, Present, BlocksOf
<1>5. QED
  BY <1>1, <1>2, <1>4 DEF FilesInv

LEMMA OpenKeeps ==
  ASSUME FilesInv, NEW path \in DOMAIN Contents, NEW flags \in Modes, F!FOpen(path, flags)
  PROVE  FilesInv'
<1>1. PICK size \in F!SizesOf(path), b \in F!Unused :
        IF size = 0 \/ F!FAllocate = {}
        THEN live' = F!With(b, size + 1) /\ UNCHANGED <<_iofiles, stored, fonts>>
        ELSE \E p \in F!Unused \ {b} :
               /\ live' = [x \in DOMAIN live \cup {b, p} |->
                             IF x = b THEN size + 1 ELSE IF x = p THEN 1 ELSE live[x]]
               /\ _iofiles' = [_iofiles EXCEPT ![F!Min(F!FAllocate)] =
                                 F!Opened(path, flags, size, b, p)]
               /\ UNCHANGED <<stored, fonts>>
  BY DEF F!FOpen
<1>2. size \in 0 .. MaxSize /\ "PRESENT" \in flags
  BY SizeFacts DEF FilesInv, F!FOpen
<1>3. CASE size = 0 \/ F!FAllocate = {}
  <2>1. DOMAIN live' = DOMAIN live \cup {b} /\ \A x \in DOMAIN live : live'[x] = live[x]
    BY <1>1, <1>3 DEF F!With, F!Unused
  <2>2. QED
    BY <1>1, <1>3, <2>1, BlocksTaken, {b} \in SUBSET F!Unused
<1>4. CASE ~(size = 0 \/ F!FAllocate = {})
  <2>1. PICK m \in F!Slots, p \in F!Unused \ {b}, f \in FileType :
          /\ ~Present(m)
          /\ f = F!Opened(path, flags, size, b, p)
          /\ _iofiles' = [_iofiles EXCEPT ![m] = f]
          /\ live' = [x \in DOMAIN live \cup {b, p} |->
                        IF x = b THEN size + 1 ELSE IF x = p THEN 1 ELSE live[x]]
          /\ UNCHANGED <<stored, fonts>>
    <3>1. F!Min(F!FAllocate) \in F!Slots /\ ~Present(F!Min(F!FAllocate))
      BY <1>4, FirstSlotFacts
    <3>2. PICK p \in F!Unused \ {b} :
            /\ live' = [x \in DOMAIN live \cup {b, p} |->
                          IF x = b THEN size + 1 ELSE IF x = p THEN 1 ELSE live[x]]
            /\ _iofiles' = [_iofiles EXCEPT ![F!Min(F!FAllocate)] =
                              F!Opened(path, flags, size, b, p)]
            /\ UNCHANGED <<stored, fonts>>
      BY <1>1, <1>4
    <3>3. F!Opened(path, flags, size, b, p) \in FileType
      <4>1. 0 \in 0 .. Farthest + MaxSize
        BY PartsAssumption DEF F!OpenFilesAssumption
      <4>2. b \in Blocks /\ p \in Blocks
        BY DEF F!Unused
      <4>3. QED
        BY <1>2, <4>1, <4>2 DEF F!Opened, FileType
    <3>4. QED
      BY <3>1, <3>2, <3>3
  <2>2. f.flags = flags /\ f.base = b /\ f.path = p /\ f.size = size /\ f.name = path
    BY <2>1 DEF F!Opened
  <2>3. \A j \in F!Slots : _iofiles'[j] = IF j = m THEN f ELSE _iofiles[j]
    BY <2>1 DEF FilesInv, Table
  <2>4. \A j \in F!Slots : /\ Present(j)' <=> (j = m \/ Present(j))
                           /\ BlocksOf(j)' = IF j = m THEN {b, p} ELSE BlocksOf(j)
    BY <1>2, <2>2, <2>3 DEF Present, BlocksOf
  <2>5. /\ b \notin DOMAIN live /\ p \notin DOMAIN live /\ b # p /\ {b, p} \subseteq Blocks
        /\ DOMAIN live' = DOMAIN live \cup {b, p}
        /\ live'[b] = size + 1 /\ \A x \in DOMAIN live : live'[x] = live[x]
    BY <2>1 DEF F!Unused
  <2>6. Table'
    <3>1. _iofiles' \in [F!Slots -> FileType]
      BY <2>1 DEF FilesInv, Table
    <3>2. QED
      BY <2>2, <2>3, <2>4, <3>1 DEF FilesInv, Table
  <2>7. Heap' /\ Stored'
    BY <2>1, <2>5 DEF FilesInv, Heap, Stored
  <2>8. ASSUME NEW i \in F!Slots, Present(i)
        PROVE  /\ BlocksOf(i) \subseteq DOMAIN live /\ _iofiles[i].base \in DOMAIN live
               /\ _iofiles[i].size <= live[_iofiles[i].base]
               /\ _iofiles[i].base # _iofiles[i].path
               /\ BlocksOf(i) \cap UNION fonts = {}
               /\ \A j \in F!Slots \ {i} : Present(j) => BlocksOf(i) \cap BlocksOf(j) = {}
    BY <2>8 DEF FilesInv, Owned, BlocksOf
  <2>9. ASSUME NEW i \in F!Slots, Present(i)'
        PROVE  /\ BlocksOf(i)' \subseteq DOMAIN live'
               /\ _iofiles'[i].size <= live'[_iofiles'[i].base]
               /\ _iofiles'[i].base # _iofiles'[i].path
               /\ BlocksOf(i)' \cap UNION fonts' = {}
               /\ \A j \in F!Slots \ {i} : Present(j)' => BlocksOf(i)' \cap BlocksOf(j)' = {}
    <3>1. CASE i = m
      <4>1. BlocksOf(i)' \subseteq DOMAIN live' /\ BlocksOf(i)' \cap UNION fonts' = {}
        BY <2>1, <2>4, <2>5, <3>1 DEF FilesInv, Heap
      <4>2. _iofiles'[i].size <= live'[_iofiles'[i].base] /\ _iofiles'[i].base # _iofiles'[i].path
        BY <1>2, <2>2, <2>3, <2>5, <3>1
      <4>3. \A j \in F!Slots \ {i} : Present(j)' => BlocksOf(i)' \cap BlocksOf(j)' = {}
        BY <2>4, <2>5, <2>8, <3>1
      <4>4. QED
        BY <4>1, <4>2, <4>3
    <3>2. CASE i # m
      <4>1. Present(i) /\ _iofiles'[i] = _iofiles[i] /\ BlocksOf(i)' = BlocksOf(i)
        BY <2>3, <2>4, <2>9, <3>2
      <4>2. \A j \in F!Slots \ {i} : Present(j)' => BlocksOf(i)' \cap BlocksOf(j)' = {}
        BY <2>4, <2>5, <2>8, <4>1
      <4>3. QED
        BY <2>1, <2>5, <2>8, <4>1, <4>2
    <3>3. QED
      BY <3>1, <3>2
  <2>10. Owned'
    BY <2>9 DEF Owned
  <2>11. QED
    BY <2>6, <2>7, <2>10 DEF FilesInv
<1>5. QED
  BY <1>3, <1>4

LEMMA CloseKeeps ==
  ASSUME FilesInv, NEW i \in F!Slots, F!FClose(i)
  PROVE  FilesInv'
<1> DEFINE f == _iofiles[i]
<1>1. PICK gone \in SUBSET BlocksOf(i) :
        /\ live' = F!Without(live, gone)
        /\ _iofiles' = [_iofiles EXCEPT ![i] = F!Closed]
        /\ UNCHANGED fonts
        /\ \/ stored' = stored
           \/ stored' = [p \in DOMAIN stored \cup {f.name} |->
                           IF p = f.name THEN f.size ELSE stored[p]]
  <2>1. {f.base} \cup (IF "WRITABLE" \in f.flags THEN {f.path} ELSE {}) \in SUBSET BlocksOf(i)
    BY DEF BlocksOf
  <2>2. QED
    BY <2>1 DEF F!FClose
<1>2. Present(i) /\ f \in FileType /\ f.name \in DOMAIN Contents
  BY DEF FilesInv, Table, Present, F!FClose
<1>3. \A j \in F!Slots : _iofiles'[j] = IF j = i THEN F!Closed ELSE _iofiles[j]
  BY <1>1 DEF FilesInv, Table
<1>4. \A j \in F!Slots : /\ Present(j)' <=> (j # i /\ Present(j))
                         /\ j # i => BlocksOf(j)' = BlocksOf(j)
  <2>1. "PRESENT" \notin F!Closed.flags
    BY DEF F!Closed
  <2>2. QED
    BY <1>3, <2>1 DEF Present, BlocksOf
<1>5. /\ DOMAIN live' = DOMAIN live \ gone
      /\ \A x \in DOMAIN live \ gone : live'[x] = live[x]
  BY <1>1 DEF F!Without
<1>6. Table'
  <2>1. 0 \in 0 .. MaxSize /\ 0 \in 0 .. Farthest + MaxSize
    BY PartsAssumption DEF F!OpenFilesAssumption
  <2>2. F!Closed \in FileType
    BY <2>1 DEF F!Closed, FileType
  <2>3. _iofiles' \in [F!Slots -> FileType]
    BY <1>1, <2>2 DEF FilesInv, Table
  <2>4. QED
    BY <1>3, <1>4, <2>3 DEF FilesInv, Table
<1>7. Stored'
  BY <1>1, <1>2 DEF FilesInv, Stored, FileType
<1>8. BlocksOf(i) \cap UNION fonts = {}
  BY <1>2 DEF FilesInv, Owned
<1>9. Heap'
  BY <1>1, <1>5, <1>8 DEF FilesInv, Heap
<1>10. ASSUME NEW j \in F!Slots, Present(j)'
       PROVE  /\ BlocksOf(j)' \subseteq DOMAIN live'
              /\ _iofiles'[j].size <= live'[_iofiles'[j].base]
              /\ _iofiles'[j].base # _iofiles'[j].path
              /\ BlocksOf(j)' \cap UNION fonts' = {}
              /\ \A k \in F!Slots \ {j} : Present(k)' => BlocksOf(j)' \cap BlocksOf(k)' = {}
  <2>1. j # i /\ Present(j) /\ _iofiles'[j] = _iofiles[j] /\ BlocksOf(j)' = BlocksOf(j)
    BY <1>3, <1>4, <1>10
  <2>2. /\ BlocksOf(j) \subseteq DOMAIN live /\ _iofiles[j].base \in BlocksOf(j)
        /\ _iofiles[j].size <= live[_iofiles[j].base]
        /\ _iofiles[j].base # _iofiles[j].path
        /\ BlocksOf(j) \cap UNION fonts = {}
        /\ \A k \in F!Slots \ {j} : Present(k) => BlocksOf(j) \cap BlocksOf(k) = {}
    BY <2>1 DEF FilesInv, Owned, BlocksOf
  <2>3. BlocksOf(j) \cap gone = {}
    BY <1>2, <2>1, <2>2
  <2>4. BlocksOf(j)' \subseteq DOMAIN live' /\ live'[_iofiles[j].base] = live[_iofiles[j].base]
    BY <1>5, <2>1, <2>2, <2>3
  <2>5. \A k \in F!Slots \ {j} : Present(k)' => BlocksOf(j)' \cap BlocksOf(k)' = {}
    BY <1>4, <2>1, <2>2
  <2>6. QED
    BY <1>1, <2>1, <2>2, <2>4, <2>5
<1>11. Owned'
  BY <1>10 DEF Owned
<1>12. QED
  BY <1>6, <1>7, <1>9, <1>11 DEF FilesInv

LEMMA ReadKeeps ==
  ASSUME FilesInv, NEW i \in F!Slots, NEW n \in 1 .. MaxSize, F!FRead(i, n)
  PROVE  FilesInv'
<1>1. _iofiles[i] \in FileType /\ MaxSize \in Nat /\ Farthest \in Nat
  BY PartsAssumption DEF FilesInv, Table, F!OpenFilesAssumption
<1>2. PICK k \in 0 .. Farthest + MaxSize : _iofiles' = [_iofiles EXCEPT ![i].ptr = k]
  <2>1. _iofiles[i].remaining \in 0 .. MaxSize /\ _iofiles[i].ptr \in 0 .. Farthest
    <3>1. _iofiles[i].remaining \in 0 .. MaxSize /\ _iofiles[i].ptr \in 0 .. Farthest + MaxSize
      BY <1>1, FieldFacts
    <3>2. _iofiles[i].ptr <= Farthest
      BY DEF F!FRead
    <3>3. QED
      BY <1>1, <3>1, <3>2
  <2>2. F!Min({n, _iofiles[i].remaining}) \in 0 .. MaxSize
    BY <1>1, <2>1, MinFacts
  <2>3. _iofiles[i].ptr + F!Min({n, _iofiles[i].remaining}) \in 0 .. Farthest + MaxSize
    BY <1>1, <2>1, <2>2
  <2>4. QED
    BY <2>3 DEF F!FRead
<1>3. UNCHANGED <<live, stored, fonts>> /\ Present(i)
  <2>1. "READABLE" \in _iofiles[i].flags /\ UNCHANGED <<live, stored, fonts>>
    BY DEF F!FRead
  <2>2. "READABLE" \notin F!Closed.flags
    BY DEF F!Closed
  <2>3. QED
    BY <2>1, <2>2 DEF FilesInv, Table
<1>4. \A j \in F!Slots :
        /\ _iofiles'[j] \in FileType
        /\ _iofiles'[j].flags = _iofiles[j].flags /\ _iofiles'[j].base = _iofiles[j].base
        /\ _iofiles'[j].path = _iofiles[j].path /\ _iofiles'[j].size = _iofiles[j].size
        /\ _iofiles'[j].name = _iofiles[j].name
        /\ j # i => _iofiles'[j] = _iofiles[j]
  BY <1>1, <1>2 DEF FilesInv, Table, FileType
<1>5. \A j \in F!Slots : (Present(j)' <=> Present(j)) /\ BlocksOf(j)' = BlocksOf(j)
  BY <1>4 DEF Present, BlocksOf
<1>6. Table'
  <2>1. _iofiles' \in [F!Slots -> FileType]
    BY <1>2, <1>4 DEF FilesInv, Table
  <2>2. QED
    BY <1>3, <1>4, <1>5, <2>1 DEF FilesInv, Table
<1>7. Heap' /\ Stored'
  BY <1>3 DEF FilesInv, Heap, Stored
<1>8. Owned'
  BY <1>3, <1>4, <1>5 DEF FilesInv, Owned
<1>9. QED
  BY <1>6, <1>7, <1>8 DEF FilesInv

(* The old block goes and a new one comes.                                 *)
LEMMA WriteKeeps ==
  ASSUME FilesInv, NEW i \in F!Slots, NEW n \in 1 .. MaxSize, F!FWrite(i, n)
  PROVE  FilesInv'
<1> DEFINE f == _iofiles[i]
<1>1. f \in FileType /\ f.size \in 0 .. MaxSize /\ MaxSize \in Nat /\ Farthest \in Nat
  BY FieldFacts, PartsAssumption DEF FilesInv, Table, F!OpenFilesAssumption
<1>2. f.size + n \in 0 .. MaxSize
  BY <1>1 DEF F!FWrite
<1>3. PICK b \in F!Unused, former \in 0 .. f.size :
        /\ live' = F!Without(F!With(b, f.size + n), {f.base})
        /\ _iofiles' = [_iofiles EXCEPT ![i].base = b, ![i].ptr = former,
                                        ![i].remaining = f.size + n - former,
                                        ![i].size = f.size + n]
  <2>1. (IF f.ptr <= f.size THEN {f.size} ELSE 0 .. f.size) \subseteq 0 .. f.size
    BY <1>1
  <2>2. PICK b \in F!Unused, former \in IF f.ptr <= f.size THEN {f.size} ELSE 0 .. f.size :
          /\ live' = F!Without(F!With(b, f.size + n), {f.base})
          /\ _iofiles' = [_iofiles EXCEPT ![i].base = b, ![i].ptr = former,
                                          ![i].remaining = f.size + n - former,
                                          ![i].size = f.size + n]
    BY DEF F!FWrite
  <2>3. QED
    BY <2>1, <2>2
<1>4. UNCHANGED <<stored, fonts>> /\ Present(i)
  <2>1. "WRITABLE" \in f.flags /\ UNCHANGED <<stored, fonts>>
    BY DEF F!FWrite
  <2>2. "WRITABLE" \notin F!Closed.flags
    BY DEF F!Closed
  <2>3. QED
    BY <2>1, <2>2 DEF FilesInv, Table
<1>5. PICK g \in FileType :
        /\ _iofiles' = [_iofiles EXCEPT ![i] = g]
        /\ g.flags = f.flags /\ g.base = b /\ g.path = f.path
        /\ g.size = f.size + n /\ g.name = f.name
  <2> DEFINE g == [f EXCEPT !.base = b, !.ptr = former, !.remaining = f.size + n - former,
                            !.size = f.size + n]
  <2>1. _iofiles' = [_iofiles EXCEPT ![i] = g]
    BY <1>3
  <2>2. former \in 0 .. Farthest + MaxSize /\ f.size + n - former \in 0 .. MaxSize /\ b \in Blocks
    BY <1>1, <1>2 DEF F!Unused
  <2>3. g \in FileType
    BY <1>1, <1>2, <2>2 DEF FileType
  <2>4. /\ g.flags = f.flags /\ g.base = b /\ g.path = f.path
        /\ g.size = f.size + n /\ g.name = f.name
    BY <1>1 DEF FileType
  <2>5. QED
    BY <2>1, <2>3, <2>4
<1>6. \A j \in F!Slots : _iofiles'[j] = IF j = i THEN g ELSE _iofiles[j]
  BY <1>5 DEF FilesInv, Table
<1>7. /\ b \notin DOMAIN live /\ b \in Blocks
      /\ f.base \in DOMAIN live /\ f.path \in DOMAIN live /\ f.base # f.path
      /\ {f.base, f.path} \cap UNION fonts = {}
  BY <1>4 DEF FilesInv, Owned, BlocksOf, F!Unused
<1>8. /\ DOMAIN live' = (DOMAIN live \cup {b}) \ {f.base}
      /\ live'[b] = f.size + n
      /\ \A x \in DOMAIN live \ {f.base} : live'[x] = live[x]
  BY <1>3, <1>7 DEF F!With, F!Without
<1>9. \A j \in F!Slots : /\ Present(j)' <=> Present(j)
                         /\ BlocksOf(j)' = IF j = i THEN {b, f.path} ELSE BlocksOf(j)
  BY <1>5, <1>6 DEF Present, BlocksOf
<1>10. Table'
  <2>1. _iofiles' \in [F!Slots -> FileType]
    BY <1>5 DEF FilesInv, Table
  <2>2. QED
    BY <1>4, <1>5, <1>6, <1>9, <2>1 DEF FilesInv, Table
<1>11. Heap' /\ Stored'
  BY <1>4, <1>7, <1>8 DEF FilesInv, Heap, Stored
<1>12. ASSUME NEW j \in F!Slots, Present(j)
       PROVE  /\ BlocksOf(j) \subseteq DOMAIN live /\ _iofiles[j].base \in BlocksOf(j)
              /\ _iofiles[j].size <= live[_iofiles[j].base]
              /\ _iofiles[j].base # _iofiles[j].path
              /\ BlocksOf(j) \cap UNION fonts = {}
              /\ f.base \in BlocksOf(i) /\ f.path \in BlocksOf(i)
              /\ \A k \in F!Slots \ {j} : Present(k) => BlocksOf(j) \cap BlocksOf(k) = {}
  BY <1>12 DEF FilesInv, Owned, BlocksOf
<1>13. ASSUME NEW j \in F!Slots, Present(j)'
       PROVE  /\ BlocksOf(j)' \subseteq DOMAIN live'
              /\ _iofiles'[j].size <= live'[_iofiles'[j].base]
              /\ _iofiles'[j].base # _iofiles'[j].path
              /\ BlocksOf(j)' \cap UNION fonts' = {}
              /\ \A k \in F!Slots \ {j} : Present(k)' => BlocksOf(j)' \cap BlocksOf(k)' = {}
  <2>1. CASE j = i
    <3>1. BlocksOf(j)' \subseteq DOMAIN live' /\ BlocksOf(j)' = {b, f.path}
      BY <1>7, <1>8, <1>9, <2>1
    <3>2. _iofiles'[j].size <= live'[_iofiles'[j].base] /\ _iofiles'[j].base # _iofiles'[j].path
      BY <1>2, <1>5, <1>6, <1>7, <1>8, <2>1
    <3>3. BlocksOf(j)' \cap UNION fonts' = {}
      BY <1>4, <1>7, <3>1 DEF FilesInv, Heap
    <3>4. ASSUME NEW k \in F!Slots \ {j}, Present(k)'
          PROVE  BlocksOf(j)' \cap BlocksOf(k)' = {}
      <4>1. Present(k) /\ k # i /\ BlocksOf(k)' = BlocksOf(k) /\ BlocksOf(k) \subseteq DOMAIN live
        BY <1>9, <1>12, <2>1, <3>4
      <4>2. BlocksOf(k) \cap BlocksOf(i) = {} /\ f.path \in BlocksOf(i)
        BY <1>4, <1>12, <4>1
      <4>3. QED
        BY <1>7, <3>1, <4>1, <4>2
    <3>5. QED
      BY <3>1, <3>2, <3>3, <3>4
  <2>2. CASE j # i
    <3>1. Present(j) /\ _iofiles'[j] = _iofiles[j] /\ BlocksOf(j)' = BlocksOf(j)
      BY <1>6, <1>9, <1>13, <2>2
    <3>2. BlocksOf(j) \cap BlocksOf(i) = {} /\ f.base \in BlocksOf(i)
          /\ f.path \in BlocksOf(i) /\ BlocksOf(j) \subseteq DOMAIN live
      BY <1>4, <1>12, <2>2, <3>1
    <3>3. BlocksOf(j)' \subseteq DOMAIN live' /\ live'[_iofiles[j].base] = live[_iofiles[j].base]
      BY <1>8, <1>12, <3>1, <3>2
    <3>4. ASSUME NEW k \in F!Slots \ {j}, Present(k)'
          PROVE  BlocksOf(j)' \cap BlocksOf(k)' = {}
      <4>1. CASE k = i
        BY <1>7, <1>9, <3>1, <3>2, <4>1
      <4>2. CASE k # i
        BY <1>9, <1>12, <3>1, <3>4, <4>2
      <4>3. QED
        BY <4>1, <4>2
    <3>5. QED
      BY <1>4, <1>12, <3>1, <3>3, <3>4
  <2>3. QED
    BY <2>1, <2>2
<1>14. Owned'
  BY <1>13 DEF Owned
<1>15. QED
  BY <1>10, <1>11, <1>14 DEF FilesInv

LEMMA FontKeeps ==
  ASSUME FilesInv, NEW path \in DOMAIN Contents, NEW good \in BOOLEAN, F!FontLoad(path, good)
  PROVE  FilesInv'
<1>1. UNCHANGED <<_iofiles, stored>>
  BY DEF F!FontLoad
<1>2. ASSUME NEW b \in F!Unused, NEW n, live' = F!With(b, n), UNCHANGED fonts
      PROVE  FilesInv'
  <2>1. DOMAIN live' = DOMAIN live \cup {b} /\ \A x \in DOMAIN live : live'[x] = live[x]
    BY <1>2 DEF F!With, F!Unused
  <2>2. QED
    BY <1>1, <1>2, <2>1, BlocksTaken, {b} \in SUBSET F!Unused
<1>3. ASSUME NEW p \in F!Unused, NEW keep \in F!kSubset(FontBlocks, F!Unused \ {p}),
             live' = [x \in DOMAIN live \cup {p} \cup keep |->
                        IF x \in DOMAIN live THEN live[x] ELSE 1],
             fonts' = fonts \cup {keep}
      PROVE  FilesInv'
  <2>1. {p} \cup keep \in SUBSET F!Unused
    BY DEF F!kSubset
  <2>2. /\ DOMAIN live' = DOMAIN live \cup ({p} \cup keep)
        /\ \A x \in DOMAIN live : live'[x] = live[x]
    BY <1>3
  <2>3. UNION fonts' \subseteq (UNION fonts) \cup ({p} \cup keep)
    BY <1>3
  <2>4. QED
    BY <1>1, <2>1, <2>2, <2>3, BlocksTaken
<1>4. QED
  BY <1>2, <1>3 DEF F!FontLoad

LEMMA FilesInvariant == PartsSpec => []FilesInv
<1>1. PartsInit => FilesInv
  <2> SUFFICES ASSUME PartsInit PROVE FilesInv
    OBVIOUS
  <2>1. /\ _iofiles = [i \in F!Slots |-> F!Closed]
        /\ DOMAIN live = {} /\ DOMAIN stored = {} /\ fonts = {}
    BY DEF PartsInit, F!OpenFilesInit
  <2>2. 0 \in 0 .. MaxSize /\ 0 \in 0 .. Farthest + MaxSize
    BY PartsAssumption DEF F!OpenFilesAssumption
  <2>3. F!Closed \in FileType /\ "PRESENT" \notin F!Closed.flags
    BY <2>2 DEF F!Closed, FileType
  <2>4. \A i \in F!Slots : ~Present(i) /\ _iofiles[i] = F!Closed
    BY <2>1, <2>3 DEF Present
  <2>5. Table
    BY <2>1, <2>3, <2>4 DEF Table
  <2>6. QED
    BY <2>1, <2>4, <2>5 DEF FilesInv, Heap, Stored, Owned
<1>2. FilesInv /\ [PartsNext]_vars => FilesInv'
  <2> SUFFICES ASSUME FilesInv, [PartsNext]_vars PROVE FilesInv'
    OBVIOUS
  <2>1. CASE UNCHANGED openFilesVars
    <3>1. UNCHANGED <<_iofiles, live, stored, fonts>>
      BY <2>1 DEF openFilesVars
    <3>2. \A x \in DOMAIN live : live'[x] = live[x]
      BY <3>1
    <3>3. QED
      BY <3>1, <3>2, BlocksTaken, {} \in SUBSET F!Unused
  <2>2. ASSUME NEW path \in DOMAIN Contents, NEW flags \in Modes, F!FOpen(path, flags)
        PROVE  FilesInv'
    BY <2>2, OpenKeeps
  <2>3. ASSUME NEW i \in F!Slots, F!FClose(i)
        PROVE  FilesInv'
    BY <2>3, CloseKeeps
  <2>4. ASSUME NEW i \in F!Slots, NEW n \in 1 .. MaxSize, F!FRead(i, n) \/ F!FWrite(i, n)
        PROVE  FilesInv'
    BY <2>4, ReadKeeps, WriteKeeps
  <2>5. ASSUME NEW path \in DOMAIN Contents, NEW good \in BOOLEAN, F!FontLoad(path, good)
        PROVE  FilesInv'
    BY <2>5, FontKeeps
  <2>6. [F!OpenFilesNext]_openFilesVars
    BY DEF PartsNext, Turn, Others, vars
  <2>7. QED
    BY <2>1, <2>2, <2>3, <2>4, <2>5, <2>6 DEF F!OpenFilesNext
<1>3. QED
  BY <1>1, <1>2, PTL DEF PartsSpec

(* The blocks of an open file are live, its own, and hold its size, after  *)
(* every sequence of opens, closes, reads, writes and fonts loaded, by any *)
(* number of callers of a table of any size (file.c:21-117, fonts.c).  How *)
(* far behind its block a read may reach is not claimed.                   *)
THEOREM OpenFilesOwned == PartsSpec => []FilesOwnBlocks
<1>1. FilesInv => FilesOwnBlocks
  <2> SUFFICES ASSUME FilesInv, NEW i \in F!Slots, Present(i)
               PROVE  LET f == _iofiles[i] IN
                      /\ {f.base, f.path} \subseteq DOMAIN live
                      /\ f.size <= live[f.base]
                      /\ f.base # f.path
                      /\ {f.base, f.path} \cap UNION fonts = {}
                      /\ \A j \in F!Slots \ {i} :
                           {f.base, f.path} \cap {_iofiles[j].base, _iofiles[j].path}
                             \subseteq {NoBlock}
    BY DEF FilesOwnBlocks, F!FilesOwnBlocks, Present
  <2>1. ASSUME NEW j \in F!Slots \ {i}
        PROVE  BlocksOf(i) \cap BlocksOf(j) \subseteq {NoBlock}
    <3>1. CASE Present(j)
      BY <3>1 DEF FilesInv, Owned
    <3>2. CASE ~Present(j)
      <4>1. _iofiles[j] = F!Closed
        BY <3>2 DEF FilesInv, Table
      <4>2. F!Closed.base = NoBlock /\ F!Closed.path = NoBlock
        BY DEF F!Closed
      <4>3. BlocksOf(j) = {NoBlock}
        BY <4>1, <4>2 DEF BlocksOf
      <4>4. QED
        BY <4>3
    <3>3. QED
      BY <3>1, <3>2
  <2>2. QED
    BY <2>1 DEF FilesInv, Owned, BlocksOf
<1>2. QED
  BY <1>1, FilesInvariant, PTL

-----------------------------------------------------------------------------
(* The types of the loader's variables: the table of external symbols is   *)
(* never fuller than it is large, and every word is one.                   *)

MemoryTyped ==
  /\ capacity \in Nat /\ Len(externs) <= capacity
  /\ \A b \in heap : b.use \in {"image", "bss"}
  /\ \A a \in DOMAIN words : a \in 0 .. WORDS - 1 /\ words[a] \in 0 .. WORDS - 1

LEMMA RegisterTyped ==
  ASSUME ImagesInv, MemoryTyped, E!Register
  PROVE  MemoryTyped'
<1> DEFINE n == Len(externs)
           full == n >= IF externs = <<>> THEN CAPACITY ELSE capacity
<1>1. /\ externs' = Append(externs, Symbols[n + 1]) /\ n < Len(Symbols)
      /\ capacity' = IF externs = <<>> THEN CAPACITY ELSE IF full THEN 2 * capacity ELSE capacity
      /\ UNCHANGED <<heap, words>>
  BY DEF E!Register
<1>2. /\ externs \in Seq(STRING \X Int) /\ n \in Nat /\ (externs = <<>> => n = 0)
      /\ (externs # <<>> => n > 0) /\ CAPACITY \in Nat \ {0} /\ Symbols \in Seq(STRING \X Int)
  BY PartsAssumption DEF ImagesInv, Types, E!ElfAssumption
<1>3. Len(externs') = n + 1
  <2>1. n + 1 \in DOMAIN Symbols
    BY <1>1, <1>2
  <2>2. Symbols[n + 1] \in STRING \X Int
    BY <1>2, <2>1, ElementOf
  <2>3. QED
    BY <1>1, <1>2, <2>2
<1> HIDE DEF n
<1>4. capacity' \in Nat /\ n + 1 <= capacity'
  BY <1>1, <1>2 DEF MemoryTyped, n
<1>5. QED
  BY <1>1, <1>3, <1>4 DEF MemoryTyped

LEMMA LoadIsTyped ==
  ASSUME ImagesInv, MemoryTyped, NEW f \in Files, E!Load(f)
  PROVE  MemoryTyped'
<1>1. UNCHANGED <<externs, capacity>>
  BY DEF E!Load
<1>2. CASE ~E!elfCheckSupported(f)
  <2>1. UNCHANGED <<heap, words>>
    BY <1>2 DEF E!Load
  <2>2. QED
    BY <1>1, <2>1 DEF MemoryTyped
<1>3. CASE E!elfCheckSupported(f)
  <2>1. PICK base \in Addresses :
          /\ E!Fits(base, f.size) /\ heap' = heap \cup {E!Block(base, f.size, "image")}
          /\ words' = [a \in DOMAIN words \cup {base + o : o \in DOMAIN f.words} |->
                         IF a - base \in DOMAIN f.words THEN f.words[a - base] ELSE words[a]]
    BY <1>3 DEF E!Load
  <2>2. /\ f.size \in Nat \ {0} /\ DOMAIN f.words \subseteq 0 .. f.size - 1
        /\ \A o \in DOMAIN f.words : f.words[o] \in 0 .. WORDS - 1
    BY <1>3, Constants DEF E!elfCheckSupported, E!elfCheckFile, E!WellFormed
  <2>3. base \in Nat /\ base + f.size <= WORDS /\ WORDS \in Nat
    BY <2>1, Constants, AddressFacts DEF E!Fits
  <2>4. \A a \in DOMAIN words' : a \in 0 .. WORDS - 1 /\ words'[a] \in 0 .. WORDS - 1
    <3> TAKE a \in DOMAIN words'
    <3>1. CASE a - base \in DOMAIN f.words /\ a \in Int
      BY <2>1, <2>2, <2>3, <3>1
    <3>2. CASE a \in DOMAIN words
      BY <2>1, <2>2, <3>2 DEF MemoryTyped
    <3>3. ASSUME NEW o \in DOMAIN f.words, a = base + o
          PROVE  a - base \in DOMAIN f.words /\ a \in Int
      BY <2>2, <2>3, <3>3
    <3>4. QED
      BY <2>1, <3>1, <3>2, <3>3
  <2>5. \A b \in heap' : b.use \in {"image", "bss"}
    BY <2>1 DEF MemoryTyped, E!Block
  <2>6. QED
    BY <1>1, <2>4, <2>5 DEF MemoryTyped
<1>4. QED
  BY <1>2, <1>3

LEMMA RelocationTyped ==
  ASSUME ImagesInv, MemoryTyped, E!elfDoRelocation
  PROVE  MemoryTyped'
<1> DEFINE rel == E!Relocations[load.j]
           S == E!elfGetSymbolValue(rel.sym)
           P0 == E!Ref(rel)
<1>1. /\ load.pc = "two" /\ load.i <= Len(load.file.sections) /\ load.j <= Len(E!Relocations)
      /\ S # E!ELF_ERROR
      /\ words' = CASE rel.type = "32"   -> [words EXCEPT ![P0] = E!DO_386_32(S, words[P0])]
                    [] rel.type = "PC32" -> [words EXCEPT ![P0] = E!DO_386_PC32(S, words[P0], P0)]
                    [] OTHER             -> words
      /\ UNCHANGED <<externs, capacity, heap>>
  BY DEF E!elfDoRelocation
<1>2. rel.sym \in Nat
  <2>1. /\ load.file \in Files /\ load.file.magic /\ load.i \in Nat \ {0} /\ load.j \in Nat \ {0}
    BY <1>1, LastCopy
  <2>2. load.i \in DOMAIN load.file.sections
    BY <1>1, <2>1, FileFacts
  <2>3. load.j \in DOMAIN load.file.sections[load.i].rels
    <3>1. PICK rels : rels = load.file.sections[load.i].rels
      OBVIOUS
    <3>2. DOMAIN rels = 1 .. Len(rels) /\ Len(rels) \in Nat
      BY <2>1, <2>2, <3>1, FileFacts
    <3>3. load.j <= Len(rels)
      BY <1>1, <3>1 DEF E!Relocations
    <3>4. QED
      BY <2>1, <3>1, <3>2, <3>3
  <2>4. QED
    BY <2>1, <2>2, <2>3, FileFacts DEF E!Relocations
<1>3. S \in Int
  <2> DEFINE im == [file |-> load.file, at |-> load.at, off |-> load.off, answer |-> "loaded"]
  <2> HIDE DEF rel, im
  <2>1. IF rel.sym = 0 THEN S = 0
        ELSE IF im.file.symbols[rel.sym].shndx # E!SHN_UNDEF THEN S = E!SymbolAt(im, rel.sym)
        ELSE \E k \in DOMAIN Symbols : Symbols[k][2] = S
    BY <1>1, <1>2, ValueFacts DEF im
  <2>2. CASE rel.sym = 0
    BY <2>1, <2>2
  <2>3. CASE rel.sym # 0 /\ im.file.symbols[rel.sym].shndx = E!SHN_UNDEF
    <3>1. PICK k \in DOMAIN Symbols : Symbols[k][2] = S
      BY <2>1, <2>3
    <3>2. Symbols[k] \in STRING \X Int
      BY Constants, ElementOf
    <3>3. QED
      BY <3>1, <3>2
  <2>4. CASE rel.sym # 0 /\ im.file.symbols[rel.sym].shndx # E!SHN_UNDEF
    <3>1. S = E!elfGetSymbolValue(rel.sym) /\ S # E!ELF_ERROR /\ im.file = load.file
      BY <1>1 DEF im
    <3>2. PICK n : n = rel.sym /\ n \in Nat \ {0}
      BY <1>2, <2>4
    <3>3. n <= Len(load.file.symbols) /\ load.file.symbols[n].shndx # E!SHN_UNDEF
      BY <2>4, <3>1, <3>2 DEF E!elfGetSymbolValue
    <3>4. load.file.symbols \in Seq([name : STRING, value : Int,
                             shndx : {E!SHN_UNDEF, E!SHN_ABS} \cup DOMAIN load.file.sections])
      BY <1>1, Constants, LastCopy DEF E!WellFormed
    <3>5. load.file.symbols[n] \in [name : STRING, value : Int,
                      shndx : {E!SHN_UNDEF, E!SHN_ABS} \cup DOMAIN load.file.sections]
      <4>1. n \in DOMAIN load.file.symbols
        BY <3>2, <3>3, <3>4
      <4>2. QED
        BY <3>4, <4>1, ElementOf
    <3>6. CASE load.file.symbols[n].shndx = E!SHN_ABS
      <4>1. S = load.file.symbols[n].value
        BY <3>1, <3>2, <3>3, <3>6 DEF E!elfGetSymbolValue
      <4>2. QED
        BY <3>5, <4>1
    <3>7. CASE load.file.symbols[n].shndx # E!SHN_ABS
      <4>1. S = E!Mod(load.at + load.off[load.file.symbols[n].shndx] + load.file.symbols[n].value)
        BY <3>1, <3>2, <3>3, <3>7 DEF E!elfGetSymbolValue
      <4>2. load.file.symbols[n].shndx \in DOMAIN load.off /\ load.off \in Seq(Int) /\ load.at \in Nat
        BY <1>1, <3>3, <3>5, <3>7, LastCopy, AddressFacts
      <4>3. load.off[load.file.symbols[n].shndx] \in Int
        BY <4>2, ElementOf
      <4>4. load.file.symbols[n].value \in Int
        BY <3>5
      <4>5. load.at + load.off[load.file.symbols[n].shndx] + load.file.symbols[n].value \in Int
        BY <4>2, <4>3, <4>4
      <4>6. S \in 0 .. WORDS - 1
        BY <4>1, <4>5, ModFacts
      <4>7. QED
        BY <4>6, Constants
    <3>8. QED
      BY <3>6, <3>7
  <2>5. QED
    BY <2>2, <2>3, <2>4
<1> HIDE DEF S, P0, rel
<1>4. /\ DOMAIN words' = DOMAIN words
      /\ \A a \in DOMAIN words :
           \/ words'[a] = words[a]
           \/ a = P0 /\ words'[a] = E!DO_386_32(S, words[P0])
           \/ a = P0 /\ words'[a] = E!DO_386_PC32(S, words[P0], P0)
  BY <1>1
<1>5. ASSUME NEW a \in DOMAIN words PROVE words'[a] \in 0 .. WORDS - 1
  <2>1. a \in Int /\ words[a] \in 0 .. WORDS - 1 /\ words[a] \in Int
    BY Constants DEF MemoryTyped
  <2>2. S + words[a] \in Int /\ S + words[a] - a \in Int
    BY <1>3, <2>1
  <2>3. E!DO_386_32(S, words[a]) \in 0 .. WORDS - 1 /\ E!DO_386_PC32(S, words[a], a) \in 0 .. WORDS - 1
    BY <2>2, ModFacts DEF E!DO_386_32, E!DO_386_PC32
  <2>4. QED
    BY <1>4, <2>1, <2>3
<1>6. QED
  BY <1>1, <1>4, <1>5 DEF MemoryTyped

LEMMA MemoryInvariant == PartsSpec => [](ImagesInv /\ MemoryTyped)
<1>1. PartsInit => MemoryTyped
  <2> SUFFICES ASSUME PartsInit PROVE MemoryTyped
    OBVIOUS
  <2>1. externs = <<>> /\ capacity = 0 /\ heap = {} /\ words = <<>>
    BY DEF PartsInit, E!ElfInit
  <2>2. Len(externs) = 0 /\ DOMAIN words = {}
    BY <2>1
  <2>3. QED
    BY <2>1, <2>2 DEF MemoryTyped
<1>2. ImagesInv /\ MemoryTyped /\ [PartsNext]_vars => MemoryTyped'
  <2> SUFFICES ASSUME ImagesInv, MemoryTyped, [PartsNext]_vars PROVE MemoryTyped'
    OBVIOUS
  <2>1. CASE UNCHANGED <<externs, capacity, heap, words>>
    BY <2>1 DEF MemoryTyped
  <2>2. CASE UNCHANGED elfVars
    BY <2>1, <2>2 DEF elfVars
  <2>3. CASE E!StageOne
    <3>1. UNCHANGED <<externs, capacity, words>>
      BY <2>3 DEF E!StageOne
    <3>2. \A b \in heap' : b \in heap \/ b.use = "bss"
      <4>1. \/ heap' = heap
            \/ \E base, n : heap' = heap \cup {E!Block(base, n, "bss")}
        BY <2>3 DEF E!StageOne
      <4>2. QED
        BY <4>1 DEF E!Block
    <3>3. QED
      BY <3>1, <3>2 DEF MemoryTyped
  <2>4. CASE E!RelocationFails
    <3>1. /\ UNCHANGED <<externs, capacity>> /\ heap' \subseteq heap
          /\ DOMAIN words' \subseteq DOMAIN words
          /\ \A a \in DOMAIN words' : words'[a] = words[a]
      BY <2>4 DEF E!RelocationFails
    <3>2. QED
      BY <3>1 DEF MemoryTyped
  <2>5. CASE E!StageOneDone \/ E!StageTwo \/ E!StageTwoDone \/ E!Loaded
    BY <2>1, <2>5 DEF E!StageOneDone, E!StageTwo, E!StageTwoDone, E!Loaded
  <2>6. [E!ElfNext]_elfVars
    BY DEF PartsNext, Turn, Others, vars
  <2>7. QED
    BY <2>2, <2>3, <2>4, <2>5, <2>6, RegisterTyped, LoadIsTyped, RelocationTyped DEF E!ElfNext, elfVars
<1>3. QED
  BY <1>1, <1>2, ImagesInvariant, PTL DEF PartsSpec

-----------------------------------------------------------------------------
(* The types of the disk driver's variables: an answer is one of those the *)
(* error bits have.                                                        *)

DriveTyped ==
  /\ \A k \in DOMAIN Drives : Drives[k].DriveNum \in {0, 1}
  /\ busy \in [A!Channels -> BOOLEAN] /\ drq \in [A!Channels -> BOOLEAN]
  /\ quiet \in [A!Channels -> BOOLEAN] /\ line \in [A!Channels -> BOOLEAN]
  /\ err \in [A!Channels -> A!Failures \cup {{}}]
  /\ IF_ \in BOOLEAN /\ Invoked \in BOOLEAN /\ failed \in BOOLEAN
  /\ package \in {0, 1, 2, 8, 19, 20, 22, 23} /\ asked \in Nat

LEMMA ErrorsTyped ==
  ASSUME NEW e \in 1 .. 4, NEW bits \in A!Failures \cup {{}}
  PROVE  A!IDEPrintErr(e, bits) \in {0, 1, 2, 8, 19, 20, 22, 23}
<1> DEFINE set == {i \in DOMAIN A!ErrorBits : A!ErrorBits[i][1] \in bits}
<1>1. /\ DOMAIN A!ErrorBits = 1 .. 8
      /\ \A i \in 1 .. 8 : /\ A!ErrorBits[i][1] = "ABRT" <=> i = 3
                           /\ A!ErrorBits[i][1] = "IDNF" <=> i = 5
                           /\ A!ErrorBits[i][1] = "UNC" <=> i = 7
                           /\ A!ErrorBits[i][1] # "DF"
      /\ A!ErrorBits[3][2] = 20 /\ A!ErrorBits[7][2] = 22
  BY DEF A!ErrorBits
<1>2. set = {} \/ set = {3} \/ set = {5, 7}
  <2>1. CASE bits = {} \/ bits = {"DF"}
    BY <1>1, <2>1
  <2>2. CASE bits = {"ABRT"}
    BY <1>1, <2>2
  <2>3. CASE bits = {"IDNF", "UNC"}
    BY <1>1, <2>3
  <2>4. QED
    BY <2>1, <2>2, <2>3 DEF A!Failures
<1> DEFINE last == CHOOSE i \in set : \A j \in set : j <= i
<1>3. CASE e = 2 /\ set # {}
  <2>1. A!IDEPrintErr(e, bits) = A!ErrorBits[last][2]
    BY <1>3 DEF A!IDEPrintErr
  <2> HIDE DEF set
  <2>2. last = 3 \/ last = 7
    <3>1. CASE set = {3}
      BY <3>1
    <3>2. CASE set = {5, 7}
      BY <3>2
    <3>3. QED
      BY <1>2, <1>3, <3>1, <3>2
  <2> HIDE DEF last
  <2>3. QED
    BY <1>1, <2>1, <2>2
<1>4. CASE e # 2 \/ set = {}
  BY <1>4 DEF A!IDEPrintErr
<1>5. QED
  BY <1>3, <1>4

LEMMA DriveTypedKeeps ==
  ASSUME DiskInv, DriveTyped, A!AtaNext
  PROVE  DriveTyped'
<1> USE DEF A!Answer, A!AtaDrive, A!Outcome
<1>1. ASSUME NEW m \in Machines, A!IDEInitialise(m) PROVE DriveTyped'
  <2>1. /\ quiet' = A!IDEWriteControl(m, TRUE)
        /\ line' = [c \in A!Channels |-> ~quiet'[c] /\ \E u \in {v \in A!Units : m.drive[v] # A!NoDrive} : u[1] = c]
        /\ IF_' = FALSE /\ UNCHANGED <<Drives, busy, drq, err, Invoked, package, asked, failed>>
    BY <1>1 DEF A!IDEInitialise
  <2>2. quiet' \in [A!Channels -> BOOLEAN]
    BY <2>1 DEF DriveTyped, A!IDEWriteControl
  <2>3. line' \in [A!Channels -> BOOLEAN]
    BY <2>1
  <2>4. QED
    BY <2>1, <2>2, <2>3 DEF DriveTyped
<1>2. CASE A!SMInit
  <2>1. /\ DOMAIN Drives' = DOMAIN IDEDev
        /\ \A i \in DOMAIN IDEDev : Drives'[i].DriveNum = IDEDev[i].drive
        /\ UNCHANGED <<busy, drq, err, quiet, line, IF_, Invoked, package, asked, failed>>
    BY <1>2 DEF A!SMInit
  <2>2. \A i \in DOMAIN IDEDev : IDEDev[i].drive \in {0, 1}
    BY DriveFacts DEF DiskInv
  <2>3. QED
    BY <2>1, <2>2 DEF DriveTyped
<1>3. CASE A!Ask
  BY <1>3 DEF A!Ask, DriveTyped
<1>4. CASE A!Refused
  <2>1. A!IDEPrintErr(4, {}) \in {0, 1, 2, 8, 19, 20, 22, 23}
    BY ErrorsTyped
  <2>2. /\ package' \in {1, 2, A!IDEPrintErr(4, {})}
        /\ failed' = FALSE /\ UNCHANGED <<Drives, busy, drq, err, quiet, line, IF_, Invoked, asked>>
    BY <1>4 DEF A!Refused
  <2>3. QED
    BY <2>1, <2>2 DEF DriveTyped
<1>5. CASE A!Begin
  <2>1. /\ A!Index(req.k) \in DOMAIN IDEDev /\ Invoked' = FALSE /\ (IF_' = IF_ \/ IF_' = TRUE)
        /\ \E n \in BOOLEAN : quiet' = [quiet EXCEPT ![A!Ch] = A!IDEWriteControl(plugged, n)[A!Ch]]
        /\ UNCHANGED <<Drives, busy, drq, err, line, package, asked, failed>>
    BY <1>5 DEF A!Begin
  <2>2. A!Ch \in A!Channels
    BY <2>1, DriveFacts DEF A!Ch, A!Dev, DiskInv
  <2>3. \A n \in BOOLEAN : A!IDEWriteControl(plugged, n)[A!Ch] \in BOOLEAN
    BY <2>2 DEF A!IDEWriteControl, DriveTyped
  <2>4. quiet' \in [A!Channels -> BOOLEAN]
    BY <2>1, <2>2, <2>3 DEF DriveTyped
  <2>5. QED
    BY <2>1, <2>4 DEF DriveTyped
<1>6. CASE A!PollFails
  <2>1. /\ req.pc \in {"in", "packet", "data"} /\ A!IDEPolling(A!Ch) # 0
        /\ package' = A!IDEPrintErr(A!IDEPolling(A!Ch), err[A!Ch])
        /\ failed' = FALSE /\ UNCHANGED <<Drives, busy, drq, err, quiet, line, IF_, Invoked, asked>>
    BY <1>6 DEF A!PollFails
  <2>2. A!Index(req.k) \in DOMAIN IDEDev
    BY <2>1 DEF DiskInv, Request, Commanded
  <2>3. A!Ch \in A!Channels
    BY <2>2, DriveFacts DEF A!Ch, A!Dev, DiskInv
  <2>4. err[A!Ch] \in A!Failures \cup {{}}
    BY <2>3 DEF DriveTyped
  <2>5. A!IDEPolling(A!Ch) \in 1 .. 4
    BY <2>1 DEF A!IDEPolling
  <2>6. package' \in {0, 1, 2, 8, 19, 20, 22, 23}
    BY <2>1, <2>4, <2>5, ErrorsTyped
  <2>7. QED
    BY <2>1, <2>6 DEF DriveTyped
<1>7. CASE A!Command
  <2>1. /\ busy' = [busy EXCEPT ![A!Ch] = TRUE] /\ drq' = [drq EXCEPT ![A!Ch] = FALSE]
        /\ err' = [err EXCEPT ![A!Ch] = {}]
        /\ UNCHANGED <<Drives, quiet, line, IF_, Invoked, package, asked, failed>>
    BY <1>7 DEF A!Command
  <2>2. QED
    BY <2>1 DEF DriveTyped
<1>8. CASE A!ReadDisk \/ A!WriteDisk \/ A!SendPacket \/ A!ReadDisc
  <2>1. /\ busy' = busy \/ busy' = [busy EXCEPT ![A!Ch] = TRUE]
        /\ drq' = [drq EXCEPT ![A!Ch] = FALSE] /\ package' \in {package, 0}
        /\ failed' \in {failed, FALSE} /\ UNCHANGED <<Drives, err, quiet, line, IF_, Invoked, asked>>
    BY <1>8 DEF A!ReadDisk, A!WriteDisk, A!SendPacket, A!ReadDisc
  <2>2. QED
    BY <2>1 DEF DriveTyped
<1>9. CASE A!Flushed \/ A!DiscDone \/ A!IDEWaitIRQ
  <2>1. /\ package' \in {package, 0} /\ (Invoked' = Invoked \/ Invoked' = FALSE)
        /\ failed' \in {failed, FALSE} /\ UNCHANGED <<Drives, busy, drq, err, quiet, line, IF_, asked>>
    BY <1>9 DEF A!Flushed, A!DiscDone, A!IDEWaitIRQ
  <2>2. QED
    BY <2>1 DEF DriveTyped
<1>10. ASSUME NEW c \in A!Channels, A!DriveReady(c) PROVE DriveTyped'
  <2>1. /\ busy' = [busy EXCEPT ![c] = FALSE]
        /\ drq' = [drq EXCEPT ![c] = phase[c] \in {"read", "write", "packet", "packet_read"}]
        /\ line' = [line EXCEPT ![c] = line[c] \/ (phase[c] \notin {"write", "packet"} /\ ~quiet[c])]
        /\ UNCHANGED <<Drives, err, quiet, IF_, Invoked, package, asked, failed>>
    BY <1>10 DEF A!DriveReady, A!Raises
  <2>2. drq' \in [A!Channels -> BOOLEAN]
    BY <2>1 DEF DriveTyped
  <2>3. line' \in [A!Channels -> BOOLEAN]
    BY <2>1 DEF DriveTyped
  <2>4. QED
    BY <2>1, <2>2, <2>3 DEF DriveTyped
<1>11. ASSUME NEW c \in A!Channels, A!DriveFails(c) PROVE DriveTyped'
  <2>1. /\ busy' = [busy EXCEPT ![c] = FALSE]
        /\ \E what \in A!Failures : err' = [err EXCEPT ![c] = what]
        /\ line' = [line EXCEPT ![c] = line[c] \/ (TRUE /\ ~quiet[c])]
        /\ failed' = TRUE /\ UNCHANGED <<Drives, drq, quiet, IF_, Invoked, package, asked>>
    BY <1>11 DEF A!DriveFails, A!Raises
  <2>2. line' \in [A!Channels -> BOOLEAN]
    BY <2>1 DEF DriveTyped
  <2>3. err' \in [A!Channels -> A!Failures \cup {{}}]
    BY <2>1 DEF DriveTyped
  <2>4. QED
    BY <2>1, <2>2, <2>3 DEF DriveTyped
<1>12. ASSUME NEW c \in A!Channels, A!IDEIrq(c) PROVE DriveTyped'
  BY <1>12 DEF A!IDEIrq, DriveTyped
<1>13. QED
  BY <1>1, <1>2, <1>3, <1>4, <1>5, <1>6, <1>7, <1>8, <1>9, <1>10, <1>11, <1>12
     DEF A!AtaNext, A!Driver

LEMMA DriveInvariant == PartsSpec => [](DiskInv /\ DriveTyped)
<1>1. PartsInit => DriveTyped
  <2> SUFFICES ASSUME PartsInit PROVE DriveTyped
    OBVIOUS
  <2>1. /\ Drives = <<>> /\ busy = [c \in A!Channels |-> FALSE] /\ drq = [c \in A!Channels |-> FALSE]
        /\ err = [c \in A!Channels |-> {}] /\ quiet = [c \in A!Channels |-> FALSE]
        /\ line = [c \in A!Channels |-> FALSE]
        /\ IF_ = FALSE /\ Invoked = FALSE /\ failed = FALSE /\ package = 0 /\ asked = 0
    BY DEF PartsInit, A!AtaInit
  <2>2. DOMAIN Drives = {}
    BY <2>1
  <2>3. QED
    BY <2>1, <2>2 DEF DriveTyped
<1>2. DiskInv /\ DriveTyped /\ [PartsNext]_vars => DriveTyped'
  <2> SUFFICES ASSUME DiskInv, DriveTyped, [PartsNext]_vars PROVE DriveTyped'
    OBVIOUS
  <2>1. CASE UNCHANGED ataVars
    BY <2>1 DEF ataVars, DriveTyped
  <2>2. [A!AtaNext]_ataVars
    BY DEF PartsNext, Turn, Others, vars
  <2>3. QED
    BY <2>1, <2>2, DriveTypedKeeps
<1>3. QED
  BY <1>1, <1>2, DiskInvariant, PTL DEF PartsSpec

-----------------------------------------------------------------------------
(* What the drive has done so far in the request.                          *)

(* It works as the driver expects, and has put nothing on its disk yet.    *)
Working(p) ==
  /\ ~failed /\ put = {} /\ err[A!Ch] = {}
  /\ phase[A!Ch] = p /\ drq[A!Ch] = ~busy[A!Ch]

(* It has given up, and says so. *)
GivenUp ==
  /\ failed /\ put = {} /\ err[A!Ch] \in A!Failures
  /\ phase[A!Ch] = "idle" /\ ~busy[A!Ch] /\ ~drq[A!Ch]

(* Behind a write's data: what it has is on the disk, or it has failed.    *)
Flushing ==
  \/ phase[A!Ch] = "written" /\ busy[A!Ch] /\ ~failed /\ put = {}
  \/ phase[A!Ch] = "lost" /\ failed /\ put = {}
  \/ /\ phase[A!Ch] = "idle" /\ ~busy[A!Ch]
     /\ put = IF failed THEN {} ELSE {<<<<A!Addressed, req.lba>>, BufferA>>}

(* Only the drive of the request in progress is busy.                      *)
Driving ==
  /\ phase = [c \in A!Channels |-> phase[c]]
  /\ \A c \in A!Channels : busy[c] => req.pc \in Commanded /\ c = A!Ch
  /\ req.pc \notin Commanded => ~failed /\ put = {}
  /\ req.pc = "in" => Working("read") \/ GivenUp
  /\ req.pc = "out" => Working("write") \/ GivenUp
  /\ req.pc = "packet" => Working("packet")
  /\ req.pc \in {"wait", "data"} => Working("packet_read") \/ GivenUp
  /\ req.pc \in {"end", "last"} => ~failed /\ put = {} /\ phase[A!Ch] \in {"ending", "idle"}
  /\ req.pc = "flush" => Flushing

DiskWorks == DiskInv /\ DriveTyped /\ Driving

LEMMA ChannelFacts ==
  ASSUME DiskInv, req.pc \in {"program"} \cup Commanded
  PROVE  A!Ch \in A!Channels /\ A!Addressed \in A!Units
<1>1. A!Index(req.k) \in DOMAIN IDEDev
  BY DEF DiskInv, Request
<1>2. QED
  BY <1>1, DriveFacts DEF DiskInv, A!Ch, A!Dev, A!Addressed, A!Units

(* Nothing is put anywhere but in the sector asked for. *)
LEMMA PutFacts ==
  ASSUME DiskWorks
  PROVE  \A w \in put : w[1] \in A!Units \X Lbas
<1>1. put = {} \/ (req.pc = "flush" /\ Flushing)
  BY DEF DiskWorks, Driving, Working, GivenUp, Commanded
<1>2. CASE put # {}
  <2>1. req.pc = "flush" /\ put = {<<<<A!Addressed, req.lba>>, BufferA>>}
    BY <1>1, <1>2 DEF Flushing
  <2>2. A!Addressed \in A!Units /\ req.lba \in Lbas
    BY <2>1, ChannelFacts DEF DiskWorks, DiskInv, Request, Requested, Commanded
  <2>3. QED
    BY <2>1, <2>2
<1>3. QED
  BY <1>2

LEMMA DrivingEnds ==
  ASSUME DriveTyped, Driving, NEW code, A!Answer(code), phase' = phase,
         \A c \in A!Channels : ~busy'[c]
  PROVE  Driving'
<1>1. req'.pc = "idle" /\ ~failed' /\ put' = {}
  BY DEF A!Answer, A!NoReq
<1>2. QED
  BY <1>1 DEF Driving, Commanded

(* The driver at rest, and where it begins.                                *)
LEMMA DrivingAtRest ==
  ASSUME DiskWorks, req.pc \notin Commanded, req'.pc \notin Commanded,
         UNCHANGED <<phase, busy, failed, put>>
  PROVE  Driving'
BY DEF DiskWorks, Driving, Commanded

LEMMA CommandDrives ==
  ASSUME DiskWorks, A!Command
  PROVE  Driving'
<1>1. /\ req.pc = "program" /\ UNCHANGED <<IDEDev, Drives, failed, put>>
      /\ req' = [req EXCEPT !.pc = IF A!Dev.type = "IDE_ATAPI" THEN "packet"
                                   ELSE IF req.write THEN "out" ELSE "in"]
  BY DEF A!Command, A!Outcome
<1>2. A!Ch \in A!Channels
  BY <1>1, ChannelFacts DEF DiskWorks
<1>3. /\ A!Ch' = A!Ch
      /\ req'.pc = IF A!Dev.type = "IDE_ATAPI" THEN "packet" ELSE IF req.write THEN "out" ELSE "in"
  BY <1>1 DEF DiskWorks, DiskInv, Request, A!Ch, A!Dev, A!Index
<1>4. PICK d : d = A!Ch /\ d = A!Ch'
  BY <1>3
<1>5. /\ busy' = [busy EXCEPT ![d] = TRUE] /\ drq' = [drq EXCEPT ![d] = FALSE]
      /\ err' = [err EXCEPT ![d] = {}]
      /\ phase' = [phase EXCEPT ![d] = IF req'.pc = "packet" THEN "packet"
                                        ELSE IF req'.pc = "out" THEN "write" ELSE "read"]
  <2>1. phase' = [phase EXCEPT ![A!Ch] = IF A!Dev.type = "IDE_ATAPI" THEN "packet"
                                         ELSE IF req.write THEN "write" ELSE "read"]
    BY DEF A!Command
  <2>2. (IF A!Dev.type = "IDE_ATAPI" THEN "packet" ELSE IF req.write THEN "write" ELSE "read")
          = (IF req'.pc = "packet" THEN "packet" ELSE IF req'.pc = "out" THEN "write" ELSE "read")
    <3> HIDE DEF A!Dev
    <3>1. CASE A!Dev.type = "IDE_ATAPI"
      BY <1>3, <3>1
    <3>2. CASE A!Dev.type # "IDE_ATAPI" /\ req.write
      BY <1>3, <3>2
    <3>3. CASE A!Dev.type # "IDE_ATAPI" /\ ~req.write
      BY <1>3, <3>3
    <3>4. QED
      BY <3>1, <3>2, <3>3
  <2>3. phase' = [phase EXCEPT ![d] = IF req'.pc = "packet" THEN "packet"
                                      ELSE IF req'.pc = "out" THEN "write" ELSE "read"]
    BY <1>4, <2>1, <2>2
  <2>4. /\ busy' = [busy EXCEPT ![d] = TRUE] /\ drq' = [drq EXCEPT ![d] = FALSE]
        /\ err' = [err EXCEPT ![d] = {}]
    BY <1>4 DEF A!Command
  <2>5. QED
    BY <2>3, <2>4
<1>6. /\ busy'[d] /\ ~drq'[d] /\ err'[d] = {}
      /\ phase'[d] = IF req'.pc = "packet" THEN "packet" ELSE IF req'.pc = "out" THEN "write" ELSE "read"
      /\ drq'[d] = ~busy'[d]
      /\ phase' = [c \in A!Channels |-> phase'[c]]
      /\ \A c \in A!Channels \ {d} : busy'[c] = busy[c]
  BY <1>2, <1>4, <1>5 DEF DiskWorks, DriveTyped, Driving
<1>7. ~failed /\ put = {} /\ \A c \in A!Channels : ~busy[c]
  BY <1>1 DEF DiskWorks, Driving, Commanded
<1>8. PICK p : p = phase'[d] /\ Working(p)'
  BY <1>1, <1>4, <1>6, <1>7 DEF Working
<1>9. QED
  BY <1>1, <1>3, <1>4, <1>6, <1>7, <1>8 DEF Driving, Commanded, Working

(* Polling answers 0 exactly when the drive has something to transfer.     *)
LEMMA PollingFacts ==
  ASSUME NEW c \in A!Channels
  PROVE  /\ err[c] = {} /\ drq[c] => A!IDEPolling(c) = 0
         /\ err[c] \in A!Failures => A!IDEPolling(c) \in {1, 2}
<1>1. /\ DOMAIN A!ErrorBits = 1 .. 8
      /\ A!ErrorBits[3][1] = "ABRT" /\ A!ErrorBits[5][1] = "IDNF"
  BY DEF A!ErrorBits
<1>2. CASE err[c] = {}
  <2>1. err[c] \cap {A!ErrorBits[i][1] : i \in DOMAIN A!ErrorBits} = {} /\ "DF" \notin err[c]
    BY <1>2
  <2>2. err[c] \notin A!Failures
    BY <1>2 DEF A!Failures
  <2>3. QED
    BY <2>1, <2>2 DEF A!IDEPolling
<1>3. CASE err[c] = {"DF"}
  BY <1>3 DEF A!IDEPolling
<1>4. CASE err[c] = {"ABRT"} \/ err[c] = {"IDNF", "UNC"}
  BY <1>1, <1>4 DEF A!IDEPolling
<1>5. QED
  BY <1>2, <1>3, <1>4 DEF A!Failures

(* The driver's steps in the middle of a transfer.                         *)
LEMMA TransferDrives ==
  ASSUME DiskWorks, A!WriteDisk \/ A!SendPacket \/ A!IDEWaitIRQ \/ A!ReadDisc
  PROVE  Driving'
<1>1. req.pc \in Commanded /\ UNCHANGED <<IDEDev, Drives, regs, err, failed, put>>
  BY DEF A!WriteDisk, A!SendPacket, A!IDEWaitIRQ, A!ReadDisc, A!AtaDrive, A!Outcome, Commanded
<1>2. PICK d \in A!Channels : d = A!Ch
  BY <1>1, ChannelFacts DEF DiskWorks
<1>3. ASSUME NEW to, req' = [req EXCEPT !.pc = to]
      PROVE  req'.pc = to /\ d = A!Ch'
  BY <1>1, <1>2, <1>3, SameDrive DEF DiskWorks, DiskInv, Request
<1>4. \A c \in A!Channels : busy[c] => c = d
  BY <1>2 DEF DiskWorks, Driving
<1>5. ASSUME NEW to, NEW p, req' = [req EXCEPT !.pc = to], ~busy[d],
             busy' = [busy EXCEPT ![d] = TRUE], drq' = [drq EXCEPT ![d] = FALSE],
             phase' = [phase EXCEPT ![d] = p]
      PROVE  /\ req'.pc = to /\ d = A!Ch' /\ busy'[d] /\ ~drq'[d] /\ phase'[d] = p
             /\ drq'[d] = ~busy'[d] /\ err'[d] = err[d]
             /\ phase' = [c \in A!Channels |-> phase'[c]]
             /\ \A c \in A!Channels : busy'[c] => c = d
  BY <1>1, <1>3, <1>4, <1>5 DEF DiskWorks, DriveTyped, Driving
<1>6. CASE A!WriteDisk
  <2>1. /\ req.pc = "out" /\ ~busy[d] /\ req' = [req EXCEPT !.pc = "flush"]
        /\ busy' = [busy EXCEPT ![d] = TRUE] /\ drq' = [drq EXCEPT ![d] = FALSE]
        /\ phase' = [phase EXCEPT ![d] = IF drq[d] THEN "written" ELSE "lost"]
    BY <1>2, <1>6 DEF A!WriteDisk
  <2>2. put = {} /\ (drq[d] <=> ~failed)
    BY <1>2, <2>1 DEF DiskWorks, Driving, Working, GivenUp
  <2>3. /\ req'.pc = "flush" /\ d = A!Ch' /\ busy'[d]
        /\ phase'[d] = (IF drq[d] THEN "written" ELSE "lost")
        /\ phase' = [c \in A!Channels |-> phase'[c]]
        /\ \A c \in A!Channels : busy'[c] => c = d
    BY <1>5, <2>1
  <2>4. Flushing'
    BY <1>1, <2>2, <2>3 DEF Flushing
  <2>5. QED
    BY <2>3, <2>4 DEF Driving, Commanded
<1>7. CASE A!SendPacket
  <2>1. /\ req.pc = "packet" /\ ~busy[d] /\ req' = [req EXCEPT !.pc = "wait"]
        /\ busy' = [busy EXCEPT ![d] = TRUE] /\ drq' = [drq EXCEPT ![d] = FALSE]
        /\ phase' = [phase EXCEPT ![d] = "packet_read"]
    BY <1>2, <1>7 DEF A!SendPacket
  <2>2. ~failed /\ put = {} /\ err[d] = {}
    BY <1>2, <2>1 DEF DiskWorks, Driving, Working
  <2>3. /\ req'.pc = "wait" /\ d = A!Ch' /\ drq'[d] = ~busy'[d] /\ phase'[d] = "packet_read"
        /\ err'[d] = err[d]
        /\ phase' = [c \in A!Channels |-> phase'[c]]
        /\ \A c \in A!Channels : busy'[c] => c = d
    BY <1>5, <2>1
  <2>4. Working("packet_read")'
    BY <1>1, <2>2, <2>3 DEF Working
  <2>5. QED
    BY <2>3, <2>4 DEF Driving, Commanded
<1>8. CASE A!ReadDisc
  <2>1. /\ req.pc = "data" /\ ~busy[d] /\ A!IDEPolling(d) = 0 /\ req' = [req EXCEPT !.pc = "end"]
        /\ busy' = [busy EXCEPT ![d] = TRUE] /\ drq' = [drq EXCEPT ![d] = FALSE]
        /\ phase' = [phase EXCEPT ![d] = "ending"]
    BY <1>2, <1>8 DEF A!ReadDisc
  <2>2. ~failed /\ put = {}
    <3>1. Working("packet_read") \/ GivenUp
      BY <2>1 DEF DiskWorks, Driving
    <3>2. ~GivenUp
      BY <1>2, <2>1, PollingFacts DEF GivenUp
    <3>3. QED
      BY <3>1, <3>2 DEF Working
  <2>3. /\ req'.pc = "end" /\ d = A!Ch' /\ phase'[d] = "ending"
        /\ phase' = [c \in A!Channels |-> phase'[c]]
        /\ \A c \in A!Channels : busy'[c] => c = d
    BY <1>5, <2>1
  <2>4. QED
    BY <1>1, <2>2, <2>3 DEF Driving, Commanded
<1>9. CASE A!IDEWaitIRQ
  <2>1. /\ req.pc \in {"wait", "end"} /\ UNCHANGED <<busy, drq, phase>>
        /\ req' = [req EXCEPT !.pc = IF req.pc = "wait" THEN "data" ELSE "last"]
    BY <1>9 DEF A!IDEWaitIRQ, A!AtaDrive
  <2>2. req'.pc = (IF req.pc = "wait" THEN "data" ELSE "last") /\ d = A!Ch'
    BY <1>3, <2>1
  <2>3. QED
    BY <1>1, <1>2, <1>4, <2>1, <2>2 DEF DiskWorks, Driving, Commanded, Working, GivenUp
<1>10. QED
  BY <1>6, <1>7, <1>8, <1>9

(* A drive that is ready, or fails, is the request's.                      *)
LEMMA DriveDrives ==
  ASSUME DiskWorks, NEW c \in A!Channels, A!DriveReady(c) \/ A!DriveFails(c)
  PROVE  Driving'
<1>1. busy[c] /\ busy' = [busy EXCEPT ![c] = FALSE] /\ UNCHANGED <<IDEDev, Drives, regs, req, BufferA>>
  BY DEF A!DriveReady, A!DriveFails
<1>2. req.pc \in Commanded /\ c = A!Ch /\ c = A!Ch' /\ req' = req
  BY <1>1, SameDrive DEF DiskWorks, Driving
<1>3. A!Named(c) = <<A!Addressed, req.lba>> /\ A!Addressed' = A!Addressed
  BY <1>1, <1>2, SameDrive DEF DiskWorks, DiskInv, Request
<1>4. ~busy'[c] /\ \A d \in A!Channels : busy'[d] => FALSE
  BY <1>1, <1>2 DEF DiskWorks, DriveTyped, Driving
<1>5. CASE A!DriveReady(c)
  <2>1. /\ drq'[c] = (phase[c] \in {"read", "write", "packet", "packet_read"})
        /\ phase' = [phase EXCEPT ![c] = IF phase[c] \in {"written", "lost", "ending"} THEN "idle" ELSE phase[c]]
        /\ put' = put \cup (IF phase[c] = "written" THEN {<<A!Named(c), BufferA>>} ELSE {})
        /\ UNCHANGED <<err, failed>>
    BY <1>5 DEF A!DriveReady, DiskWorks, DriveTyped
  <2>2. /\ phase'[c] = (IF phase[c] \in {"written", "lost", "ending"} THEN "idle" ELSE phase[c])
        /\ phase' = [d \in A!Channels |-> phase'[d]]
    BY <2>1 DEF DiskWorks, Driving
  <2>3. ASSUME NEW p \in {"read", "write", "packet", "packet_read"}, Working(p) \/ GivenUp
        PROVE  Working(p)'
    <3>1. Working(p)
      BY <1>1, <1>2, <2>3 DEF GivenUp
    <3>2. phase[c] = p /\ ~failed /\ put = {} /\ err[c] = {}
      BY <1>2, <3>1 DEF Working
    <3>3. /\ phase'[c] = p /\ drq'[c] = TRUE /\ put' = {} /\ busy'[c] = FALSE
      BY <1>1, <2>1, <2>2, <3>2 DEF DiskWorks, DriveTyped
    <3>4. QED
      BY <1>2, <2>1, <3>2, <3>3 DEF Working
  <2>4. ASSUME req.pc = "flush" PROVE Flushing'
    <3>1. Flushing
      BY <2>4 DEF DiskWorks, Driving
    <3>2. CASE phase[c] = "written"
      <4>1. ~failed /\ put = {}
        BY <1>2, <3>1, <3>2 DEF Flushing
      <4>2. put' = {<<<<A!Addressed, req.lba>>, BufferA>>} /\ phase'[c] = "idle"
        BY <1>3, <2>1, <2>2, <3>2, <4>1
      <4>3. QED
        BY <1>1, <1>2, <1>3, <1>4, <2>1, <4>1, <4>2 DEF Flushing
    <3>3. CASE phase[c] = "lost"
      <4>1. failed /\ put = {} /\ put' = {} /\ phase'[c] = "idle"
        BY <1>2, <2>1, <2>2, <3>1, <3>3 DEF Flushing
      <4>2. QED
        BY <1>1, <1>2, <1>3, <1>4, <2>1, <4>1 DEF Flushing
    <3>4. QED
      BY <1>1, <1>2, <3>1, <3>2, <3>3 DEF Flushing
  <2>5. ASSUME req.pc \in {"end", "last"}
        PROVE  ~failed' /\ put' = {} /\ phase'[c] \in {"ending", "idle"}
    BY <1>2, <2>1, <2>2, <2>5 DEF DiskWorks, Driving
  <2>6. /\ req.pc = "in" => Working("read")'
        /\ req.pc = "out" => Working("write")'
        /\ req.pc = "packet" => Working("packet")'
        /\ req.pc \in {"wait", "data"} => Working("packet_read")'
    BY <2>3 DEF DiskWorks, Driving
  <2>7. QED
    BY <1>2, <1>4, <2>2, <2>4, <2>5, <2>6 DEF Driving
<1>6. CASE A!DriveFails(c)
  <2>1. /\ phase[c] \in {"read", "write", "written", "packet_read"}
        /\ phase' = [phase EXCEPT ![c] = "idle"] /\ failed' /\ UNCHANGED <<drq, put>>
        /\ \E what \in A!Failures : err' = [err EXCEPT ![c] = what]
    BY <1>6 DEF A!DriveFails
  <2>2. /\ phase'[c] = "idle" /\ phase' = [d \in A!Channels |-> phase'[d]]
        /\ err'[c] \in A!Failures
    BY <2>1 DEF DiskWorks, DriveTyped, Driving
  <2>3. ASSUME NEW p, Working(p) \/ GivenUp PROVE GivenUp'
    <3>1. Working(p)
      BY <1>1, <1>2, <2>3 DEF GivenUp
    <3>2. put = {} /\ ~drq[c]
      BY <1>1, <1>2, <3>1 DEF Working
    <3>3. QED
      BY <1>2, <1>4, <2>1, <2>2, <3>2 DEF GivenUp
  <2>4. ASSUME req.pc = "flush" PROVE Flushing'
    <3>1. Flushing /\ phase[c] = "written"
      BY <1>2, <2>1, <2>4 DEF DiskWorks, Driving, Flushing
    <3>2. put' = {}
      BY <1>2, <2>1, <3>1 DEF Flushing
    <3>3. QED
      BY <1>2, <1>4, <2>1, <2>2, <3>2 DEF Flushing
  <2>5. req.pc \notin {"end", "last"} /\ req.pc # "packet"
    BY <1>2, <2>1 DEF DiskWorks, Driving, Working
  <2>6. req.pc \in {"in", "out", "wait", "data"} => GivenUp'
    BY <2>3 DEF DiskWorks, Driving
  <2>7. QED
    BY <1>2, <1>4, <2>2, <2>4, <2>5, <2>6 DEF Driving, Commanded
<1>7. QED
  BY <1>5, <1>6

LEMMA DrivingKeeps ==
  ASSUME DiskWorks, A!AtaNext
  PROVE  Driving'
<1>1. ASSUME NEW c \in A!Channels, A!IDEIrq(c) PROVE Driving'
  <2>1. UNCHANGED <<IDEDev, Drives, regs, busy, drq, err, phase, req, BufferA, failed, put>>
    BY <1>1 DEF A!IDEIrq, A!AtaDrive, A!Outcome
  <2>2. A!Ch' = A!Ch /\ A!Addressed' = A!Addressed
    BY <2>1, SameDrive
  <2>3. QED
    BY <2>1, <2>2 DEF DiskWorks, Driving, Working, GivenUp, Flushing
<1>2. CASE A!Refused \/ A!PollFails \/ A!Flushed \/ A!DiscDone \/ A!ReadDisk
  <2>1. /\ UNCHANGED busy /\ \E code : A!Answer(code)
        /\ req.pc = "check" \/ ~busy[A!Ch]
    BY <1>2 DEF A!Refused, A!PollFails, A!Flushed, A!DiscDone, A!ReadDisk, A!AtaDrive
  <2>2. \A c \in A!Channels : ~busy'[c]
    BY <2>1 DEF DiskWorks, Driving, Commanded
  <2>3. ASSUME phase' = phase PROVE Driving'
    BY <2>1, <2>2, <2>3, DrivingEnds DEF DiskWorks
  <2>4. CASE A!ReadDisk
    <3>1. phase' = [phase EXCEPT ![A!Ch] = "idle"]
      BY <2>4 DEF A!ReadDisk
    <3>2. phase' = [c \in A!Channels |-> phase'[c]]
      BY <3>1 DEF DiskWorks, Driving
    <3>3. req'.pc = "idle" /\ ~failed' /\ put' = {}
      BY <2>1 DEF A!Answer, A!NoReq
    <3>4. QED
      BY <2>2, <3>2, <3>3 DEF Driving, Commanded
  <2>5. QED
    BY <1>2, <2>3, <2>4 DEF A!Refused, A!PollFails, A!Flushed, A!DiscDone, A!AtaDrive
<1>3. CASE A!Ask \/ A!SMInit \/ A!Begin \/ \E m \in Machines : A!IDEInitialise(m)
  <2>1. UNCHANGED <<phase, busy, failed, put>>
    BY <1>3 DEF A!Ask, A!SMInit, A!Begin, A!IDEInitialise, A!AtaDrive, A!Outcome
  <2>2. req.pc \notin Commanded
    BY <1>3 DEF A!Ask, A!SMInit, A!Begin, A!IDEInitialise, Commanded
  <2>3. req'.pc \in {"check", "idle", "program", "found"}
    <3>1. CASE A!Ask
      BY <3>1 DEF A!Ask, A!SMReadFrom, A!SMWriteTo
    <3>2. CASE ~A!Ask
      <4>1. \E to \in {"idle", "program", "found"} : req' = [req EXCEPT !.pc = to]
        BY <1>3, <3>2 DEF A!SMInit, A!Begin, A!IDEInitialise
      <4>2. QED
        BY <4>1 DEF DiskWorks, DiskInv, Request
    <3>3. QED
      BY <3>1, <3>2
  <2>4. QED
    BY <2>1, <2>2, <2>3, DrivingAtRest DEF Commanded
<1>4. QED
  BY <1>1, <1>2, <1>3, CommandDrives, TransferDrives, DriveDrives DEF A!AtaNext, A!Driver

LEMMA DiskWorksAlways == PartsSpec => []DiskWorks
<1>1. PartsInit => Driving
  BY DEF PartsInit, A!AtaInit, A!NoReq, Driving, Commanded
<1>2. DiskWorks /\ [PartsNext]_vars => Driving'
  <2> SUFFICES ASSUME DiskWorks, [PartsNext]_vars PROVE Driving'
    OBVIOUS
  <2>1. CASE UNCHANGED ataVars
    <3>1. UNCHANGED <<IDEDev, Drives, regs, busy, drq, err, phase, req, BufferA, failed, put>>
      BY <2>1 DEF ataVars
    <3>2. A!Ch' = A!Ch /\ A!Addressed' = A!Addressed
      BY <3>1, SameDrive
    <3>3. QED
      BY <3>1, <3>2 DEF DiskWorks, Driving, Working, GivenUp, Flushing
  <2>2. [A!AtaNext]_ataVars
    BY DEF PartsNext, Turn, Others, vars
  <2>3. QED
    BY <2>1, <2>2, DrivingKeeps
<1>3. QED
  BY <1>1, <1>2, DriveInvariant, PTL DEF PartsSpec, DiskWorks

(* A request that ends has moved the sector asked for and no other, for    *)
(* every machine and every sector number that 32 bits hold, in each of the *)
(* three ways the number is cut into registers, or the drive has failed:   *)
(* then a read ends with an error and zeroes, and a write, whose errors    *)
(* nobody looks at, with an answer of 0 and nothing put (ide.c:258-436).   *)
THEOREM TransfersMoveSectors == PartsSpec => TransferIsSector
<1> DEFINE Moved ==
      /\ (req.pc \notin {"idle", "off", "found"} /\ req'.pc = "idle" /\ ~req.write) =>
           /\ BufferA' = IF package' = 0 THEN <<A!Addressed, req.lba>> ELSE A!Nothing_
           /\ req.pc # "check" => (package' = 0 <=> ~failed)
           /\ put = {}
      /\ (req.pc \in {"out", "flush"} /\ req'.pc = "idle") =>
           put = IF failed THEN {} ELSE {<<<<A!Addressed, req.lba>>, BufferA>>}
<1>1. DiskWorks /\ [PartsNext]_vars => [Moved]_(A!ataVars)
  <2> SUFFICES ASSUME DiskWorks, [PartsNext]_vars, A!ataVars' # A!ataVars,
                      req.pc \notin {"idle", "off", "found"}, req'.pc = "idle"
               PROVE  Moved
    OBVIOUS
  <2>1. A!AtaNext
    BY DEF PartsNext, Turn, Others, vars, ataVars, A!ataVars
  <2>2. /\ ~req.write =>
             /\ req.pc \in {"end", "last"} => BufferA = <<A!Addressed, req.lba>>
             /\ req.pc \in Requested \ {"end", "last"} => BufferA = A!Nothing_
             /\ put = {}
        /\ req.pc \in Commanded => A!Named(A!Ch) = <<A!Addressed, req.lba>>
    <3>1. ~req.write => req.pc # "flush" /\ req.pc \in Requested
      BY DEF DiskWorks, DiskInv, Request
    <3>2. req.pc # "flush" /\ req.pc \in Requested => put = {}
      BY DEF DiskWorks, Driving, Working, GivenUp, Requested, Commanded
    <3>3. QED
      BY <3>1, <3>2 DEF DiskWorks, DiskInv, Request, Buffer, Requested, Commanded
  <2>3. CASE A!Refused
    <3>1. PICK code : A!Answer(code) /\ code \in {1, 2, A!IDEPrintErr(4, {})}
      BY <2>3 DEF A!Refused
    <3>2. package' # 0
      BY <3>1, AnswerEnds, ErrorsNotZero
    <3>3. req.pc = "check" /\ BufferA' = BufferA
      BY <2>3 DEF A!Refused
    <3>4. QED
      BY <2>2, <3>2, <3>3 DEF Requested
  <2>4. CASE A!PollFails
    <3>1. package' = A!IDEPrintErr(A!IDEPolling(A!Ch), err[A!Ch])
      BY <2>4, AnswerEnds DEF A!PollFails
    <3>2. A!IDEPolling(A!Ch) \in 1 .. 4
      BY <2>4 DEF A!PollFails, A!IDEPolling
    <3>3. package' # 0
      BY <3>1, <3>2, ErrorsNotZero
    <3>4. req.pc \in {"in", "packet", "data"} /\ BufferA' = BufferA /\ ~busy[A!Ch]
          /\ A!IDEPolling(A!Ch) # 0
      BY <2>4 DEF A!PollFails
    <3>5. A!Ch \in A!Channels
      BY <3>4, ChannelFacts DEF DiskWorks, Commanded
    <3>6. \A p : ~Working(p)
      BY <3>4, <3>5, PollingFacts DEF Working, DiskWorks, DriveTyped
    <3>7. failed
      BY <3>4, <3>6 DEF DiskWorks, Driving, GivenUp
    <3>8. QED
      BY <2>2, <3>3, <3>4, <3>7 DEF Requested, Commanded
  <2>5. CASE A!ReadDisk
    <3>1. req.pc = "in" /\ BufferA' = A!Named(A!Ch) /\ package' = 0 /\ A!IDEPolling(A!Ch) = 0
      BY <2>5, AnswerEnds DEF A!ReadDisk
    <3>2. A!Ch \in A!Channels
      BY <3>1, ChannelFacts DEF DiskWorks, Commanded
    <3>3. ~failed
      BY <3>1, <3>2, PollingFacts DEF DiskWorks, Driving, Working, GivenUp
    <3>4. QED
      BY <2>2, <3>1, <3>3 DEF Commanded
  <2>6. CASE A!DiscDone
    <3>1. req.pc = "last" /\ BufferA' = BufferA /\ package' = 0
      BY <2>6, AnswerEnds DEF A!DiscDone
    <3>2. ~failed
      BY <3>1 DEF DiskWorks, Driving
    <3>3. QED
      BY <2>2, <3>1, <3>2
  <2>7. CASE A!Flushed
    <3>1. req.pc = "flush" /\ ~busy[A!Ch]
      BY <2>7 DEF A!Flushed
    <3>2. req.write
      BY <3>1 DEF DiskWorks, DiskInv, Request
    <3>3. put = IF failed THEN {} ELSE {<<<<A!Addressed, req.lba>>, BufferA>>}
      BY <3>1 DEF DiskWorks, Driving, Flushing
    <3>4. QED
      BY <3>2, <3>3
  <2>8. QED
    <3>1. ~(A!Begin \/ A!Command \/ A!WriteDisk \/ A!SendPacket \/ A!IDEWaitIRQ \/ A!ReadDisc \/ A!Ask)
      BY DEF DiskWorks, DiskInv, Request, A!Begin, A!Command, A!WriteDisk, A!SendPacket,
             A!IDEWaitIRQ, A!ReadDisc, A!Ask
    <3>2. ~((\E m \in Machines : A!IDEInitialise(m)) \/ A!SMInit)
      BY DEF A!IDEInitialise, A!SMInit
    <3>3. ~\E c \in A!Channels : A!DriveReady(c) \/ A!DriveFails(c) \/ A!IDEIrq(c)
      BY DEF A!DriveReady, A!DriveFails, A!IDEIrq
    <3>4. QED
      BY <2>1, <2>3, <2>4, <2>5, <2>6, <2>7, <3>1, <3>2, <3>3 DEF A!AtaNext, A!Driver
<1>2. QED
  BY <1>1, DiskWorksAlways, PTL DEF PartsSpec, TransferIsSector, A!TransferIsSector

-----------------------------------------------------------------------------
(* The types of the terminal's variables: the buffers of gets never fill,  *)
(* and who is logged in is in the table.                                   *)

TerminalTyped ==
  /\ Len(users) <= MAX_USERS
  /\ Len(entered) < T!Room /\ Len(name) < USER_NAME_LENGTH
  /\ attempts \in 0 .. MAX_LOGIN_ATTEMPTS
  /\ stage # "over" => attempts # MAX_LOGIN_ATTEMPTS
  /\ user \in -1 .. Len(users) - 1

LEMMA EditedLength ==
  ASSUME LineInv, stage # "over", NEW ch \in TypedChars
  PROVE  Len(T!Edited(ch)) \in Nat /\ Len(T!Edited(ch)) < T!Room
<1>1. PICK q, r : q = entered /\ r = T!Room
  OBVIOUS
<1>2. /\ q \in Seq(TypedChars \ T!Controls) /\ Len(q) \in Nat /\ Len(q) + 2 <= r /\ r \in Nat
  BY <1>1, Lengths DEF LineInv, T!Room
<1>3. CASE ch = T!BS /\ q # <<>>
  <2>1. T!Edited(ch) = SubSeq(q, 1, Len(q) - 1)
    BY <1>1, <1>3, ControlFacts DEF T!Edited, T!Front
  <2>2. Len(q) - 1 \in 0 .. Len(q)
    BY <1>2, <1>3
  <2>3. QED
    BY <1>1, <1>2, <2>1, <2>2, SubSeqPlaces
<1>4. CASE ch \notin T!Controls
  <2>1. T!Edited(ch) = Append(q, ch)
    BY <1>1, <1>4, ControlFacts DEF T!Edited
  <2>2. QED
    BY <1>1, <1>2, <1>4, <2>1
<1>5. CASE ch \in T!Controls /\ ~(ch = T!BS /\ q # <<>>)
  <2>1. T!Edited(ch) = q
    BY <1>1, <1>5 DEF T!Edited
  <2>2. QED
    BY <1>1, <1>2, <2>1
<1>6. QED
  BY <1>3, <1>4, <1>5

LEMMA TableFits ==
  ASSUME users = T!UsersLoad
  PROVE  Len(users) <= MAX_USERS
<1>1. Len(users) \in Nat
  BY LoadTyped DEF UsersTyped
<1>2. PICK n : n = T!Least(Len(T!IniRead(UsersIni)), MAX_USERS)
  OBVIOUS
<1>3. users = [i \in 1 .. n |-> T!User(T!IniRead(UsersIni)[i])]
  BY <1>2 DEF T!UsersLoad
<1>4. MAX_USERS \in Nat /\ n \in Nat /\ n <= MAX_USERS
  <2>1. MAX_USERS \in Nat /\ MAX_CONFIG_VARS \in Nat /\ UsersIni \in Seq(Seq(STRING))
    BY PartsAssumption DEF T!TerminalAssumption
  <2>2. PICK m : m = T!Least(Len(T!Defining(UsersIni)), MAX_CONFIG_VARS)
    OBVIOUS
  <2>3. T!Defining(UsersIni) \in Seq(Definitions)
    BY <2>1, DefiningTyped
  <2>4. m \in Nat
    BY <2>1, <2>2, <2>3 DEF T!Least
  <2>5. Len(T!IniRead(UsersIni)) = m
    BY <2>2, <2>4 DEF T!IniRead
  <2>6. QED
    BY <1>2, <2>1, <2>4, <2>5 DEF T!Least
<1>5. Len(users) = n
  BY <1>3, <1>4
<1>6. QED
  BY <1>4, <1>5

LEMMA TerminalKeeps ==
  ASSUME LineInv, LoginInv, TerminalTyped, T!TerminalNext
  PROVE  TerminalTyped'
<1>1. PICK ch \in TypedChars : T!TypeMore(ch) \/ T!NameTyped(ch) \/ T!PasswordTyped(ch)
  BY DEF T!TerminalNext
<1>2. /\ MAX_LOGIN_ATTEMPTS \in Nat \ {0} /\ MAX_USERS \in Nat /\ Len(users) \in Nat
      /\ USER_NAME_LENGTH \in Nat \ {0, 1} /\ PASS_LENGTH \in Nat \ {0, 1}
  BY PartsAssumption DEF T!TerminalAssumption, LoginInv, UsersTyped
<1>3. CASE T!TypeMore(ch)
  <2>1. /\ stage # "over" /\ entered' = T!Edited(ch)
        /\ UNCHANGED <<users, stage, name, attempts, user>>
    BY <1>3 DEF T!TypeMore
  <2>2. Len(entered') < T!Room
    BY <2>1, EditedLength
  <2>3. QED
    BY <2>1, <2>2 DEF TerminalTyped, T!Room
<1>4. CASE T!NameTyped(ch)
  <2>1. /\ stage = "name" /\ name' = T!Edited(ch) /\ entered' = <<>> /\ stage' = "pass"
        /\ UNCHANGED <<users, attempts, user>>
    BY <1>4 DEF T!NameTyped
  <2>2. Len(name') < USER_NAME_LENGTH
    BY <2>1, EditedLength DEF T!Room
  <2>3. Len(entered') = 0 /\ T!Room' = PASS_LENGTH
    BY <2>1 DEF T!Room
  <2>4. QED
    BY <1>2, <2>1, <2>2, <2>3 DEF TerminalTyped
<1>5. CASE T!PasswordTyped(ch)
  <2> DEFINE id == T!UserFind(name)
             ok == id # -1 /\ T!UserMatch(id, T!Edited(ch))
  <2>1. /\ stage = "pass" /\ entered' = <<>> /\ name' = <<>>
        /\ user' = IF ok THEN id ELSE -1
        /\ attempts' = IF ok THEN attempts ELSE attempts + 1
        /\ stage' = IF ok \/ attempts' = MAX_LOGIN_ATTEMPTS THEN "over" ELSE "name"
        /\ users' = users
    BY <1>5 DEF T!PasswordTyped
  <2>2. ok => id \in 0 .. Len(users) - 1
    BY DEF T!UserMatch
  <2> HIDE DEF id, ok
  <2>3. user' \in -1 .. Len(users) - 1
    BY <1>2, <2>1, <2>2
  <2>4. attempts' \in 0 .. MAX_LOGIN_ATTEMPTS /\ (stage' # "over" => attempts' # MAX_LOGIN_ATTEMPTS)
    BY <1>2, <2>1 DEF TerminalTyped
  <2>5. Len(entered') = 0 /\ Len(name') = 0 /\ T!Room' \in {USER_NAME_LENGTH, PASS_LENGTH}
    BY <2>1 DEF T!Room
  <2>6. QED
    BY <1>2, <2>1, <2>3, <2>4, <2>5 DEF TerminalTyped
<1>6. QED
  BY <1>1, <1>3, <1>4, <1>5

LEMMA TerminalInvariant == PartsSpec => [](LineInv /\ LoginInv /\ TerminalTyped)
<1>1. PartsInit => TerminalTyped
  <2> SUFFICES ASSUME PartsInit PROVE TerminalTyped
    OBVIOUS
  <2>1. /\ users = T!UsersLoad /\ stage = "name" /\ entered = <<>> /\ name = <<>>
        /\ attempts = 0 /\ user = -1
    BY DEF PartsInit, T!TerminalInit
  <2>2. Len(users) \in Nat /\ Len(users) <= MAX_USERS
    BY <2>1, LoadTyped, TableFits DEF UsersTyped
  <2>3. Len(entered) = 0 /\ Len(name) = 0 /\ T!Room = USER_NAME_LENGTH
    BY <2>1 DEF T!Room
  <2>4. MAX_LOGIN_ATTEMPTS \in Nat \ {0}
    BY PartsAssumption DEF T!TerminalAssumption
  <2>5. QED
    BY <2>1, <2>2, <2>3, <2>4, Lengths DEF TerminalTyped
<1>2. LineInv /\ LoginInv /\ TerminalTyped /\ [PartsNext]_vars => TerminalTyped'
  <2> SUFFICES ASSUME LineInv, LoginInv, TerminalTyped, [PartsNext]_vars PROVE TerminalTyped'
    OBVIOUS
  <2>1. CASE UNCHANGED terminalVars
    BY <2>1 DEF terminalVars, TerminalTyped, T!Room
  <2>2. CASE T!TerminalNext
    BY <2>2, TerminalKeeps
  <2>3. QED
    BY <2>1, <2>2 DEF PartsNext, Turn, Others, vars
<1>3. QED
  BY <1>1, <1>2, LineInvariant, LoginInvariant, PTL DEF PartsSpec

-----------------------------------------------------------------------------
(* The types of the drivers of the keyboard and the mouse: the start-up is *)
(* over or at one of its steps, and the cursor stays on the screen.        *)

BootTyped ==
  /\ boot = <<>> \/ \E p \in 1 .. 4 : \E n \in 1 .. Len(P!Startup[p]) : boot = <<p, n>>
  /\ next \in {"kbd", "aux", "config"}
  /\ muted \in BOOLEAN /\ reporting \in BOOLEAN /\ disturbed \in BOOLEAN

Getchar ==
  [pc : {"unused", "idle", "loop", "decode", "assign"}, byte : Byte, key : 0 .. 255]

KeysTyped ==
  /\ shifted \in BOOLEAN /\ ctrl \in BOOLEAN /\ keyboardPressed \in BOOLEAN
  /\ character[2] \in 0 .. 255
  /\ getchar \in Getchar

CursorTyped ==
  /\ Len(packet) < 3
  /\ cursor.x \in 0 .. Width - 1 /\ cursor.y \in 0 .. Height - 1

LEMMA StartupLengths ==
  /\ Len(P!Startup) = 4
  /\ Len(P!Startup[1]) = 6 /\ Len(P!Startup[2]) = 14
  /\ Len(P!Startup[3]) = 13 /\ Len(P!Startup[4]) = 9
<1>1. /\ P!Startup[1] = P!ps2_keyboard_present /\ P!Startup[2] = P!ps2_mouse_present
      /\ P!Startup[3] = P!ps2_initialize_mouse /\ P!Startup[4] = P!ps2_initialize_keyboard
      /\ Len(P!Startup) = 4
  BY DEF P!Startup
<1>2. Len(P!ps2_keyboard_present) = 6
  BY DEF P!ps2_keyboard_present
<1>3. Len(P!ps2_mouse_present) = 14
  BY DEF P!ps2_mouse_present
<1>4. Len(P!ps2_initialize_mouse) = 13
  BY DEF P!ps2_initialize_mouse, P!Send
<1>5. Len(P!ps2_initialize_keyboard) = 9
  BY DEF P!ps2_initialize_keyboard
<1>6. QED
  BY <1>1, <1>2, <1>3, <1>4, <1>5

LEMMA OnwardTyped ==
  ASSUME BootTyped, ~P!Booted, boot' \in {boot, P!Onward, P!Failed}
  PROVE  boot' = <<>> \/ \E p \in 1 .. 4 : \E n \in 1 .. Len(P!Startup[p]) : boot' = <<p, n>>
<1>0. PICK p \in 1 .. 4 : \E n \in 1 .. Len(P!Startup[p]) : boot = <<p, n>>
  BY DEF BootTyped, P!Booted
<1>1. PICK n \in 1 .. Len(P!Startup[p]) : boot = <<p, n>>
  BY <1>0
<1>2. Len(P!Startup[p]) \in Nat \ {0} /\ (p < 4 => Len(P!Startup[p + 1]) \in Nat \ {0})
  <2>1. \A q \in {1, 2, 3, 4} : Len(P!Startup[q]) \in Nat \ {0}
    BY StartupLengths, SMTT(25)
  <2>2. p \in {1, 2, 3, 4} /\ (p < 4 => p + 1 \in {1, 2, 3, 4})
    OBVIOUS
  <2>3. QED
    BY <2>1, <2>2
<1>3. P!Onward \in {<<p, n + 1>>, <<p + 1, 1>>, <<>>}
  BY <1>1 DEF P!Onward
<1>4. P!Onward = <<p, n + 1>> => n < Len(P!Startup[p])
  BY <1>1, <1>2 DEF P!Onward
<1>5. P!Onward = <<p + 1, 1>> => p < 4 \/ n < Len(P!Startup[p])
  BY <1>1, StartupLengths DEF P!Onward
<1>6. P!Failed \in {<<p, 1>>, <<>>}
  BY <1>1 DEF P!Failed
<1>7. CASE boot' \in {<<>>, <<p, n>>, <<p, 1>>}
  BY <1>2, <1>7
<1>8. CASE boot' = P!Onward /\ n < Len(P!Startup[p])
  <2>1. P!Onward = <<p, n + 1>>
    BY <1>1, <1>8 DEF P!Onward
  <2>2. n + 1 \in 1 .. Len(P!Startup[p])
    BY <1>2, <1>8
  <2>3. QED
    BY <1>8, <2>1, <2>2
<1>9. CASE boot' = P!Onward /\ ~(n < Len(P!Startup[p]))
  <2>1. P!Onward = IF p < 4 THEN <<p + 1, 1>> ELSE <<>>
    BY <1>1, <1>9, StartupLengths DEF P!Onward
  <2>2. CASE p < 4
    <3>1. p + 1 \in 1 .. 4 /\ 1 \in 1 .. Len(P!Startup[p + 1])
      BY <1>2, <2>2
    <3>2. QED
      BY <1>9, <2>1, <2>2, <3>1
  <2>3. QED
    BY <1>9, <2>1, <2>2
<1>10. QED
  BY <1>1, <1>6, <1>7, <1>8, <1>9

LEMMA BootTypedKeeps ==
  ASSUME BootTyped, P!Ps2Next
  PROVE  BootTyped'
<1>1. CASE P!BootWrite
  <2>1. ~P!Booted /\ boot' = P!Onward /\ disturbed' = disturbed
    BY <1>1, BootWriteWrites
  <2>2. PICK b : P!ps2_write_data(b) \/ P!ps2_write_command(b)
    BY <1>1, BootWriteWrites
  <2>3. next' \in {"kbd", "aux", "config"}
    BY <2>2 DEF BootTyped, P!ps2_write_data, P!ps2_write_command
  <2>4. muted' \in BOOLEAN
    BY <2>2, Zenon DEF BootTyped, P!ps2_write_data, P!ps2_write_command
  <2>5. reporting' \in BOOLEAN
    BY <2>2, Zenon DEF BootTyped, P!ps2_write_data, P!ps2_write_command
  <2>6. QED
    BY <2>1, <2>3, <2>4, <2>5, OnwardTyped DEF BootTyped
<1>2. CASE P!BootRead
  <2>1. ~P!Booted /\ boot' \in {boot, P!Onward, P!Failed}
        /\ UNCHANGED <<next, muted, reporting, disturbed>>
    BY <1>2 DEF P!BootRead
  <2>2. QED
    BY <2>1, OnwardTyped DEF BootTyped
<1>3. CASE P!BootSee
  <2>1. ~P!Booted /\ boot' = P!Onward /\ UNCHANGED <<next, muted, reporting, disturbed>>
    BY <1>3 DEF P!BootSee, P!device
  <2>2. QED
    BY <2>1, OnwardTyped DEF BootTyped
<1>4. CASE P!BootGiveUp
  <2>1. ~P!Booted /\ boot' \in {P!Failed, P!Onward} /\ UNCHANGED <<next, muted, reporting>>
    BY <1>4 DEF P!BootGiveUp, P!device
  <2>2. disturbed' \in BOOLEAN
    BY <1>4, Zenon DEF P!BootGiveUp
  <2>3. QED
    BY <2>1, <2>2, OnwardTyped DEF BootTyped
<1>5. CASE P!Press \/ P!Move
  <2>1. UNCHANGED <<boot, next, muted, reporting>>
    BY <1>5 DEF P!Press, P!Move
  <2>2. disturbed' \in BOOLEAN
    BY <1>5, Zenon DEF P!Press, P!Move
  <2>3. QED
    BY <2>1, <2>2 DEF BootTyped
<1>6. CASE P!Fill \/ P!GETCH \/ P!MouseSees \/ P!MouseReads
  BY <1>6 DEF P!Fill, P!GETCH, P!MouseSees, P!MouseReads, P!device, BootTyped
<1>7. CASE P!GetcharCalled \/ P!GetcharFetch \/ P!GetcharDecode \/ P!GetcharAssign
             \/ P!GetcharReturn
  BY <1>7 DEF P!GetcharCalled, P!GetcharFetch, P!GetcharDecode, P!GetcharAssign,
              P!GetcharReturn, P!device, BootTyped
<1>8. QED
  BY <1>1, <1>2, <1>3, <1>4, <1>5, <1>6, <1>7 DEF P!Ps2Next

LEMMA DecodeIsByte ==
  ASSUME NEW code \in 0 .. 255
  PROVE  /\ P!Decode(code) \in 0 .. 255 /\ P!Silent(code) \in BOOLEAN
         /\ shifted \in BOOLEAN => P!Shift(code) \in BOOLEAN
         /\ ctrl \in BOOLEAN => P!Ctrl(code) \in BOOLEAN
<1> DEFINE key == P!Typed(IF shifted THEN P!keyboard_map_shifted ELSE P!keyboard_map, code)
<1>1. key \in 0 .. 255
  BY SameKeysType
<1>2. P!Controlled(key) \in 0 .. 255
  BY <1>1 DEF P!Controlled
<1>3. P!Character(code) = IF ctrl THEN P!Controlled(key) ELSE key
  BY DEF P!Character
<1>4. P!Decode(code) \in 0 .. 255
  BY <1>1, <1>2, <1>3 DEF P!Decode
<1>5. P!Silent(code) \in BOOLEAN
  BY DEF P!Silent
<1>6. shifted \in BOOLEAN => P!Shift(code) \in BOOLEAN
  BY DEF P!Shift
<1>7. ctrl \in BOOLEAN => P!Ctrl(code) \in BOOLEAN
  BY DEF P!Ctrl
<1>8. QED
  BY <1>4, <1>5, <1>6, <1>7

LEMMA KeysTypedKeeps ==
  ASSUME Wire, KeysTyped, P!Ps2Next
  PROVE  KeysTyped'
<1>1. CASE P!GETCH
  <2>1. UNCHANGED <<character, getchar>>
    BY <1>1 DEF P!GETCH
  <2>2. CASE P!ForKeyboard
    <3>1. source # "none" /\ P!ps2_read_data
      BY <1>1, <2>2 DEF P!GETCH, P!ps2_keyboard_fetch, P!ForKeyboard
    <3>2. PICK code : code = P!InBuffer.v
      OBVIOUS
    <3>3. code \in 0 .. 255
      BY <3>1, <3>2, ReadTakes DEF Byte
    <3>4. /\ shifted' = P!Shift(code) /\ ctrl' = P!Ctrl(code)
          /\ keyboardPressed' = ~P!Silent(code)
      BY <1>1, <2>2, <3>2 DEF P!GETCH, P!ps2_keyboard_fetch
    <3>5. QED
      BY <2>1, <3>3, <3>4, DecodeIsByte, Zenon DEF KeysTyped
  <2>3. CASE ~P!ForKeyboard
    <3>1. keyboardPressed' = FALSE /\ UNCHANGED <<shifted, ctrl>>
      BY <1>1, <2>3 DEF P!GETCH, P!ps2_keyboard_fetch
    <3>2. QED
      BY <2>1, <3>1, Zenon DEF KeysTyped
  <2>4. QED
    BY <2>2, <2>3
<1>2. P!Idle \in Getchar
  BY DEF P!Idle, P!Plain, Byte, Getchar
<1>3. CASE P!GetcharCalled
  <2>1. getchar' = [P!Idle EXCEPT !.pc = "loop"]
        /\ UNCHANGED <<shifted, ctrl, keyboardPressed, character>>
    BY <1>3 DEF P!GetcharCalled
  <2>2. getchar' \in Getchar
    BY <1>2, <2>1 DEF Getchar
  <2>3. QED
    BY <2>1, <2>2, Zenon DEF KeysTyped
<1>4. CASE P!GetcharFetch
  <2>1. keyboardPressed' = FALSE /\ UNCHANGED <<shifted, ctrl, character>>
    BY <1>4 DEF P!GetcharFetch
  <2>2. getchar' \in Getchar
    <3>1. CASE P!ForKeyboard
      <4>1. source # "none" /\ P!ps2_read_data
            /\ getchar' = [getchar EXCEPT !.pc = "decode", !.byte = P!InBuffer]
        BY <1>4, <3>1 DEF P!GetcharFetch, P!ForKeyboard
      <4>2. P!InBuffer \in Byte
        BY <4>1, ReadTakes
      <4>3. getchar \in Getchar
        BY DEF KeysTyped
      <4>4. QED
        BY <4>1, <4>2, <4>3 DEF Getchar
    <3>2. CASE ~P!ForKeyboard
      <4>1. getchar' = [P!Idle EXCEPT !.pc = "assign"]
        BY <1>4, <3>2 DEF P!GetcharFetch
      <4>2. QED
        BY <1>2, <4>1 DEF Getchar
    <3>3. QED
      BY <3>1, <3>2
  <2>3. QED
    BY <2>1, <2>2, Zenon DEF KeysTyped
<1>5. CASE P!GetcharDecode
  <2>1. PICK code : code = getchar.byte.v
    OBVIOUS
  <2>2. getchar \in Getchar
    BY DEF KeysTyped
  <2>3. code \in 0 .. 255
    BY <2>1, <2>2 DEF Byte, Getchar
  <2>4. /\ getchar' = [getchar EXCEPT !.pc = "assign", !.key = P!Decode(code)]
        /\ shifted' = P!Shift(code) /\ ctrl' = P!Ctrl(code) /\ character' = character
        /\ keyboardPressed' = (keyboardPressed \/ ~P!Silent(code))
    BY <1>5, <2>1 DEF P!GetcharDecode
  <2>5. getchar' \in Getchar
    BY <2>2, <2>3, <2>4, DecodeIsByte DEF Getchar
  <2>6. keyboardPressed' \in BOOLEAN
    BY <2>4, Zenon
  <2>7. QED
    BY <2>3, <2>4, <2>5, <2>6, DecodeIsByte, Zenon DEF KeysTyped
<1>6. CASE P!GetcharAssign
  <2>1. /\ character' = <<getchar.byte.k, getchar.key>>
        /\ getchar' = [getchar EXCEPT !.pc = "loop"]
        /\ UNCHANGED <<shifted, ctrl, keyboardPressed>>
    BY <1>6 DEF P!GetcharAssign
  <2>2. getchar \in Getchar
    BY DEF KeysTyped
  <2>3. getchar' \in Getchar /\ character'[2] \in 0 .. 255
    BY <2>1, <2>2 DEF Getchar
  <2>4. QED
    BY <2>1, <2>3, Zenon DEF KeysTyped
<1>7. CASE P!GetcharReturn
  <2>1. /\ keyboardPressed' = FALSE /\ getchar' = [P!Idle EXCEPT !.pc = "idle"]
        /\ UNCHANGED <<shifted, ctrl, character>>
    BY <1>7 DEF P!GetcharReturn
  <2>2. getchar' \in Getchar
    BY <1>2, <2>1 DEF Getchar
  <2>3. QED
    BY <2>1, <2>2, Zenon DEF KeysTyped
<1>8. CASE P!BootWrite \/ P!BootRead \/ P!BootSee \/ P!BootGiveUp
  BY <1>8, Zenon DEF P!BootWrite, P!BootRead, P!BootSee, P!BootGiveUp, P!keyboard, KeysTyped
<1>9. CASE P!Fill \/ P!Press \/ P!Move \/ P!MouseSees \/ P!MouseReads
  BY <1>9, Zenon DEF P!Fill, P!Press, P!Move, P!MouseSees, P!MouseReads, P!keyboard, KeysTyped
<1>10. QED
  BY <1>1, <1>3, <1>4, <1>5, <1>6, <1>7, <1>8, <1>9 DEF P!Ps2Next

LEMMA ClampInside ==
  ASSUME NEW n \in Int, NEW size \in Nat \ {0}
  PROVE  P!Clamp(n, size) \in 0 .. size - 1
BY DEF P!Clamp

LEMMA ShortPacket ==
  ASSUME NEW p \in Seq(Byte), Len(p) <= 3
  PROVE  Len(p) \in 0 .. 3 /\ (Len(p) = 3 => p[1] \in Byte /\ p[2] \in Byte /\ p[3] \in Byte)
<1>1. Len(p) \in Nat
  OBVIOUS
<1>2. PICK n \in Nat : n = Len(p)
  BY <1>1
<1>3. Len(p) \in 0 .. 3
  BY <1>2
<1>4. \A i \in 1 .. Len(p) : p[i] \in Byte
  OBVIOUS
<1>5. QED
  BY <1>2, <1>3, <1>4

LEMMA CursorTypedKeeps ==
  ASSUME Wire, CursorTyped, P!Ps2Next
  PROVE  CursorTyped'
<1>1. CASE P!MouseReads
  <2>1. PICK p : p = P!Received(P!InBuffer)
    OBVIOUS
  <2>2. source # "none" /\ P!ps2_read_data
    BY <1>1 DEF P!MouseReads
  <2>3. P!InBuffer \in Byte /\ packet \in Seq(Byte)
    BY <2>2, ReadTakes DEF Wire
  <2>4. p \in Seq(Byte) /\ Len(p) \in Nat /\ Len(p) <= 3
    <3>1. /\ Append(packet, P!InBuffer) \in Seq(Byte) /\ Len(packet) \in Nat
          /\ Len(Append(packet, P!InBuffer)) = Len(packet) + 1
      BY <2>3, AppendPlaces
    <3>2. <<>> \in Seq(Byte) /\ Len(<<>>) = 0
      OBVIOUS
    <3>3. p \in {<<>>, Append(packet, P!InBuffer)}
      BY <2>1 DEF P!Received
    <3>4. Len(packet) < 3
      BY DEF CursorTyped
    <3>5. CASE p = <<>>
      BY <3>5
    <3>6. CASE p = Append(packet, P!InBuffer)
      <4>1. Len(p) = Len(packet) + 1
        BY <3>1, <3>6
      <4>2. QED
        BY <3>1, <3>4, <3>6, <4>1
    <3>7. QED
      BY <3>3, <3>5, <3>6
  <2>10. Len(p) \in 0 .. 3 /\ (Len(p) = 3 => p[1] \in Byte /\ p[2] \in Byte /\ p[3] \in Byte)
    BY <2>4, ShortPacket
  <2>5. IF Len(p) = 3 THEN packet' = <<>> /\ cursor' = P!mouseFetch(p)
        ELSE packet' = p /\ cursor' = cursor
    BY <1>1, <2>1 DEF P!MouseReads
  <2>6. CASE Len(p) = 3
    <3>1. p[1] \in Byte /\ p[2] \in Byte /\ p[3] \in Byte
      BY <2>10, <2>6
    <3>2. P!Delta(p, 1) \in Int /\ P!Delta(p, 2) \in Int
      BY <3>1 DEF P!Delta, P!Signed, Byte
    <3>3. cursor.x \in Int /\ cursor.y \in Int /\ Width \in Nat \ {0} /\ Height \in Nat \ {0}
      BY PartsAssumption DEF P!Ps2Assumption, CursorTyped
    <3>4. /\ cursor'.x = P!Clamp(cursor.x + P!Delta(p, 1), Width)
          /\ cursor'.y = P!Clamp(cursor.y - P!Delta(p, 2), Height)
          /\ packet' = <<>>
      BY <2>5, <2>6 DEF P!mouseFetch
    <3>8. /\ cursor.x + P!Delta(p, 1) \in Int /\ cursor.y - P!Delta(p, 2) \in Int
          /\ Width \in Nat \ {0} /\ Height \in Nat \ {0}
      BY <3>2, <3>3
    <3>5. cursor'.x \in 0 .. Width - 1 /\ cursor'.y \in 0 .. Height - 1
      BY <3>8, <3>4, ClampInside
    <3>6. Len(packet') < 3
      BY <3>4
    <3>7. QED
      BY <3>5, <3>6 DEF CursorTyped
  <2>7. CASE Len(p) # 3
    <3>1. packet' = p /\ cursor' = cursor
      BY <2>5, <2>7
    <3>2. Len(p) < 3
      <4>1. PICK l \in 0 .. 3 : l = Len(p)
        BY <2>10
      <4>2. QED
        BY <2>7, <4>1
    <3>3. QED
      BY <3>1, <3>2 DEF CursorTyped
  <2>8. QED
    BY <2>6, <2>7
<1>2. CASE P!BootWrite \/ P!BootRead \/ P!BootSee \/ P!BootGiveUp
  BY <1>2 DEF P!BootWrite, P!BootRead, P!BootSee, P!BootGiveUp, P!mouse, CursorTyped
<1>3. CASE P!Fill \/ P!Press \/ P!Move \/ P!MouseSees \/ P!GETCH
  BY <1>3 DEF P!Fill, P!Press, P!Move, P!MouseSees, P!GETCH, P!mouse, CursorTyped
<1>4. CASE P!GetcharCalled \/ P!GetcharFetch \/ P!GetcharDecode \/ P!GetcharAssign
             \/ P!GetcharReturn
  BY <1>4 DEF P!GetcharCalled, P!GetcharFetch, P!GetcharDecode, P!GetcharAssign,
              P!GetcharReturn, P!mouse, CursorTyped
<1>5. QED
  BY <1>1, <1>2, <1>3, <1>4 DEF P!Ps2Next

LEMMA PadInvariant == PartsSpec => [](KeyInv /\ BootTyped /\ KeysTyped /\ CursorTyped)
<1>1. PartsInit => BootTyped /\ KeysTyped /\ CursorTyped
  <2> SUFFICES ASSUME PartsInit PROVE BootTyped /\ KeysTyped /\ CursorTyped
    OBVIOUS
  <2>1. /\ next = "kbd" /\ muted = FALSE /\ reporting = FALSE /\ boot = <<1, 1>>
        /\ shifted = FALSE /\ ctrl = FALSE /\ keyboardPressed = FALSE
        /\ character = <<0, 0>> /\ getchar = P!Idle /\ packet = <<>>
        /\ cursor = [x |-> 0, y |-> 0, buttons |-> {}] /\ disturbed = FALSE
    BY DEF PartsInit, P!Ps2Init
  <2>2. 1 \in 1 .. 4 /\ 1 \in 1 .. Len(P!Startup[1])
    BY StartupLengths, SMTT(25)
  <2>3. BootTyped
    BY <2>1, <2>2 DEF BootTyped
  <2>4. P!Idle \in Getchar
    BY DEF P!Idle, P!Plain, Byte, Getchar
  <2>5. KeysTyped
    <3>1. character[2] \in 0 .. 255
      BY <2>1
    <3>2. QED
      BY <2>1, <2>4, <3>1, Zenon DEF KeysTyped
  <2>6. CursorTyped
    BY <2>1, PartsAssumption DEF P!Ps2Assumption, CursorTyped
  <2>7. QED
    BY <2>3, <2>5, <2>6
<1>2. KeyInv /\ BootTyped /\ KeysTyped /\ CursorTyped /\ [PartsNext]_vars
        => (BootTyped /\ KeysTyped /\ CursorTyped)'
  <2> SUFFICES ASSUME KeyInv, BootTyped, KeysTyped, CursorTyped, [PartsNext]_vars
               PROVE  (BootTyped /\ KeysTyped /\ CursorTyped)'
    OBVIOUS
  <2>1. CASE UNCHANGED ps2Vars
    <3>1. BootTyped'
      BY <2>1 DEF ps2Vars, BootTyped
    <3>2. KeysTyped'
      BY <2>1 DEF ps2Vars, KeysTyped
    <3>3. CursorTyped'
      BY <2>1 DEF ps2Vars, CursorTyped
    <3>4. QED
      BY <3>1, <3>2, <3>3
  <2>2. CASE P!Ps2Next
    BY <2>2, BootTypedKeeps, KeysTypedKeeps, CursorTypedKeeps DEF KeyInv
  <2>3. QED
    BY <2>1, <2>2, Ps2Step
<1>3. QED
  BY <1>1, <1>2, KeyInvariant, PTL DEF PartsSpec

-----------------------------------------------------------------------------
(* Every variable of the six parts has its type, for every machine, every  *)
(* file, every user and every display: the loader's blocks and words, the  *)
(* drive table and the driver's answers, the start-up's steps, the codes   *)
(* of characters and the place of the cursor, the lines that are typed,    *)
(* the windows' buffers and the slots of files.                            *)
THEOREM PartsKeepTypes == PartsSpec => []PartsTypeOK
<1>1. ImagesInv /\ MemoryTyped => E!ElfTypeOK
  <2> SUFFICES ASSUME ImagesInv, MemoryTyped PROVE E!ElfTypeOK
    OBVIOUS
  <2>1. \A i \in DOMAIN externs : externs[i] = Symbols[i]
    BY DEF ImagesInv, Types
  <2>2. \A b \in heap : b.at \in Addresses /\ b.size \in Nat \ {0} /\ b.use \in {"image", "bss"}
    BY DEF ImagesInv, Apart, MemoryTyped
  <2>3. \A i \in DOMAIN images : images[i].file \in Files
    <3>1. images \in Seq(ImageType)
      BY DEF ImagesInv, Types
    <3>2. \A i \in DOMAIN images : images[i] \in ImageType
      BY <3>1
    <3>3. QED
      BY <3>2 DEF ImageType
  <2>4. load.pc \in {"idle", "one", "two", "stack"}
    BY DEF ImagesInv, Types, LoadType
  <2>5. QED
    BY <2>1, <2>2, <2>3, <2>4 DEF E!ElfTypeOK, MemoryTyped
<1>2. DiskWorks => A!AtaTypeOK
  <2> SUFFICES ASSUME DiskWorks PROVE A!AtaTypeOK
    OBVIOUS
  <2> USE DEF DiskWorks
  <2>1. \A i \in DOMAIN IDEDev : IDEDev[i].type \in A!Types
    BY DriveFacts DEF DiskInv
  <2>2. \A c \in A!Channels : {busy[c], drq[c], quiet[c], line[c]} \subseteq BOOLEAN
    BY DEF DriveTyped
  <2>3. \A c \in A!Channels : err[c] \in A!Failures \cup {{}}
    BY DEF DriveTyped
  <2>4. \A w \in put : w[1] \in A!Units \X Lbas
    BY PutFacts
  <2>5. QED
    BY <2>1, <2>2, <2>3, <2>4 DEF A!AtaTypeOK, DriveTyped
<1>3. KeyInv /\ BootTyped /\ KeysTyped /\ CursorTyped => P!Ps2TypeOK
  <2> SUFFICES ASSUME KeyInv, BootTyped, KeysTyped, CursorTyped PROVE P!Ps2TypeOK
    OBVIOUS
  <2>1. boot = <<>> \/ (boot[1] \in 1 .. 4 /\ boot[2] \in 1 .. Len(P!Startup[boot[1]]))
    BY DEF BootTyped
  <2>2. source # "none" => P!InBuffer.v \in 0 .. 255
    <3> SUFFICES ASSUME source # "none" PROVE P!InBuffer.v \in 0 .. 255
      OBVIOUS
    <3>2. P!InBuffer \in Byte
      <4>1. source = "ctl" => P!InBuffer = Head(ctl) /\ Head(ctl) \in Byte
        BY DEF KeyInv, Wire, P!InBuffer
      <4>2. source = "kbd" => P!InBuffer = Head(kbd) /\ Head(kbd) \in Byte
        BY DEF KeyInv, Wire, P!InBuffer
      <4>3. source = "aux" => P!InBuffer = Head(aux) /\ Head(aux) \in Byte
        BY DEF KeyInv, Wire, P!InBuffer
      <4>4. QED
        BY <4>1, <4>2, <4>3 DEF KeyInv, Wire
    <3>3. QED
      BY <3>2 DEF Byte
  <2>3. {shifted, ctrl, keyboardPressed, reader, muted, reporting, disturbed} \subseteq BOOLEAN
    BY Zenon DEF KeyInv, Wire, BootTyped, KeysTyped
  <2>4. getchar.key \in 0 .. 255
    BY DEF KeysTyped, Getchar
  <2>5. QED
    BY <2>1, <2>2, <2>3, <2>4 DEF P!Ps2TypeOK, KeyInv, Wire, BootTyped, KeysTyped, CursorTyped
<1>4. LineInv /\ LoginInv /\ TerminalTyped => T!TerminalTypeOK
  <2> SUFFICES ASSUME LineInv, LoginInv, TerminalTyped PROVE T!TerminalTypeOK
    OBVIOUS
  <2>1. output \in [1 .. T!CELLS -> Glyphs] /\ at \in 0 .. T!CELLS - 1
    BY DEF LineInv, Screens, T!Screen
  <2>2. T!CELLS \in Nat
    BY Room
  <2>3. Len(output) = T!CELLS
    BY <2>1, <2>2
  <2>4. \A i \in 1 .. Len(users) : "VALID" \in users[i].Flags
    BY DEF LoginInv, UsersTyped
  <2>5. QED
    BY <2>1, <2>3, <2>4 DEF T!TerminalTypeOK, LineInv, TerminalTyped
<1>5. DesktopInv => D!DesktopTypeOK
  <2> SUFFICES ASSUME DesktopInv PROVE D!DesktopTypeOK
    OBVIOUS
  <2>1. front \in [D!Cells -> Pixels] /\ framebuffer \in [D!Cells -> Pixels]
    BY DEF DesktopInv, ScreenTyped
  <2>2. \A w \in D!Windows : behind[w] \in [D!Local(Sizes[w]) -> Pixels]
    BY DEF DesktopInv, ScreenTyped, Bare
  <2>3. mouseSave \in [D!Local(CursorSize) -> Pixels]
    BY DEF DesktopInv, ScreenTyped, Bare
  <2>4. <<mx, my>> \in D!Cells
    BY DEF DesktopInv, PointerTyped, D!Cells
  <2>5. hovered = D!NotHovered \/ hovered[1] \in D!Registered
    BY DEF DesktopInv, PointerTyped
  <2>6. /\ head \in 1 .. Len(Order) + 1 /\ (linked => head <= Len(Order))
        /\ D!Registered \subseteq dirty \cup painted
        /\ loop \in {"draw", "clear", "place", "mouse", "button"}
    BY DEF DesktopInv, ListTyped
  <2>7. obj \in 0 .. Len(Order) + 1
    BY Geometry DEF DesktopInv, ListTyped
  <2>8. QED
    BY <2>1, <2>2, <2>3, <2>4, <2>5, <2>6, <2>7 DEF D!DesktopTypeOK, Pixels
<1>6. FilesInv => F!OpenFilesTypeOK
  <2> SUFFICES ASSUME FilesInv PROVE F!OpenFilesTypeOK
    OBVIOUS
  <2>1. \A i \in F!Slots : /\ _iofiles[i].size \in 0 .. MaxSize
                           /\ _iofiles[i].ptr \in 0 .. Farthest + MaxSize
                           /\ _iofiles[i].remaining \in 0 .. MaxSize
    BY DEF FilesInv, Table, FileType
  <2>2. QED
    BY <2>1 DEF FilesInv, Heap, Stored, F!OpenFilesTypeOK
<1>7. QED
  BY <1>1, <1>2, <1>3, <1>4, <1>5, <1>6, MemoryInvariant, DiskWorksAlways, PadInvariant,
     TerminalInvariant, DesktopInvariant, FilesInvariant, PTL DEF PartsTypeOK
=============================================================================
