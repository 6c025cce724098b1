-------------------------------- MODULE Elf --------------------------------
(***************************************************************************)
(* Loading and linking of relocatable ELF files (programs/elf/elf.c): the  *)
(* file is copied, uninitialised sections get memory of their own, and     *)
(* each relocation of each relocation section rewrites one word of the     *)
(* copy.  Several files, and one file several times, are loaded in turn;   *)
(* between loads the kernel registers symbols for files to link with.      *)
(*                                                                         *)
(* A file is a record: what its header says, its sections, its symbols,    *)
(* and the words of its contents that relocations rewrite, by offset.      *)
(* malloc is the heap's promise: a block that overlaps no other.           *)
(***************************************************************************)
EXTENDS Integers, Sequences

CONSTANTS
  Files,      \* the files there are to load
  WORDS,      \* 2^32: addresses and words count modulo this
  Addresses,  \* where malloc may place a block
  Symbols,    \* names and addresses the kernel registers, in this order
  CAPACITY,   \* 16: entries of the first table of external symbols
  LINK,       \* 0x08000000: where elfSymbol supposes executables linked,
  LIMIT,      \* 0x1000000:  those whose entry is not below this
  MaxLoads    \* bound: files loaded

SHN_UNDEF == 0
SHN_ABS   == -15   \* 0xFFF1

(* What the code relies on in a file and does not check: the compiler's    *)
(* sections start at 0, each relocation is of a word the file holds, of    *)
(* its own, and each symbol is undefined, absolute or in a section.        *)
SectionType ==
  [type : STRING, alloc : BOOLEAN, offset : Nat, size : Nat, addr : Nat, info : Nat,
   rels : Seq([offset : Nat, sym : Nat, type : STRING])]

Uninitialised(s) == s.type = "NOBITS" /\ s.size > 0 /\ s.alloc

(* The file's offset of the word a relocation rewrites.                    *)
WordOf(f, i, j) ==
  f.sections[f.sections[i].info].offset + f.sections[i].rels[j].offset

Relocatable(f) ==
  /\ \A s \in DOMAIN f.sections : f.sections[s].addr = 0
  /\ \A i \in DOMAIN f.sections : \A j \in DOMAIN f.sections[i].rels :
       /\ f.sections[i].type = "REL" /\ f.sections[i].info \in DOMAIN f.sections
       /\ ~Uninitialised(f.sections[f.sections[i].info])
       /\ WordOf(f, i, j) \in DOMAIN f.words
       /\ \A k \in DOMAIN f.sections : \A l \in DOMAIN f.sections[k].rels :
            <<k, l>> # <<i, j>> => WordOf(f, k, l) # WordOf(f, i, j)

WellFormed(f) ==
  /\ f.size \in Nat \ {0} /\ f.sections \in Seq(SectionType) /\ f.entry \in Nat
  /\ DOMAIN f.words \subseteq 0 .. f.size - 1
  /\ \A o \in DOMAIN f.words : f.words[o] \in 0 .. WORDS - 1
  /\ f.symbols \in Seq([name : STRING, value : Int,
                        shndx : {SHN_UNDEF, SHN_ABS} \cup DOMAIN f.sections])
  /\ f.type = "REL" => Relocatable(f)

ElfAssumption ==
  /\ \A f \in Files : f.magic => WellFormed(f)
  /\ Symbols \in Seq(STRING \X Int)
  /\ WORDS \in Nat \ {0} /\ Addresses \subseteq 1 .. WORDS - 2
  /\ CAPACITY \in Nat \ {0} /\ LINK \in Nat /\ LIMIT \in Nat /\ MaxLoads \in Nat

VARIABLES
  externs,   \* extern_symbols, as far as it is used
  capacity,  \* extern_symbol_capacity
  heap,      \* blocks malloc gave out: where, how long, for what
  words,     \* memory, as far as relocations rewrite it
  images,    \* the files loaded: file, address, section offsets, answer
  load       \* the load in progress

elfVars == <<externs, capacity, heap, words, images, load>>

-----------------------------------------------------------------------------
ELF_ERROR == WORDS - 1

Mod(n) == n % WORDS

(* A load: where it is, the file and its copy's address, the copy's section*)
(* offsets, the section and the relocation it is at.                       *)
NoLoad == [pc |-> "idle", file |-> <<>>, at |-> 0, off |-> <<>>, i |-> 1, j |-> 1]

ElfInit ==
  /\ externs = <<>> /\ capacity = 0
  /\ heap = {} /\ words = <<>> /\ images = <<>> /\ load = NoLoad

(* Where malloc may put so many bytes. *)
Fits(at, size) ==
  /\ at + size <= WORDS
  /\ \A b \in heap : at + size <= b.at \/ b.at + b.size <= at

Block(at, size, use) == [at |-> at, size |-> size, use |-> use]

-----------------------------------------------------------------------------
(* The external symbols.                                                   *)

(* Mutant of Register: the table grows an entry too late. *)
RegisterLate ==
  LET n    == Len(externs)
      full == n > IF externs = <<>> THEN CAPACITY ELSE capacity
  IN
  /\ load.pc = "idle" /\ n < Len(Symbols)
  /\ externs' = Append(externs, Symbols[n + 1])
  /\ capacity' = IF externs = <<>> THEN CAPACITY
                 ELSE IF full THEN 2 * capacity ELSE capacity
  /\ UNCHANGED <<heap, words, images, load>>

(* elfRegisterExternSymbol: a full table is copied into one twice as large.*)
Register ==
  LET n    == Len(externs)
      full == n >= IF externs = <<>> THEN CAPACITY ELSE capacity
  IN
  /\ load.pc = "idle" /\ n < Len(Symbols)
  /\ externs' = Append(externs, Symbols[n + 1])
  /\ capacity' = IF externs = <<>> THEN CAPACITY
                 ELSE IF full THEN 2 * capacity ELSE capacity
  /\ UNCHANGED <<heap, words, images, load>>

(* elfLookupSymbol: the first of that name; 0 is the null pointer. *)
elfLookupSymbol(name) ==
  LET at == {i \in DOMAIN externs : externs[i][1] = name}
  IN  IF at = {} THEN 0 ELSE externs[CHOOSE i \in at : \A j \in at : i <= j][2]

-----------------------------------------------------------------------------
(* Loading.                                                                *)

elfCheckFile(f) == f.magic

elfCheckSupported(f) ==
  elfCheckFile(f) /\ f.machine = "386" /\ f.type \in {"REL", "EXEC"}

Refuse(f, answer) ==
  images' = Append(images, [file |-> f, at |-> 0, off |-> <<>>, answer |-> answer])

(* elfLoadProgram and elfLoadNoRun up to the copy of the file; an          *)
(* executable is taken for one that needs no linking.                      *)
Load(f) ==
  /\ load.pc = "idle" /\ Len(images) < MaxLoads
  /\ IF ~elfCheckSupported(f)
       THEN Refuse(f, "not_elf") /\ UNCHANGED <<heap, words, load>>
       ELSE \E at \in Addresses :
              /\ Fits(at, f.size)
              /\ heap' = heap \cup {Block(at, f.size, "image")}
              /\ words' = [a \in DOMAIN words \cup {at + o : o \in DOMAIN f.words} |->
                             IF a - at \in DOMAIN f.words THEN f.words[a - at]
                             ELSE words[a]]
              /\ load' = [NoLoad EXCEPT
                            !.pc = IF f.type = "REL" THEN "one" ELSE "stack",
                            !.file = f, !.at = at,
                            !.off = [s \in DOMAIN f.sections |-> f.sections[s].offset]]
              /\ UNCHANGED images
  /\ UNCHANGED <<externs, capacity>>

(* elfLoadStageOne, one section: the offset of a section with memory of    *)
(* its own leads there from the copy.                                      *)
StageOne ==
  LET s == load.file.sections[load.i] IN
  /\ load.pc = "one" /\ load.i <= Len(load.file.sections)
  /\ IF ~Uninitialised(s) THEN load' = [load EXCEPT !.i = @ + 1] /\ UNCHANGED heap
     ELSE \E at \in Addresses :
            /\ Fits(at, s.size)
            /\ heap' = heap \cup {Block(at, s.size, "bss")}
            /\ load' = [load EXCEPT !.i = @ + 1, !.off[load.i] = Mod(at - load.at)]
  /\ UNCHANGED <<externs, capacity, words, images>>

StageOneDone ==
  /\ load.pc = "one" /\ load.i > Len(load.file.sections)
  /\ load' = [load EXCEPT !.pc = "two", !.i = 1]
  /\ UNCHANGED <<externs, capacity, heap, words, images>>

(* elfGetSymbolExternal: weak symbols are no exception, a symbol that is   *)
(* found is never null.                                                    *)
elfGetSymbolExternal(symbol) ==
  LET target == elfLookupSymbol(symbol.name)
  IN  IF target # 0 THEN target ELSE ELF_ERROR

(* Mutant of elfGetSymbolValue: the section's offset is left out. *)
SymbolInCopy(idx) ==
  LET symbol == load.file.symbols[idx] IN
  IF idx = 0 THEN SHN_UNDEF
  ELSE IF symbol.shndx = SHN_UNDEF THEN elfGetSymbolExternal(symbol)
  ELSE IF symbol.shndx = SHN_ABS THEN symbol.value
  ELSE Mod(load.at + symbol.value)

elfGetSymbolValue(idx) ==
  IF idx = 0 THEN SHN_UNDEF
  ELSE IF idx > Len(load.file.symbols) THEN ELF_ERROR
  ELSE LET symbol == load.file.symbols[idx] IN
       IF symbol.shndx = SHN_UNDEF THEN elfGetSymbolExternal(symbol)
       ELSE IF symbol.shndx = SHN_ABS THEN symbol.value
       ELSE Mod(load.at + load.off[symbol.shndx] + symbol.value)

DO_386_32(S, A)      == Mod(S + A)
DO_386_PC32(S, A, P) == Mod(S + A - P)

Relocations == load.file.sections[load.i].rels

(* elfDoRelocation, of the relocation elfApplyRelativeRelocation is at.    *)
Ref(rel) == Mod(load.at + load.off[load.file.sections[load.i].info] + rel.offset)

elfDoRelocation ==
  LET rel == Relocations[load.j]
      S   == elfGetSymbolValue(rel.sym)
      P   == Ref(rel)
  IN
  /\ load.pc = "two" /\ load.i <= Len(load.file.sections)
  /\ load.file.sections[load.i].type = "REL" /\ load.j <= Len(Relocations)
  /\ S # ELF_ERROR /\ rel.type \in {"NONE", "32", "PC32"}
  /\ words' = CASE rel.type = "32"   -> [words EXCEPT ![P] = DO_386_32(S, @)]
                [] rel.type = "PC32" -> [words EXCEPT ![P] = DO_386_PC32(S, @, P)]
                [] OTHER             -> words
  /\ load' = [load EXCEPT !.j = @ + 1]
  /\ UNCHANGED <<externs, capacity, heap, images>>

(* Mutant of RelocationFails: with the copy go all uninitialised sections. *)
RelocationFailsClean ==
  LET rel == Relocations[load.j] IN
  /\ load.pc = "two" /\ load.i <= Len(load.file.sections)
  /\ load.file.sections[load.i].type = "REL" /\ load.j <= Len(Relocations)
  /\ elfGetSymbolValue(rel.sym) = ELF_ERROR \/ rel.type \notin {"NONE", "32", "PC32"}
  /\ heap' = {b \in heap : b.at # load.at /\ b.use # "bss"}
  /\ words' = [a \in {w \in DOMAIN words :
                        w \notin load.at .. load.at + load.file.size - 1} |-> words[a]]
  /\ Refuse(load.file, "unlinked")
  /\ load' = NoLoad
  /\ UNCHANGED <<externs, capacity>>

(* A symbol nobody has, or a type of relocation it does not know: the copy *)
(* is freed; memory of uninitialised sections is not.                      *)
RelocationFails ==
  LET rel == Relocations[load.j] IN
  /\ load.pc = "two" /\ load.i <= Len(load.file.sections)
  /\ load.file.sections[load.i].type = "REL" /\ load.j <= Len(Relocations)
  /\ elfGetSymbolValue(rel.sym) = ELF_ERROR \/ rel.type \notin {"NONE", "32", "PC32"}
  /\ heap' = {b \in heap : b.at # load.at}
  /\ words' = [a \in {w \in DOMAIN words :
                        w \notin load.at .. load.at + load.file.size - 1} |-> words[a]]
  /\ Refuse(load.file, "unlinked")
  /\ load' = NoLoad
  /\ UNCHANGED <<externs, capacity>>

(* elfLoadStageTwo: the next section, after the last relocation of one or  *)
(* when it holds none.                                                     *)
StageTwo ==
  /\ load.pc = "two" /\ load.i <= Len(load.file.sections)
  /\ load.file.sections[load.i].type = "REL" => load.j > Len(Relocations)
  /\ load' = [load EXCEPT !.i = @ + 1, !.j = 1]
  /\ UNCHANGED <<externs, capacity, heap, words, images>>

StageTwoDone ==
  /\ load.pc = "two" /\ load.i > Len(load.file.sections)
  /\ load' = [load EXCEPT !.pc = "stack"]
  /\ UNCHANGED <<externs, capacity, heap, words, images>>

(* The image is kept: elfLoadProgram hands it to a process, elfLoadNoRun   *)
(* to the module's resource.                                               *)
Loaded ==
  /\ load.pc = "stack"
  /\ images' = Append(images, [file |-> load.file, at |-> load.at, off |-> load.off,
                               answer |-> "loaded"])
  /\ load' = NoLoad
  /\ UNCHANGED <<externs, capacity, heap, words>>

ElfNext ==
  \/ Register
  \/ \E f \in Files : Load(f)
  \/ StageOne \/ StageOneDone
  \/ elfDoRelocation \/ RelocationFails \/ StageTwo \/ StageTwoDone
  \/ Loaded

(* The address elfSymbol supposes a file is linked at. *)
LinkAddress(f) == IF f.entry < LIMIT THEN 0 ELSE LINK

(* elfSymbol, which DFIND answers with: 0 when no symbol has the name. *)
elfSymbol(image, name) ==
  LET f     == image.file
      named == {k \in DOMAIN f.symbols : f.symbols[k].name = name}
      k     == CHOOSE i \in named : \A j \in named : i <= j
  IN  IF named = {} THEN 0
      ELSE IF f.symbols[k].shndx = SHN_ABS THEN Mod(f.symbols[k].value + image.at)
      ELSE Mod(f.symbols[k].value - LinkAddress(f) + image.at)

-----------------------------------------------------------------------------
(* Properties.                                                             *)

(* Every variable has its type. *)
ElfTypeOK ==
  /\ \A i \in DOMAIN externs : externs[i] = Symbols[i]
  /\ Len(externs) <= capacity
  /\ \A b \in heap : b.at \in Addresses /\ b.size \in Nat \ {0} /\ b.use \in {"image", "bss"}
  /\ \A a \in DOMAIN words : a \in 0 .. WORDS - 1 /\ words[a] \in 0 .. WORDS - 1
  /\ \A i \in DOMAIN images : images[i].file \in Files
  /\ load.pc \in {"idle", "one", "two", "stack"}

LoadedImages == {images[i] : i \in {j \in DOMAIN images : images[j].answer = "loaded"}}

(* Where a symbol of a loaded image is: what the ABI of ELF says of S. *)
SymbolAt(image, k) ==
  LET f == image.file
      s == f.symbols[k]
  IN  IF s.shndx = SHN_ABS THEN s.value
      ELSE Mod(image.at + image.off[s.shndx] + s.value - f.sections[s.shndx].addr)

(* The word of a relocation holds S + A, or S + A - P, where A is what the *)
(* file holds there and P the word's own address.                          *)
Holds(image, i, j, S) ==
  LET type == image.file.sections[i].rels[j].type
      P    == image.at + WordOf(image.file, i, j)
      A    == image.file.words[WordOf(image.file, i, j)]
  IN  words[P] = CASE type = "32"   -> Mod(S + A)
                   [] type = "PC32" -> Mod(S + A - P)
                   [] OTHER         -> A

(* S stands for nothing, for a place in this image, in its copy or in a    *)
(* section with memory of its own, or for what the kernel registered.      *)
Linked(image, i, j) ==
  LET sym    == image.file.sections[i].rels[j].sym
      symbol == image.file.symbols[sym]
  IN  IF sym = 0 THEN Holds(image, i, j, 0)
      ELSE IF symbol.shndx # SHN_UNDEF THEN Holds(image, i, j, SymbolAt(image, sym))
      ELSE \E k \in DOMAIN Symbols :
             Symbols[k][1] = symbol.name /\ Holds(image, i, j, Symbols[k][2])

(* Every word a relocation of a loaded file names is linked to what the    *)
(* relocation's symbol stands for, whatever was loaded before and since,   *)
(* the same file included.                                                 *)
ImagesLinked ==
  \A image \in LoadedImages :
    image.file.type = "REL" =>
      \A i \in DOMAIN image.file.sections :
      \A j \in DOMAIN image.file.sections[i].rels : Linked(image, i, j)

(* A loaded image keeps the memory it links to: its copy, and a block of   *)
(* its own for each uninitialised section, which no other image has.       *)
ImagesHoldMemory ==
  \A x, y \in LoadedImages :
  \A i \in DOMAIN x.file.sections :
    (Uninitialised(x.file.sections[i]) /\ x.file.type = "REL") =>
       /\ Block(Mod(x.at + x.off[i]), x.file.sections[i].size, "bss") \in heap
       /\ Block(x.at, x.file.size, "image") \in heap
       /\ \A j \in DOMAIN y.file.sections :
            (Uninitialised(y.file.sections[j]) /\ y.file.type = "REL" /\ <<x, i>> # <<y, j>>)
              => Mod(x.at + x.off[i]) # Mod(y.at + y.off[j])

(* DFIND finds the first symbol of a name where the image has it, for      *)
(* images that are laid out in the file as they are from the address       *)
(* elfSymbol supposes they are linked at, as the programs are.             *)
SymbolsFound ==
  \A image \in LoadedImages : \A k \in DOMAIN image.file.symbols :
    LET s == image.file.symbols[k] IN
    (/\ \A j \in 1 .. k - 1 : image.file.symbols[j].name # s.name
     /\ s.shndx \in DOMAIN image.file.sections
     /\ image.file.sections[s.shndx].addr - LinkAddress(image.file) = image.off[s.shndx])
      => elfSymbol(image, s.name) = SymbolAt(image, k)

ElfSpec == ElfInit /\ [][ElfNext]_elfVars
=============================================================================
