------------------------------ MODULE MCParts ------------------------------
(* One small instance of every part. *)
EXTENDS Parts

(* Files to load; a word counts modulo 64. *)
UNDEF == 0     \* SHN_UNDEF and SHN_ABS
ABS   == -15

Plain(type, offset, size) ==
  [type |-> type, alloc |-> TRUE, offset |-> offset, size |-> size, addr |-> 0,
   info |-> 0, rels |-> <<>>]

Rel(info, rels) == [Plain("REL", 0, 0) EXCEPT !.info = info, !.rels = rels]

R(offset, sym, type) == [offset |-> offset, sym |-> sym, type |-> type]

Symbol(n, shndx, value) == [name |-> n, shndx |-> shndx, value |-> value]

(* Text that calls the kernel, its own function and data in memory of its  *)
(* own; one relocation of each type, one of them against no symbol.        *)
Driver ==
  [magic |-> TRUE, machine |-> "386", type |-> "REL", entry |-> 0, size |-> 12,
   sections |-> << Plain("PROGBITS", 2, 6), Plain("NOBITS", 0, 3),
                   Rel(1, <<R(0, 1, "PC32"), R(1, 2, "32"), R(2, 3, "32"),
                            R(3, 0, "PC32"), R(4, 4, "NONE"), R(5, 4, "32")>>),
                   [Plain("NOBITS", 0, 2) EXCEPT !.alloc = FALSE] >>,
   symbols |-> <<Symbol("printf", UNDEF, 0), Symbol("main", 1, 3),
                 Symbol("buffer", 2, 1), Symbol("size", ABS, 9)>>,
   words |-> [o \in 2 .. 7 |-> o * 9]]

(* The same, with a symbol nobody registers, or a type the loader does not *)
(* know, behind a relocation that succeeds.                                *)
Unlinkable ==
  [Driver EXCEPT !.sections[3].rels = <<R(1, 2, "32"), R(2, 5, "32")>>,
                 !.symbols = Append(@, Symbol("missing", UNDEF, 0))]

Exotic == [Driver EXCEPT !.sections[3].rels = <<R(1, 2, "32"), R(2, 1, "GOT32")>>]

(* What the programs' makefile links: an executable. *)
Program ==
  [magic |-> TRUE, machine |-> "386", type |-> "EXEC", entry |-> 41, size |-> 6,
   sections |-> <<[Plain("PROGBITS", 1, 5) EXCEPT !.addr = 41]>>,
   symbols |-> <<Symbol("main", 1, 43)>>, words |-> <<>>]

Script == [Program EXCEPT !.magic = FALSE]

AllFiles == {Driver, Unlinkable, Exotic, Program, Script}

(* A name registered twice. *)
KernelSymbols == << <<"malloc", 3>>, <<"printf", 50>>, <<"printf", 51>> >>

(* Machines and sectors. *)
Channels        == {0, 1}
None            == [type |-> "none", size |-> 0, lba |-> FALSE]   \* NoDrive
Disk(size, lba) == [type |-> "IDE_ATA", size |-> size, lba |-> lba]
Disc            == [type |-> "IDE_ATAPI", size |-> 0, lba |-> TRUE]

Plugged(a, b, c) ==
  [u \in Channels \X {0, 1} |-> CASE u = <<0, 0>> -> a [] u = <<0, 1>> -> b [] u = <<1, 0>> -> c
                     [] OTHER -> None]

AllMachines ==
  { \* util/run.sh: the system's disk is the primary slave, the disc the
    \* secondary master, and the controller is in compatibility mode
    [drive |-> Plugged(None, Disk(2147483647, TRUE), Disc), bar |-> [c \in Channels |-> 0]],
    \* an old disk without and a large one with linear addresses
    [drive |-> Plugged(Disk(60000000, FALSE), Disk(268435460, TRUE), None),
     bar |-> [c \in Channels |-> 500]] }

EdgeLbas == {63, 1007, 59999999, 268435455, 268435456}

(* Users and characters. *)
CharCode(c) == CASE c = "a" -> 97 [] c = "A" -> 65 [] c = "b" -> 98 [] c = "1" -> 49 [] OTHER -> 33
LowerCase(c) == IF c = "A" THEN "a" ELSE c
OwnHash(n) == IF n = <<"a">> THEN 12 ELSE -1
Lines == << <<"#", "a", "=">>, <<"a", "=", "g">>, <<"a">>, <<"b", "b", "=", "a", "=">>,
            <<"A", "=", "s">>, <<"b", "b", "b", "=", "y">> >>
Chars == {"a", "b", "1", "backspace", "tab", "newline"}

(* Windows and the cursor. *)
TwoSizes == [w1 |-> <<3, 4>>, w2 |-> <<4, 2>>]
TwoWindows == <<"w1", "w2">>
Arrow == {<<0, 0>>, <<1, 1>>, <<0, 1>>}
ArrowSize == <<2, 2>>

(* The mouse. *)
MoveSet == {<<40, 8, 255>>, <<73, 200, 12>>}

(* Files to open. *)
Paths == [cursor |-> 1, empty |-> 0]
Flags == {{"PRESENT", "READABLE"}, {"PRESENT", "READABLE", "WRITABLE"}}
=============================================================================
