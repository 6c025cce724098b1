---------------------------- MODULE Algorithms ----------------------------
(***************************************************************************)
(* The kernel's algorithms, one call at a time: the arithmetic and paths   *)
(* of FAT volumes, compact discs, text, drawing, and the tables set up at  *)
(* start-up.  None of them keeps state between calls that matters to       *)
(* another; a call is made with inputs from Inputs and its answer compared *)
(* with what it is for.                                                    *)
(***************************************************************************)
EXTENDS Fat, FiniteSets

CONSTANTS
  Inputs,     \* by operation, the sets of arguments it is called with
  Word,       \* 2^32, or a smaller power of two
  DigitBuffer,                      \* 32
  MAX_TEXT_LENGTH, CenterLength     \* 1024 and 1000

T == INSTANCE Text
R == INSTANCE Render
I == INSTANCE Iso WITH SectorSize <- 2, FirstDesc <- 16, LastDesc <- 19,
                       Parts <- 3, Slack <- 1
B == INSTANCE Board WITH Buses <- 1, Slots <- 2, Functions <- 2, MAX_DEVICES <- 4

\* A text that is drawn is no wider than half of the words there are, and no
\* row of it wraps; the frame's pixels can be counted in a word.  The font's
\* bitmap may hold anything.
IsDrawing(x) ==
  /\ x.dim \in Nat \X Nat \X Nat
  /\ x.font.char_width \in Nat /\ x.font.char_height \in Nat
  /\ x.text \in Seq(Nat) /\ x.px \in 0..Word - 1 /\ x.py \in 0..Word - 1
  /\ x.bg.opaque \in BOOLEAN /\ x.fg.opaque \in BOOLEAN
  /\ 2 * (Len(x.text) * (x.font.char_width * x.dim[3])) <= Word
  /\ x.dim[2] + x.font.char_height * x.dim[3] <= Word
  /\ x.dim[1] * x.dim[2] <= Word

IsAlignment(x) ==
  /\ x.dim \in Nat \X Nat \X Nat /\ x.margin \in Nat /\ x.text \in Seq(Nat)
  /\ x.font.char_width \in Nat /\ x.font.char_height \in Nat

\* The entry of a cluster of the volume, with a number that fits an entry, in a
\* table that is on the disk; sectors hold whole 32-bit entries and the type of
\* the volume is known.
IsLookup(x) ==
  LET end == FatSize(x.bt) * x.bt.BytesPerSector
      at  == FatFirstFat(x.bt) * x.bt.BytesPerSector
  IN /\ IsVolume(x.bt) /\ x.bt.BytesPerSector % 4 = 0 /\ FatIdentify(x.bt) # "FAT_UNKNOWN"
     /\ x.cluster \in Nat /\ x.cluster <= FatClusterCount(x.bt) + 1 /\ x.cluster < Places[8]
     /\ (x.cluster + 1) * Width(x.bt) <= 2 * end
     /\ at..at + end - 1 \subseteq DOMAIN x.disk
     /\ \A b \in DOMAIN x.disk : x.disk[b] \in 0..255

\* Strings without their final 0.
IsComparison(x) == x.s \in Seq(1..255) /\ x.t \in Seq(1..255) /\ x.n \in Nat

\* An address of 32 bits, and a number of two decimal digits.
IsBase(n) == n \in Nat /\ n \div 16777216 < 256

TwoDigits == 0..99

\* What the callers of the operations that count and draw pass: strings end
\* with their first 0, a cluster has at most Octet sectors of Octet slots, a
\* base has 32 bits and the clock two digits.
ASSUME AlgorithmsAssumption ==
  /\ Word \in Nat \ {0} /\ MAX_TEXT_LENGTH \in Nat
  /\ \A x \in Inputs.entry : IsLookup(x)
  /\ \A bt \in Inputs.layout : IsVolume(bt)
  /\ Inputs.slot \subseteq Nat \X (0..Octet - 1) \X (0..Octet - 1)
  /\ \A x \in Inputs.segment : IsBase(x.base)
  /\ Inputs.clock \subseteq TwoDigits
  /\ \A x \in Inputs.draw : IsDrawing(x)
  /\ \A x \in Inputs.align : IsAlignment(x)
  /\ \A x \in Inputs.compare : IsComparison(x)

VARIABLES
  call,       \* the operation and its arguments, or Idle
  answer

vars == <<call, answer>>

Idle == [op |-> "idle", of |-> <<>>]

AlgorithmsInit == call = Idle /\ answer = <<>>

\* A call of op with arguments x, answered by value.
Ask(op, x, value) ==
  /\ call.op = "idle"
  /\ call' = [op |-> op, of |-> x]
  /\ answer' = value

Format == \E kind \in DOMAIN Inputs.format : \E x \in Inputs.format[kind] :
  Ask("format", x, T!vsnprintf(x.size, x.text, x.args))

Printed == \E kind \in DOMAIN Inputs.print : \E x \in Inputs.print[kind] :
  Ask("print", x, T!printf(x.text, x.args))

Number == \E n \in Inputs.number :
  Ask("number", n, [decimal |-> T!itos(n, 10), hex |-> T!itos(IF n < 0 THEN -n ELSE n, 16)])

Tokens == \E text \in Inputs.tokens : Ask("tokens", text, T!Tokens(text \o <<0>>, {47}))

Comparison(x) ==
  [mem |-> T!memcmp(x.s, x.t, x.n), str |-> T!strcmp(x.s, x.t),
   strn |-> T!strncmp(x.s, x.t, x.n), fold |-> T!ncsstrncmp(x.s, x.t, x.n),
   copy |-> T!strncpy(x.s, x.n),
   name |-> T!memcpy(T!memset(T!strncpy(x.t, x.n), 0, x.n), x.s, T!strnlen(x.s, x.n))]

Compare == \E x \in Inputs.compare : Ask("compare", x, Comparison(x))

Entry12 == \E x \in Inputs.entry : Ask("entry", x, FatNextCluster(x.disk, x.bt, x.cluster))

Layout == \E bt \in Inputs.layout : Ask("layout", bt, FatIdentify(bt))

Slot == \E x \in Inputs.slot : Ask("slot", x, Located(Location(x[1], x[2], x[3])))

Name83 == \E x \in Inputs.name : Ask("name", x, <<FatConvert83(x[1]), FatConvert83(x[2])>>)

Path == \E x \in Inputs.path :
  Ask("path", x, [read   |-> IDEReadFile(x.tree, x.path),
                  size   |-> IDEFileSize(x.tree, x.path),
                  parent |-> WriteParent(x.tree, x.path)])

Descriptors == \E disc \in Inputs.descriptors :
  Ask("descriptors", disc, I!iso9660ReadVolumeDescriptors(disc))

Disc == \E x \in Inputs.disc :
  LET found == I!iso9660FindFile(x.disc, x.primary, x.path)
  IN Ask("disc", x, [found |-> found,
                     data  |-> IF found.ok /\ ~found.entry.dir THEN I!iso9660ReadFile(x.disc, found.entry) ELSE found,
                     list  |-> I!iso9660ListDir(x.disc, x.primary, x.path),
                     table |-> I!iso9660TraversePathTable(x.disc, x.primary, x.path)])

Drives == \E x \in Inputs.drives : Ask("drives", x, I!cdInit(x))

Dim(x) == R!RenderSetDim(<<0, 0, 0>>, x.dim, <<TRUE, TRUE, TRUE>>)

Drawn(x) == R!RenderPrint(Dim(x), x.font, x.text, x.px, x.py, x.bg, x.fg)

Draw == \E x \in Inputs.draw : Ask("draw", x, Drawn(x))

Align == \E x \in Inputs.align :
  Ask("align", x, <<R!RenderAlign(x.dim, x.font, x.text, x.margin, x.margin, x.how, x.how),
                    R!RenderCenter(x.dim, x.text)>>)

Enumerate == \E config \in Inputs.pci :
  Ask("pci", config, B!pciRegister(B!pciEnumerateDevices(config)))

Clock == \E n \in Inputs.clock : Ask("clock", n, B!bcd2Bin(16 * (n \div 10) + (n % 10)))

Printer == \E x \in Inputs.printer :
  LET ports == B!init_parallel_ports(x.ports, x.hw, x.greeting)
  IN Ask("printer", x, [p \in DOMAIN ports |-> B!parallel_enable_irq(ports[p], x.irq)])

Segment == \E x \in Inputs.segment :
  Ask("segment", x, B!gdtSetEntry(x.base, x.limit, x.access, x.gran))

Lines == \E line \in Inputs.lines : Ask("line", line, B!idtInit[B!Vector(line)])

Return == call.op # "idle" /\ call' = Idle /\ answer' = <<>>

AlgorithmsNext ==
  \/ Format \/ Printed \/ Number \/ Tokens \/ Compare
  \/ Entry12 \/ Layout \/ Slot \/ Name83 \/ Path
  \/ Descriptors \/ Disc \/ Drives \/ Draw \/ Align
  \/ Enumerate \/ Clock \/ Printer \/ Segment \/ Lines \/ Return

AlgorithmsSpec == AlgorithmsInit /\ [][AlgorithmsNext]_vars

-----------------------------------------------------------------------------
(* Look-ups.                                                               *)

\* The entries a path leads to.
Led(tree, path) == {e \in tree : LeadsTo(tree, path, e)}

\* A path of names that fit is the path of the file it leads to: that file is
\* read, its size is the answer, and a new one goes to its directory.  A path
\* that leads to no file has no size, and is opened as none; it reads as
\* nothing unless it goes on behind a file or leads to a directory.
FatPathsLead ==
  call.op = "path" /\ (\A n \in DOMAIN call.of.path : Fits(call.of.path[n])) =>
    LET tree  == call.of.tree
        path  == call.of.path
        front == SubSeq(path, 1, Len(path) - 1)
        files == {e \in Led(tree, path) : ~e.dir}
    IN
    /\ \A e \in files : answer.read = e.id /\ answer.size = e.size
    /\ files = {} => answer.size = 0
    /\ answer.parent = IF front = <<>> THEN {ROOT} ELSE {e.id : e \in {f \in Led(tree, front) : f.dir}}
    /\ \/ answer.read = NULL
       \/ Led(tree, path) # {}
       \/ \E n \in 1..Len(front) : \E e \in Led(tree, SubSeq(path, 1, n)) : ~e.dir

\* Names that fit are told apart exactly when they differ in more than case.
FatNamesDiffer ==
  call.op = "name" /\ Fits(call.of[1]) /\ Fits(call.of[2]) =>
    (SameName83(answer[1], answer[2]) <=> Folded(call.of[1]) = Folded(call.of[2]))

DiscPathsLead ==
  call.op = "disc" =>
    LET disc  == call.of.disc
        parts == I!Components(call.of.path)
        files == {e \in I!Leads(disc, call.of.primary.root, parts) : ~e.dir}
    IN 18 \in DOMAIN disc /\ I!Countable(I!PathTable(disc, call.of.primary)) =>
         /\ answer.found.ok <=> I!Leads(disc, call.of.primary.root, parts) # {}
         /\ \A e \in files : /\ answer.found.entry = e
                             /\ answer.data.ok => answer.data.data[1] = disc[e.lba].data[1]

TokensAreWords ==
  call.op = "tokens" => answer = T!WordsOf(call.of, {47})

\* The volume a disc is read as is described by the last primary descriptor in
\* front of the terminator, with nothing unreadable on the way.
DescriptorsFound ==
  call.op = "descriptors" =>
    LET disc == call.of
        is(lba, type) == lba \in DOMAIN disc /\ disc[lba].iden /\ disc[lba].type = type
        ends == {lba \in 16..18 : is(lba, I!TERMINATOR)} \cup {19}
        end  == CHOOSE e \in ends : \A f \in ends : e <= f
        good == \A lba \in 16..end - 1 : /\ lba \in DOMAIN disc
                                         /\ is(lba, I!PRIMARY) => disc[lba].version = 1
        primaries == {lba \in 16..end - 1 : is(lba, I!PRIMARY)}
    IN IF good /\ primaries # {}
       THEN answer.desc = disc[CHOOSE p \in primaries : \A q \in primaries : q <= p]
       ELSE ~answer.ok

\* A disc in a master drive is found, and no other: where the search says that it
\* checks for a slave (disk.c:166) the same master answers again (disk.c:64).
DrivesFound ==
  call.op = "drives" =>
    IF \E ch \in {"primary", "secondary"} : call.of[ch].master = "ready"
    THEN call.of[answer[1]].master = "ready" /\ ~answer[2]
    ELSE answer = <<"0", FALSE>>

DevicesFound ==
  call.op = "pci" =>
    LET found == B!pciEnumerateDevices(call.of) IN
    /\ {<<found[i].bus, found[i].slot, found[i].function>> : i \in DOMAIN found} = B!Present(call.of)
    /\ Len(found) = Cardinality(B!Present(call.of))
    /\ \A i \in DOMAIN found : B!pciGetOriginalDevice(answer, i - 1) = {found[i]}
    /\ \A class \in {1, 3} :
         LET there == {p \in B!Present(call.of) : call.of[p].class = class} IN
         /\ B!pciFindOfType(answer, class, 1) = {} <=> there = {}
         /\ B!pciGetDevices(answer, Len(found), 0, Len(found)) = found

LinesServed ==
  call.op = "line" /\ call.of \in B!Enabled => answer # "Default"

-----------------------------------------------------------------------------
(* Texts.                                                                  *)

\* A number in a text that is not cut is read as the same number, but the
\* smallest int, which has no digits.
FormatsReadBack ==
  call.op = "format" /\ ~answer.astray /\ call.of.conv = "d" /\ call.of.size > Len(answer.str) + 1 =>
    LET n == call.of.args[Len(call.of.args)] IN
    2 * n # -Word =>
    /\ T!ReadsBack(answer.str, IF n < 0 THEN -n ELSE n)
    /\ (n < 0) <=> \E k \in DOMAIN answer.str : answer.str[k] = "-"

\* A formatter stays with its format and its buffers but when it comes to a
\* conversion that has no letter, or to a number with more digits than it has
\* room for, and then it does not.
FormatsContained ==
  call.op = "format" =>
    (answer.astray <=>
       /\ call.of.size > 1
       /\ \/ call.of.conv = ""
          \/ call.of.conv \in {"d", "x", "X"} /\ call.of.precision > DigitBuffer)

\* The conversions that both formatters print alike: of numbers those that are
\* not negative, for zero without a width, for others without a width on the
\* left, in digits both write alike and no more of them than the number has, or has with
\* zeros to its width;
\* one character without a width; all texts.
Alike(x) ==
  CASE x.conv \in {"d", "x", "X"} ->
         LET n == Head(x.args)
             d == T!DigitsOf(n, IF x.conv = "d" THEN 10 ELSE 16)
         IN /\ n >= 0
            /\ n = 0 => x.width <= 1
            /\ n # 0 /\ x.left => x.width = 0
            /\ x.conv = "X" => \A k \in DOMAIN d : d[k] \in T!Decimal
            /\ x.precision <= Len(d) \/ (n # 0 /\ x.zero /\ x.precision <= x.width)
    [] x.conv = "c" -> x.width <= 1
    [] OTHER -> x.conv \in {"s", "%", "q", ""}

\* They agree on those and on no others: printf gives zero no width and a
\* negative number no digits, pads to the left by the whole width and knows no
\* precision of numbers (printf.c:450-741); vsnprintf has small letters for X
\* and knows neither u, i, o and p nor a length (printf.c:66-326).
FormattersAgree ==
  call.op = "print" =>
    (Alike(call.of) <=> answer = T!vsnprintf_helper(call.of.text, call.of.args))

NumbersConverted ==
  call.op = "number" =>
    LET n == IF call.of < 0 THEN -call.of ELSE call.of
        digits == IF call.of < 0 THEN Tail(answer.decimal) ELSE answer.decimal
        upper  == [k \in DOMAIN answer.hex |-> T!HEXDigits[T!Value(answer.hex[k]) + 1]]
    IN /\ T!atoi(digits) = [value |-> n, len |-> Len(digits)]
       /\ T!strthex(upper) = n % Word

TextsFit ==
  call.op = "format" /\ ~answer.astray =>
    /\ Len(answer.str) < call.of.size
    /\ answer.result <= call.of.size
    /\ answer.result < call.of.size => answer.result = Len(answer.str)

PrintersStrobed ==
  call.op = "printer" =>
    \A p \in DOMAIN answer :
      /\ answer[p].present <=> call.of.hw[p] # "none"
      /\ answer[p].sent # <<>> => p = "LPT1" /\ answer[p].sent = call.of.greeting
      /\ answer[p].irq => answer[p].present
      /\ (B!parallel_read_byte(answer[p], 7) = 7) <=> call.of.hw[p] \notin {"none", "spp"}

\* Every look-up answers with what is there under that name, and with nothing
\* else: files on both kinds of file system (storage.c:27-177, iso9660.c:
\* 299-530), the tokens paths are cut into (string.c:77), the volume and the
\* drive of a disc, PCI devices by class, and the handlers of the interrupt
\* lines that are let through. And texts say what they were made of: numbers
\* written as texts are read as the same numbers (printf.c, string.c:217-295),
\* the two formatters agree and keep to their memory but in the cases named,
\* a formatted text ends inside its buffer (printf.c:338), and the greeting
\* goes to the first printer, if there is one (parallel.c:214).
NamesAndTexts ==
  /\ FatPathsLead /\ FatNamesDiffer /\ DiscPathsLead /\ TokensAreWords
  /\ DescriptorsFound /\ DrivesFound /\ DevicesFound /\ LinesServed
  /\ FormatsReadBack /\ FormatsContained /\ FormattersAgree
  /\ NumbersConverted /\ TextsFit
  /\ PrintersStrobed

-----------------------------------------------------------------------------
(* Numbers.                                                                *)

EntriesRead ==
  call.op = "entry" =>
    LET x == call.of IN
    ~Straddles(x.bt, x.cluster) => IsEntry(answer, x.disk, x.bt, Width(x.bt), x.cluster)

\* A slot is found again exactly when its cluster's number fits half a word.
SlotsLocated == call.op = "slot" => (answer = call.of <=> call.of[1] < HalfWord)

SegmentsRead ==
  call.op = "segment" => /\ B!Base(answer) = call.of.base
                         /\ B!idtSetEntry(call.of.base).base_low = answer.base_low

ClockRead == call.op = "clock" => answer = call.of

\* A number packed into another is read as the same number: entries of the
\* three kinds of allocation table (fat.c:77-131), but one of FAT12 that lies in
\* two sectors, a directory slot in a word, and of no cluster beyond its half
\* (fat.c:310, 325), bases in descriptors (gdt.c:32), the clock (rtc.c:3).
NumbersReadBack == EntriesRead /\ SlotsLocated /\ SegmentsRead /\ ClockRead

-----------------------------------------------------------------------------
(* Bounds.                                                                 *)

RegionsApart == call.op = "layout" => RegionsDisjoint(call.of)

\* Pixels lie in the frame, each has one colour, and, of a text that starts at
\* or behind the frame's left edge, they are in the text's box: all that the two
\* have in common when the colours are opaque.
FitsFrame(x, pixels) ==
  LET frame  == (0..x.dim[1] - 1) \X (0..x.dim[2] - 1)
      box    == {c \in frame :
                   /\ c[1] \in x.px..x.px + Len(x.text) * (x.font.char_width * x.dim[3]) - 1
                   /\ c[2] \in x.py..x.py + x.font.char_height * x.dim[3] - 1}
      drawn  == {p[1] : p \in pixels}
      at(S)  == {c[2] * x.dim[1] + c[1] : c \in S}
  IN /\ drawn \subseteq at(frame)
     /\ \A p, q \in pixels : p[1] = q[1] => p = q
     /\ x.px < Word \div 2 => /\ drawn \subseteq at(box)
                              /\ x.bg.opaque /\ x.fg.opaque => drawn = at(box)

DrawnInside == call.op = "draw" => FitsFrame(call.of, answer)

\* A text that fits with its margin, and is no longer than what is counted of
\* it, stays in the frame.
KeepsMargin(x, place) ==
  Len(x.text) <= MAX_TEXT_LENGTH =>
  LET size == <<Len(x.text) * (x.font.char_width * x.dim[3]), x.font.char_height * x.dim[3]>>
  IN \A d \in {1, 2} :
       size[d] + x.margin <= x.dim[d] =>
         /\ place[d] + size[d] <= x.dim[d]
         /\ x.how = "RIGHT_BOTTOM" => place[d] + size[d] + x.margin = x.dim[d]

AlignedInside == call.op = "align" => KeepsMargin(call.of, answer[1])

\* The strings compare equal exactly when they are, as far as was asked.
ComparesLike(x, found) ==
  LET c(s, i) == T!Byte(s, i)
      live == {i \in 1..x.n : \A j \in 1..i - 1 : c(x.s, j) # 0}
  IN /\ (found.str = 0) <=> (x.s = x.t)
     /\ (found.strn = 0) <=> \A i \in live : c(x.s, i) = c(x.t, i)
     /\ (found.fold = 0) <=> \A i \in live : T!tolower(c(x.s, i)) = T!tolower(c(x.t, i))
     /\ found.mem # 0 => found.str # 0
     /\ Len(found.copy) = x.n
     /\ found.name = found.copy

ComparesRight == call.op = "compare" => ComparesLike(call.of, answer)

\* Nothing reaches past what it was given: the regions of a volume are apart
\* and on the volume (fat.c:12-60), characters are cut off at the frame's edges
\* (render.c:104, 123, 132), aligned texts keep their margins (render.c:198-226)
\* and comparisons stop at the end of a string (string.c:19-215).
StaysInside == RegionsApart /\ DrawnInside /\ AlignedInside /\ ComparesRight
=============================================================================
