# A TLA+ model of DekOS

DekOS is a small 32-bit x86 operating system: one CPU, one address space, no
protection between programs, preemptive round robin, system calls through one
software interrupt, a heap shared by kernel and programs, named reference
resources, file systems on several kinds of drive, users with permissions, and
a window manager that is kernel code run as a process.

## Inventory

| Part | Source | State | Operations | Hard behaviour | What makes it correct |
|---|---|---|---|---|---|
| Scheduler | `src/programs/scheduler.c`, `transfer.s`, `isr/syscall.s`, `isr/exceptions.s` | `processes[]`, `current_pid`, the shared register area at 0x9000 | create, kill, suspend, resume, yield, yield to a pid, timer switch, breakpoint | preemption everywhere interrupts are on; slots reused before they are reaped | each process has its own registers, the kernel's slot survives everything, every runnable process runs |
| Kernel loop | `arch/x86/init.c` | position in the loop | watch the shell, reap dead slots, power off, hand the framebuffer over | preempted between test and deletion | only dead slots are deleted, dead slots are deleted, the machine stops with the shell |
| Inboxes | `isr/system.c` | one ring of messages per slot | SEND, FETCH, UNREAD | full ring, slot reuse between SEND and FETCH | FIFO per slot, nothing lost, nothing from before |
| Heap | `memory/alloc.c` | free map, headers in the blocks | kmalloc, kfree, calloc, realloc | the map is shared and the kernel allocates with interrupts on; arithmetic at the edges | live blocks are disjoint, inside the heap and marked |
| Resources | `resource/main.c` | one doubly linked list of records with an owner each | create, request, release (to the kernel), hand over, protect, load and unload a module, blit, rblit | back pointers after a release, owners that died, the kernel's handover with interrupts on | the list holds each record once; protection holds |
| Users | `user/main.c`, `ini.c` | table of users, filled at boot from ini files | load, add, find, match, log in | a line editor between the user and the comparison | who types name and password is that user |
| Loader | `programs/elf/elf.c` | table of external symbols, section offsets in each image | load, relocate, register and find symbols | failure at any relocation, several copies of one file | every relocated word is what the ABI says, memory linked to is the image's own |
| Open files | `drivers/fs/file.c` | table of open files, a block with the contents and one with the path each | open, read, write, close, load a font | pointers into freed blocks, a slot used again | an open file's blocks are its own |
| Volumes | `drivers/fs/fat.c`, `storage.c` | both allocation tables, directories, clusters, one sector buffer per drive | look up, read, write, test file at boot | a full volume, power-off in a write | what is entered is whole; every cluster in use is in one chain |
| Discs | `drivers/fs/iso9660.c`, `disk.c` | the descriptor and the root directory | find, list, read | packets that need interrupts | a path leads to what has that name |
| Drives | `drivers/dev/storage/ide.c`, `storage.c` | drives found, controller registers, the flag of the interrupt | identify, read, write sectors, packets | polling and interrupts mixed, errors at any time | the sector named is the sector moved; a request ends |
| Input | `drivers/dev/ps2/*.c` | shift and control flags, a partial mouse packet | poll for a key, poll for a packet | two pollers of one output register | a byte goes to the consumer it is for |
| Terminal | `tty/*.c`, `memory/string.c` | cells, cursor | putchar, scroll, gets, printf, draw a text | corrections across rows; arithmetic at the ends of buffers and of the screen | the line returned is the line shown; nothing is written outside |
| Window manager | `wm2/*.c`, `wm/gdi2.c` | display objects, saved backgrounds, frame buffer and screen | draw, follow the mouse, pick up, drop | kernel code that allocates and reads files with interrupts on; overlapping backgrounds | the screen shows the windows in their order and the cursor on top |
| Board | `dev/pci.c`, `parallel.c`, `gdt.c`, `idt.c`, `rtc.c` | tables filled at boot | enumerate, look up, set entries | edges of fields and of tables | devices, lines and printers are found where they are |

Paths in this table are below `src/src/`; `PROJECT.json` lists every part, the
unmodelled ones too, and the hazards of each at their lines.

### How the parts interact

- **System calls.** A program executes one software interrupt; the entry
  (`isr/syscall.s`) disables interrupts and saves the registers, the handler
  (`isr/system.c`) calls the component, and an `iret` returns. A call is never
  preempted, so the calls of all programs are serialised. This is why a system
  call is one action in every module.
- **Preemption.** The timer switches contexts wherever interrupts are on: in
  programs, in the kernel's loop (`arch/x86/init.c:318-351`) and in the window
  manager, which is kernel code run as process 2. These two use the process
  table, the pool, the heap and the drives without a lock. This is where a step
  of the code has to be cut into several actions.
- **Slots.** A pid is an index of the process table. Inboxes live in the slot,
  resources name their owner by it, and a slot is used again as soon as it is
  not valid.
- **Ownership of memory.** The loader allocates image and stack of a program
  and the slot owns them; the kernel's loop frees them when it deletes the slot.

## Modules

| Module | Models | Composes or extends |
|---|---|---|
| `Sched` | process table, contexts, process system calls, timer, kernel loop | |
| `MCSched` | the sets of calls its runs allow | `Sched` |
| `SchedProofs` | theorems about `Sched` | `Sched` |
| `Allocator` | what malloc and free promise | |
| `Heap` | the bitmap allocator, atomic and preempted | implements `Allocator` |
| `MCHeap`, `HeapProofs` | request sizes; theorems | `Heap` |
| `Mailbox` | what SEND, FETCH and UNREAD promise | |
| `Inbox` | the rings in the process slots | implements `Mailbox` |
| `MCInbox`, `InboxProofs` | message sizes; theorems | `Inbox` |
| `Pool` | the resource list and the calls on it | |
| `MCPool`, `PoolProofs` | instances; theorems | `Pool` |
| `Store` | what writing files promises, failures and power-offs included | |
| `Volume` | a FAT volume, one disk access at a time | implements `Store` |
| `MCVolume`, `VolumeProofs` | a small volume; theorems | `Volume` |
| `Elf` | loading and linking | |
| `Ata` | IDE driver, drive table, drives | |
| `Ps2` | keyboard, mouse, their controller | |
| `Terminal` | screen, line editor, users and login | |
| `Desktop` | the window manager's process | |
| `OpenFiles` | open files and font loading | |
| `Parts` | chooses one of the six above and runs it | `Elf`, `Ata`, `Ps2`, `Terminal`, `Desktop`, `OpenFiles` |
| `MCParts` | files, machines, keys, windows of its run | `Parts` |
| `ConsoleProofs` | theorems about `Ps2`, `Terminal` and `Desktop` in `Parts` | `Parts` |
| `PartsProofs` | theorems about `Elf`, `Ata` and `OpenFiles` in `Parts`, and the types of all six | `ConsoleProofs` |
| `Fat` | arithmetic and paths of FAT volumes | `Text` |
| `Text` | formatters, string functions, conversions | |
| `Iso` | CD drives and ISO 9660 | `Text` |
| `Render` | text in the frame buffer | |
| `Board` | PCI, printer ports, descriptor tables, clock | |
| `Algorithms` | one call of any of these and what it should answer | `Fat`, `Text`, `Iso`, `Render`, `Board` |
| `MCAlgorithms`, `AlgorithmsProofs` | the inputs; theorems | `Algorithms` |

Names of actions and operators are those of the code where TLA+ allows it.
Operators whose comment begins with "Mutant of" are plausible bugs of a
definition; no specification uses them. Each property is shown to fail when its
definition is exchanged for the mutant, so that none holds for an idle reason.

### Sched

`procs` is `processes[]`, `current` is `current_pid`, `kpc` and `kidx` are where
the kernel's loop is. A set of registers is abstracted to the *thread* it
belongs to, the program whose code continues when it is loaded; `running` is
what is in the CPU and `procs[i].ctx` what is saved in slot `i`. The question
the abstraction keeps is whose registers are where. `mem` and `argvs` hold the
programs whose image and argument vector are allocated.

| Action | Code |
|---|---|
| `Tick` | the timer entry: save, choose, load (`transfer.s`, `scheduler.c:260-300`) |
| `Exit`, `Yield`, `YieldTo`, `Kill`, `Create`, `Resume`, `Suspend` | the cases of `isr/system.c` with the scheduler functions they call |
| `CreateRefused` | the loader when no slot is free or the user may not launch: the image stays allocated |
| `Breakpoint` | `int3` (`isr/exceptions.s`) |
| `KernelPoll`, `KernelScan`, `KernelReap` | the loop of `kmain`: a poll of the shell, one look at `delete` with interrupts on, one deletion with interrupts off |

`KernelScan` and `KernelReap` are two actions because the code tests before it
disables interrupts; a whole life of another process fits in between.

### Heap

`map`, `hdr` and `blocks` are the bitmap, the headers and what callers hold.
The callers in `Atomic` call with interrupts off, and `Malloc` and `Free` are
one action. The callers in `Preempted` are cut at every access to the bitmap:
`Search` tests one bit, `Load` and `Store` are the two halves of one `|=` or
`&= ~`. `Word` is the arithmetic of 32-bit unsigned integers on a smaller word;
`MapUnits` rounds up and `UnmapUnits` down, as in the code.

`Allocator` knows blocks and gaps only. `IsAllocator` says that the bitmap
implements it: a block is handed out of units nobody holds, a free returns all
of it, and a panic happens only when no gap is large enough.

### Inbox

A ring per slot with one-byte `head`, `tail` and `count`. `ByteSize` is 256 in
the code and stays a constant, so the wrap-around of a byte lies within the
bounds of a run. A message is its sender and its size, because bytes travel
unchanged and only the answers tell sizes apart. `Kill` leaves the ring as it
is; `Reap` and `Create` zero it. `current` is who may call: no call asks whether its
caller is valid, and a process that has killed itself goes on sending and fetching
until the next `Switch`. `IsMailbox` says that the rings are bounded
queues per process, and covers the values the calls return.

### Pool

`first` and the `next` and `prev` fields are `grResources.FirstChild` and the
sibling pointers. A call that refuses changes nothing and is no step.
`Unlink` is `ResourceUnlinkK` as written, with the back pointer it leaves out.
`KernelTests` and `KernelGives` are the two halves of the framebuffer's
handover, which runs with interrupts on. `Protected` of a new record is
whatever `malloc` returned, so it is a choice. `RREQ` is modelled with its search
by rid over the whole list, and the list is the least set closed under `next`,
which is what the loop over `NextSibling` visits.

### Volume and Store

`fat` and `copy` are the two allocation tables, `dir` the slots of the
directories, `data` what the clusters hold; `pc` and `job` are where the write in
progress is. Each sector put on the disk is one action: the cluster's contents,
the first table, the second table, the directory slot. `PowerOff` may come
between any two; it loses `job` and leaves the disk, and the next boot runs
`FatTest` again. A file's content is known by the number of the write that made
it. `Store` lets a write take effect in one step or never; the refinement reads
the files through `FatLocateInDir` and the first table, as the code would, so
that the step of `Store` is the write of the directory slot and every other
write of a sector is a stutter. `Store` allows a write over an existing name to
be answered with success and to leave the old file: that is what the code does,
and the run `volume_overwrite` shows it against the message the code prints.

### Elf

`Load` copies a file; `StageOne` gives each uninitialised section a block;
`elfDoRelocation` and `RelocationFails` are one relocation each; `Register` adds
the kernel's next symbol between loads, growing the table when it is full. Words
count modulo a small number instead of 2^32. `ImagesLinked` computes every
relocated word a second time from the ELF ABI: the symbol's address in this
image plus the addend the file holds, less the word's own address for `PC32`.

### Ata

A request is `Begin`, `Command` (the registers), and then polls, transfers and
interrupt waits as in `IDEAccess` and `IDEAtaPIRead`. The drives (`DriveReady`,
`DriveFails`) work between any two steps of the driver, may fail during any command
that can, and interrupt unless `nIEN` is set. `IDEInitialise` is run on each machine
of the instance: the drives of `util/run.sh`, and an old disk without linear
addresses beside a large one. What a drive does with its registers is the ATA
standard's (`Named`). `failed` and `put` are what became of a request: that a drive
failed in it, and which sectors drives have put on their disks, with what
contents. A drive may fail after it has been given the data, when the driver no
longer looks. `TransferIsSector` compares both with what was asked and with the
answer: a read that is answered 0 has the sector, one whose drive failed has an
error and zeroes; a write has put the buffer where it was asked to and nowhere else,
or, when the drive failed, nowhere, and that is answered 0 too.

### Ps2

`Startup` is the conversation of the four functions `kmain` calls. Readers are
GETCH (a system call, one action), the kernel's own `ps2_getchar` (cut where
interrupts are on), and the window manager's mouse reader, cut between status and
data. `disturbed` notes that a wait of the start-up gave up although an answer was
under way, or that a user typed before the end: what follows then depends on
replies taken for packets, and the properties do not claim anything for it.

### Terminal, Desktop, OpenFiles

`Terminal`: the screen is its cells row by row with the cursor as their index;
each character typed runs the loop of `gets` once, with its echo, and `gets` drops
what is neither printable nor a correction nor a newline. A prompt's or a
message's words are one character each, its newlines are kept. `typed` keeps what
was typed, so that `UsersLogIn` can say who should be logged in.

`Desktop`: a pixel is the name of what was drawn there. `kmain` registers the
windows one by one after it has started the process, and a disc access in between
leaves interrupts on, so `Register` and `MarkDirty` fall between any two steps of
the process. That is cut where it reads the list: `Draw`, a turn of the loop that
takes the windows away (`TakeAway`), a turn of the loop that puts them down
(`PutDown`), and what lies between and behind these loops (`TakenAway`, `AllDown`);
`Drop` starts the same loops for a window that was moved. `Composed` and
`FrontUpToDate` compare the frame buffer with the stacking order and the screen
with the frame buffer whenever neither loop is under way (`Complete`).

`OpenFiles`: `live` are the blocks in use; what `FWrite` computes from a pointer
into the block it has just freed is a choice over all positions, and so is the
name a path without a final 0 is written under. `FRead` goes on behind the end as
the code does, and `FilesOwnBlocks` claims nothing about how far it goes: it is
about whose the blocks are and what they hold.

### Algorithms

One action per algorithm: an input from `Inputs`, and the answer. `Fat`, `Text`,
`Iso`, `Render` and `Board` are operators translated from the code; the properties
hold reference definitions, written without looking at the code's loops: where a
path leads (`Leads`, `LeadsTo`), the words of a string (`WordsOf`), the pixels two
rectangles have in common, the number digits stand for. The properties are three:
`NamesAndTexts` has what is found by name and what is formatted, `NumbersReadBack` what
is packed into fields and taken out again, and `StaysInside` what is laid out, drawn
and compared. Where the code falls short of its reference the property says exactly
where: `FormattersAgree` and `FormatsContained` are equivalences, so that a difference
more, or one less, violates them. Names are byte sequences, and directories are
searched by the 8.3 name, folded, as `fat.c:178` does; channels have a master and
a slave. A formatter that leaves its own memory is `Astray` from there on.

## Runs

Sizes are those of one run; all passing runs explore their state space fully.

| Run | Asks | Distinct states |
|---|---|---|
| `sched_any` | four slots, five programs, every call: the kernel's slot is safe, no image is freed twice, a pid keeps its process | 1414447 |
| `sched_live` | without directed yields and kills of one's own pid: registers stay with their process, nothing freed runs; under fairness everybody runnable gets the CPU, dead slots are reclaimed, the machine stops with the shell | 61211 |
| `heap_atomic` | two callers, sizes at every edge: no two blocks share a byte, marks and headers stay right | 133828 |
| `heap_exact` | one caller, bit by bit, sizes in whole units: the heap is `Allocator` and leaks nothing | 38925 |
| `inbox_any` | three slots, rings of two: the rings are `Mailbox` | 799452 |
| `pool_any` | two pids and the kernel, three resources: none is lost, back pointers are right or absent, protection holds, the display is served | 61296 |
| `volume` | a volume that fills up, power-offs anywhere: chains are disjoint, files whole, the volume is `Store` | 47982 |
| `parts` | the six parts, each alone: images linked, sectors right or drives failed, requests answered, packets and keys in order, lines and logins right, the screen composed, blocks owned | 408312 |
| `algorithms` | every input of small sets: names lead to what they name and texts say what they were made of, packed numbers read back, nothing is written outside | 27155 |
| `sched_yield_to` | violated: a yield to a pid returns into its caller under the other pid | |
| `heap_race` | violated: the window manager and a program get the same units | |
| `volume_overwrite` | violated: a file written over another is not what is read | |

The three violated runs each check one sentence that the sources say of the
program; `PROJECT.json` quotes the sentence and the line that breaks it.

### Bounds, and why they are enough

- **Sched.** Four slots are the kernel, the shell, the window manager and one
  more; five programs let a slot be used, die and be used twice more while the
  loop stands at it. The shell's slot and the window manager's can be reused as
  well, so three slots change hands at once. The theorems cover all sizes.
- **Heap.** A word of 256 and a heap of seven units let sizes wrap, requests be
  larger than the heap and runs be full. `heap_exact` uses nine units, the
  fewest for which the bitmap uses a second byte, so that a run crosses a byte.
- **Inbox.** A ring of two with bytes of three values: indices wrap at the ring,
  the count meets the largest value of its byte, and entries are used again.
  Messages fit or are one byte too large; buffers fit or are one too small.
- **Pool.** Three resources are a first, a middle and a last. Two pids suffice
  for every call that tells an owner from another.
- **Volume.** Seven clusters, two of them directories of three slots in two
  sectors: two files of two clusters fill the volume, a directory fills up, and a
  file crosses from one sector of the table to another. Five writes and three
  boots let a write fail halfway, a later one go on in what is left, and a
  power-off fall into each.
- **Parts.** The six parts share no variable: none of them reads or writes what
  another does, so a run of all six at once would only multiply their states.
  One of them is chosen at the start. Two loads of five files let one file be
  loaded twice and a failed load lie between others; two requests meet drives in
  the state the first left; sectors lie on both sides of each limit; two keys and
  two packets interleave in every way; a screen of three rows of three scrolls
  within one line, and six characters are a login that succeeds with one to correct, or
  two that fail; files hold two bytes and no read begins more than two behind
  a file's start (`Farthest`), which is enough to read behind the end once and
  to write from there; the display has three by two pixels, so that two windows and
  the cursor overlap in every place and reach over each of its borders, and three
  moves let a window be picked up, carried and put down while the other registers.
- **Algorithms.** Inputs are products of small sets chosen so that each branch
  of the code is taken, edges included: full buffers, tables with an entry that
  crosses a sector, names that fill their field, coordinates left of the screen.
  Numbers are zero, negative, small and the smallest there is, in every letter
  either formatter knows, with widths and precisions on both sides of what they
  need; formats end in a `%`; paths lead through files and into directories; names
  are cased both ways and spill over eight letters; every drive of a channel is
  missing, of another kind, empty or ready. PCI is given no more devices than its
  table holds (see below). `DigitBuffer` is 5 instead of 32, `MAX_TEXT_LENGTH` and
  `CenterLength` are 2 instead of 1024 and 1000, so that small inputs exceed them.

`CHECK_DEADLOCK FALSE` stands in the runs of `Sched`, `Heap`, `Volume` and `Parts`:
the machine is powered off, the heap panics, and the others stop when the
bounds on writes, requests, loads, keys and characters are used up.

### Fairness

`FairSpec` of `Sched` asks for `WF(Tick)`, the timer chip keeps interrupting,
and `SF(KernelStep)`: the kernel's thread is given the CPU again and again, as
round robin ensures, and a time slice is long enough for a step of its loop.
Programs promise nothing. In `Pool` the handover's two halves are weakly fair,
for the kernel's process is one that runs again and again: `GetsTheCPU` of
`Sched` with `KernelSlot`, which says that slot 0 is always runnable.
`DisplayServed` allows the framebuffer to go back to the kernel in the next
step: nothing in the code keeps a program from returning it.
In `Parts` the part `Ata` is fair to the driver, which runs until its request
is answered, to each channel's drives, which finish or fail what they were told,
and to each channel's interrupt while the processor takes interrupts:
`IDEAtaPIRead` turns them on itself before it waits (`ide.c:386`). The other parts
are checked for safety only.

## Proofs

All theorems hold for every value of the constants within the named
assumptions, which TLC evaluates too.

- **Sched** (`SchedAssumption`: at least three slots and three threads).
  `KernelSlot` alone is not inductive. `TableInv` adds that a valid slot holds a
  real register set, that EXIT's loop is saved into dead slots only, and that the
  reaper never stands at slot 0. `ImageInv` adds to `ImagesOwned` that what is
  in the table was loaded before, so a new program's image is new. `IsolationInv`
  adds to `ContextIsolation` that the process in the CPU is valid unless it has
  just called EXIT; its theorems assume that the calls exclude `YIELD_TO` and
  `KILL_SELF`, and `sched_yield_to` shows that the first is needed.
- **Heap** (`HeapAssumption`: sizes are not within 16 of the word's end).
  `HeapInv` is `TypeOK`, `Disjoint` and `Accounted` together: that blocks stay
  apart needs every block's units to be marked, and that needs frees to clear no
  more than the block, hence headers to be intact. For the refinement `ExactInv`
  adds that the bitmap holds nothing but blocks, which is true only when sizes
  are whole units. The theorems assume that no caller is preempted, and
  `heap_race` shows why. `MapCoversHeap` is the arithmetic of `memInit`.
- **Inbox** (`InboxAssumption`: a full ring fits its byte). `InboxInv` is the
  types with the equation of head, tail and count. `AheadFacts` and `ByteFacts`
  turn the one-byte modular arithmetic into steps around the ring; with them
  `EnqueueFacts` and `DequeueFacts` show that the two operations append and take
  the head, and `IsMailbox` follows action by action.
- **Pool** (`PoolAssumption`). `LinkInv` is `TypeOK`, `Linked` and `Pooled`: a
  release keeps the list whole because no two records share a successor, and
  keeps that because back pointers that exist are right. That it survives the
  missing back pointer rests on the refusal of such records.

- **Heap, bit by bit.** `BitInv` follows one caller through `Search`, `Load` and
  `Store`: how far the search has come, which units of the block are marked
  already or cleared already, and that the word just loaded is still the bitmap's.
  With it the bitmap is `Allocator` (`BitwiseIsAllocator`) and marks nothing but
  blocks and the call in progress (`NothingIsLeaked`), for one caller and sizes in
  whole units; both conditions are needed, as `heap_race` and the rounding of
  `kfree` show.
- **Volume** (`VolumeAssumption`: there are clusters, slots and writes). A cluster's
  table entry and contents say only which write was there last, so `VolumeInv`
  follows owners: no cluster is ever freed, and the number of the write that took
  it says whose it is. It has the chain the write in progress has built so far,
  the entered files' chains, each complete and ended, and the two tables' agreement
  but for the sector being put. `ChainsDisjoint` and `FilesWhole` follow, and since
  directories are filled from the front (`Packed`) what `FatLocateInDir` finds is
  what was entered, so that every step is a step of `Store` or a stutter
  (`VolumeIsStore`).
- **Elf** (`ElfAssumption`: `Files` are `WellFormed`, which is what a compiler and
  a linker emit and the code does not check: sections inside the file,
  relocations at distinct words of a section, symbols of sections that exist).
  `ImagesInv` has the types, that what images and the load in progress hold is
  apart and allocated (`Apart`, `Held`), that two relocations never write one
  word (`Distinct`), where sections lie (`Offsets`), and that every word already
  relocated is the ABI's and every other still the file's (`Relocated`). The theorem
  is for every number of loads; `SymbolsFound` is about the first symbol of a name,
  as `elfSymbol` is.
- **Ata** (`AtaAssumption`: drives that are addressed by cylinder, head and sector
  are no larger than that, and a sector number has 32 bits). `DiskInv` says that from
  the command on the registers name the sector asked for, that the buffer of a read is
  clear until it holds that sector, that nothing is put but the buffer in that sector,
  after the data was sent and unless the drive failed, and that a read whose drive
  failed does not get past the poll that follows. `BytesJoin`, `BitsJoin` and `GeometryJoins` are
  the arithmetic of the three ways a number is cut into registers.
- **Ps2** (`Ps2Assumption`: scan codes and packets are bytes, and a packet's first
  has bit 3). `KeyInv` has `Wire`, that the output buffer shows a queue that is
  not empty and that a byte of the mouse which was seen stays there until it is read;
  `Said`, that what the keyboard and the controller say is a reply, which types
  nothing, or one of the presses; and `InOrder`, which relates what was handed
  out, what is queued and what was pressed. `PacketInv` says what each queue holds at
  each of the 42 steps of the start-up (`Conversation`), so that nothing is left of
  the replies when it ends, and that packets are whole from then on (`InSync`).
  Both leave out what follows a disturbed start-up, as the properties do.
- **Terminal** (`TerminalAssumption`: a line and its prompt leave a row of the
  screen, 80 columns and 20 rows for lines of 30). `LineInv` is `LineOnScreen` with
  what keeps it: the line has room for one character more, so that the row lost
  when the screen scrolls never holds the prompt. `GlyphShown`, `BackShown` and
  `PromptShown` say what a character, a correction and a prompt do to what stands
  before the cursor. `LoginInv` says for each user whose name can be typed what
  stage and buffer are after every beginning of his name, and of his password
  behind it. That the table's names are sequences at all follows the loop over the
  lines of the file (`DefiningTyped`), a recursive function whose existence is
  proved by the least number for which it fails (`LoopExists`).
- **OpenFiles** (`OpenFilesAssumption`). `FilesInv` says that closed slots are as at
  the start, that blocks of open files are live and different, and that a font's
  block is never an open file's: that is why the slot `FAllocate` finds brings
  no old pointer with it.
- **Desktop** (`DesktopAssumption`: the display has pixels, and every window is
  registered once and has a size). `DesktopInv` speaks of the picture below the cursor,
  which is what taking the cursor away would leave (`Below`): no cursor is in it, nor
  in any window's background (`CursorApart`); in it the windows that are down lie one
  over the other as far as the loop has come (`Layered`); and a pixel the screen
  does not show yet lies under the cursor or under a window still to be put down, so
  that one of the later commits takes it (`Uncommitted`). In a move the loop that
  takes away commits too, so there only the cursor is left. With one window a step
  nothing is folded over the list, and a window that registers in the middle of a loop
  stands before those the loop still visits. The theorem is for every number of windows,
  every size, and every place, on the display or off it.
- **Types of the parts.** `PartsTypeOK` is not inductive either: that the lines of
  `gets` never fill their buffer, that a pixel kept is never the cursor, or that a
  symbol is in the table of symbols follows from the invariants above. `MemoryTyped`,
  `DriveTyped`, `TerminalTyped`, `BootTyped`, `KeysTyped` and `CursorTyped` add what
  these do not say: the table of external symbols is no fuller than it is large, an
  answer of the driver is one of those the error bits have, the start-up stands at one
  of its steps or is over, and the pointer stays on the screen.

- **Algorithms** (`AlgorithmsAssumption`: what callers pass. Boot sectors have no empty
  sectors or clusters and leave room for data; an entry that is looked up is that of a
  cluster, in a table that is on the disk, and sectors hold whole 32-bit words; a text that is drawn is no wider than half of the
  words there are; strings end with a 0; bases have 32 bits, the clock's
  numbers two digits.) `Answered` says that between a call and its return the answer is
  the operator's value for an input of the sets, so that what remains is a theorem about
  each operator. `NumbersReadBack` is shown by uniqueness of quotient and remainder
  (`Division`, `Unique`, `Divided`): half byte by half byte for the three widths of
  entries (`Entry12Digits`, `Entry16Digits`, `Entry32Digits`), with `WordRead` for the
  sector and the offset the code computes. `StaysInside` is `Regions`, where the rounding
  up of the root directory is what keeps it apart from the data; `DrawnRight`, that no
  two columns of a text are the same word (`Apart`), hence no pixel has two colours,
  that none is outside the frame or the text's box, and with opaque colours that none
  of the box is missing (`BoxFilled`); `MarginKept`, for texts no longer than
  `MAX_TEXT_LENGTH`; and `ComparesAlike`, by the first
  place at which the loops stop (`StopFacts`).

Only model-checked:

- The liveness properties (`GetsTheCPU`, `Reclaimed`, `PowersOff`, `DisplayServed`,
  `AtaAnswers`), which are beyond the prover.
- `NamesAndTexts` of `Algorithms`: paths, tokens, descriptors and formatted texts are
  computed by recursion over sequences, and what that computes for every input is an
  induction over data, which the provers cannot instantiate.

## Known differences between text and code

Those with a run are above. The following were met while modelling and have
none; the models do what the code does.

- **Reaper.** `arch/x86/init.c:335` tests `delete` with interrupts on: a process
  created in the slot before the `cli` is deleted alive (`KernelReap`).
- **Heap.** `memory/alloc.c:118`: allocations round up and frees round down, so a
  block whose size is no multiple of 16 leaves a unit marked for good; `realloc`
  reads the old size from the last word of the header (`alloc.c:198`), while
  `kmalloc` writes it in the first (`alloc.c:143`). Nothing calls `realloc`.
- **Resources.** `resource/main.c:484` leaves out a back pointer: after an older
  resource is deleted its owner cannot delete the newer one.
  `resource/main.c:356-360` describes the cleanup of a dead owner's resources;
  nothing calls `ResourceCleanupK`. DUNLOAD frees the module before the release
  that may be refused. The kernel's handover of the framebuffer can take it
  from a program that got it by RREQ between the test and the assignment.
- **Messages.** A process that has killed itself goes on sending until the next switch
  (`isr/system.c:145-154, 216`). `isr/system.c:215` says "max size of 1024"; SEND refuses more than
  `MAX_MSG_SIZE`, 256.
- **Symbols.** `elfSymbol` (`programs/elf/elf.c:452-492`) subtracts a link address
  it guesses from the entry and leaves out the section's place in the file: right
  for images laid out in the file as they are linked, as the programs are
  (`SymbolsFound`), and wrong for relocatable ones; an absolute symbol is moved
  with the image.
- **Drive table.** `storage.c:314` stores in an entry whether its drive is master
  or slave, and `storage.c:17` uses that as an index into the drives found: an
  entry may bear the model and size of one drive and read another.
  `TransferIsSector` speaks of the drive that is addressed.
- **Window manager.** Windows are taken away in the order in which they were put
  down (`wm.c:118-123, 222-227`), not in the opposite one. What an earlier window kept
  may then come back where no window draws any more, and at the first redraw what
  `malloc` left in `Behind`: `Composed` claims nothing about pixels no window covers.
  `init.c:159` allocates `sizeof(Display)`, the size of a pointer, for the display.
- **Keyboard.** `ps2_getchar` (`keyboard.c:21-30`) returns the character a static
  variable holds, which may be another reader's by then: `KeysInOrder` holds as
  long as processes alone read the keyboard.
- **Formatters.** `printf` prints of a negative number its sign alone, of zero one
  digit without its width, and knows no precision of numbers; a number on the left it
  follows by its whole width (`FormattersAgree`); a character has no width.
  `vsnprintf` puts zeros before the sign, writes `%X` in small letters, `%x` of a
  negative number and the smallest `int` without digits, and knows neither `u`, `i`,
  `o` and `p` nor a length; its measuring pass is given a size of 0 and measures
  nothing. `Alike` is the list of what both print the same.
- **Formatters' memory.** A precision of more than 32 writes behind the buffer of
  digits (`printf.c:7, 104-108`), and both formatters follow a format that ends in a `%`
  behind its end (`printf.c:310-335`). `FormatsContained` says that nothing else does.
- **Texts on the screen.** `RenderAlign` and `RenderCenter` count no more than 1024 and
  1000 characters (`render.c:179, 190`); a longer text to the right leaves the frame.
- **Disk writes.** `IDEAccess` ignores what the polls of a write say (`ide.c:369, 377`): a
  write that the drive failed is answered 0, and its sector is what it was.
- **Open files.** `FRead` never lowers `remaining` (`file.c:81-85`): a file never ends,
  and reads behind its end copy what lies behind its block;
  `FWrite` computes the position from a freed block; `FClose` writes
  under a path that has no final 0 (`file.c:50, 65, 108`).
- **FAT paths.** `IDEReadFile` (`storage.c:51-55`) remembers the last directory it went
  through, so that a name behind a file is looked up beside that file; a path that
  ends in a directory looks the last name up in the directory itself, and reads an
  empty buffer when it is not there. A name of more than eight letters goes on in its
  extension (`fat.c:425-433`), so that two spellings are one name: `FatNamesDiffer` and
  `FatPathsLead` are claimed for names that fit (`Fits`).
- **CD drives.** `0xA0 & (slave << 4)` is 0 for both drives of a channel
  (`disk.c:23, 64, 106`): a slave is never asked, and
  `DrivesFound` says that the masters are found and no slave is.
- **Discs.** `iso9660.c:456` computes a directory's number from an offset as if
  names had no length; `DiscPathsLead` holds for tables where this comes out
  right (`Countable`).
- **FAT.** A directory slot's place is packed into a word that loses the upper
  half of the numbers of clusters from 65536 on (`fat.c:310`): `SlotsLocated` says that it
  is found again below and only there. A write that fails leaves its clusters taken (`fat.c:259`). `FatNextCluster12`
  reads one sector, so an entry that begins with a sector's last byte loses its second
  half (`fat.c:117-118`); `EntriesRead` leaves those out (`Straddles`).
- **PCI.** `pciRegister` (`pci.c:293`) does not look at the size of its table.

## Not modelled, and what is left

- BLIT and RBLIT copy contents of resources, which no property of `Pool` looks at.
- `realloc` and `calloc` have no callers; the contents of blocks are not modelled.
- The composition of `Sched`, `Inbox` and `Pool` over one process table, and of
  the window manager's file reads with programs' calls over one sector buffer.
- FAT clusters of more than one sector, and `FatRead` beyond the end of a file in
  them.
- Paging is never switched on and no page is ever handed out (`pde.c`, `pmm.c`).
- The old window manager (`wm/main.c`) is compiled out; `wm/gdi.c` and most of
  `gdi2.c` compute pixels that nothing reads back.
- The speaker, the serial port, CPU features, the wording of PCI classes and of
  messages, start-up messages in Zig and Fortran: output only.
- The Rust files and `ex.c`, which nothing calls; the user library, one system
  call per function; the build scripts.

