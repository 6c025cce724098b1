------------------------------- MODULE Parts -------------------------------
(***************************************************************************)
(* Six parts of the kernel that share no state: the loader, the disk       *)
(* driver, the keyboard and mouse, the terminal, the window manager and    *)
(* the open files.  No variable of one is read or written by another, so   *)
(* each behaves beside the others as it does alone; one of them runs and   *)
(* the others stay in their first states.                                  *)
(***************************************************************************)
EXTENDS Integers, Sequences

CONSTANTS
  Files, WORDS, Addresses, Symbols, CAPACITY, LINK, LIMIT, MaxLoads,     \* Elf
  Machines, Lbas, MaxAsked,                                              \* Ata
  Keys, Moves, MaxKeys, MaxMoves, Width, Height,                         \* Ps2
  TTY_W, TTY_H, USER_NAME_LENGTH, PASS_LENGTH, MAX_USERS, MAX_LOGIN_ATTEMPTS,
  MAX_CONFIG_VARS, MAX_VAR_NAME, HASHES, Code(_), Folded(_), UsersIni, Hashed(_),
  TypedChars, MaxTyped,                                                  \* Terminal
  DisplayW, DisplayH, Order, Sizes, CursorSize, CursorImage, MaxMoved,   \* Desktop
  MAX_FILES, Blocks, Contents, Modes, MaxSize, Farthest, NoBlock, FontBlocks         \* OpenFiles

VARIABLES
  part,    \* the part that runs
  externs, capacity, heap, words, images, load,
  plugged, IDEDev, Drives, regs, busy, drq, err, phase, quiet, line, IF_, Invoked, req,
  BufferA, failed, put, package, asked,
  source, ctl, kbd, aux, next, muted, reporting, boot, shifted, ctrl, keyboardPressed,
  character, getchar, taken, pressed, reader, packet, cursor, moved, disturbed,
  output, at, users, stage, entered, name, attempts, user, typed,
  front, framebuffer, behind, mouseSave, surface, mouseAt, mx, my, middle, hovered,
  head, linked, dirty, painted, loop, obj, old, movedMouse,
  _iofiles, live, stored, fonts

E == INSTANCE Elf
A == INSTANCE Ata
P == INSTANCE Ps2
T == INSTANCE Terminal
D == INSTANCE Desktop
F == INSTANCE OpenFiles

ASSUME PartsAssumption ==
  /\ E!ElfAssumption /\ A!AtaAssumption /\ P!Ps2Assumption /\ T!TerminalAssumption /\ D!DesktopAssumption
  /\ F!OpenFilesAssumption

elfVars ==
  <<externs, capacity, heap, words, images, load>>
ataVars ==
  <<plugged, IDEDev, Drives, regs, busy, drq, err, phase, quiet, line, IF_, Invoked,
    req, BufferA, failed, put, package, asked>>
ps2Vars ==
  <<source, ctl, kbd, aux, next, muted, reporting, boot, shifted, ctrl, keyboardPressed,
    character, getchar, taken, pressed, reader, packet, cursor, moved, disturbed>>
terminalVars ==
  <<output, at, users, stage, entered, name, attempts, user, typed>>
desktopVars ==
  <<front, framebuffer, behind, mouseSave, surface, mouseAt, mx, my, middle, hovered,
    head, linked, dirty, painted, loop, obj, old, movedMouse>>
openFilesVars ==
  <<_iofiles, live, stored, fonts>>
vars == <<part, elfVars, ataVars, ps2Vars, terminalVars, desktopVars, openFilesVars>>

Others(p) ==
  /\ p # "elf"      => UNCHANGED elfVars
  /\ p # "ata"      => UNCHANGED ataVars
  /\ p # "ps2"      => UNCHANGED ps2Vars
  /\ p # "terminal" => UNCHANGED terminalVars
  /\ p # "desktop"  => UNCHANGED desktopVars
  /\ p # "files"    => UNCHANGED openFilesVars

\* One part is chosen to run.
PartsInit ==
  /\ part \in {"elf", "ata", "ps2", "terminal", "desktop", "files"}
  /\ E!ElfInit /\ A!AtaInit /\ P!Ps2Init /\ T!TerminalInit /\ D!DesktopInit /\ F!OpenFilesInit

Turn(p) == part = p /\ UNCHANGED part /\ Others(p)

PartsNext ==
  \/ Turn("elf") /\ E!ElfNext
  \/ Turn("ata") /\ A!AtaNext
  \/ Turn("ps2") /\ P!Ps2Next
  \/ Turn("terminal") /\ T!TerminalNext
  \/ Turn("desktop") /\ D!DesktopNext
  \/ Turn("files") /\ F!OpenFilesNext

\* Where the disk driver is at rest its fairness asks for nothing.
PartsSpec == PartsInit /\ [][PartsNext]_vars /\ A!AtaFairness

-----------------------------------------------------------------------------
(* The properties, each explained in its part's module.                    *)

\* Every variable of every part has its type.
PartsTypeOK ==
  /\ E!ElfTypeOK /\ A!AtaTypeOK /\ P!Ps2TypeOK
  /\ T!TerminalTypeOK /\ D!DesktopTypeOK /\ F!OpenFilesTypeOK

\* Relocations of a loaded image reach what its symbols name (elf.c:222-296),
\* and so does who asks for a symbol (elf.c:444-501).
ImagesLinked == E!ImagesLinked /\ E!SymbolsFound

\* An image's sections lie in memory that is its own (elf.c:199-217).
ImagesHoldMemory == E!ImagesHoldMemory

\* A transfer moves the sector that was asked for, or a drive has failed
\* (ide.c:258-436).
TransferIsSector == A!TransferIsSector

\* Every request to a drive is answered (ide.c:144-165, 383-436).
AtaAnswers == A!AtaAnswers

\* Three bytes taken as a packet are a packet (mouse.c:220-280).
PacketsInSync == P!PacketsInSync

\* Characters are taken in the order the keys were pressed (keyboard.c:21-124).
KeysInOrder == P!KeysInOrder

\* What gets returns is what the screen shows (tty.c:49-86, output.c:44-112).
LineOnScreen == T!LineOnScreen

\* Who is logged in typed his name and password (user/main.c:105-138).
UsersLogIn == T!UsersLogIn

\* The screen has caught up with the framebuffer when the loop is round, and
\* the framebuffer shows the windows in their order (wm2/wm.c:219-266).
ScreenShowsDesktop == D!FrontUpToDate /\ D!Composed

\* An open file's block is its own and holds all of it (file.c:21-117).
FilesOwnBlocks == F!FilesOwnBlocks
=============================================================================
