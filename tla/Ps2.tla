-------------------------------- MODULE Ps2 --------------------------------
(***************************************************************************)
(* The keyboard and the mouse on their common controller                   *)
(* (drivers/dev/ps2/): the start-up conversation, the keyboard's reader    *)
(* called by the kernel and by processes, and the mouse's packets.         *)
(*                                                                         *)
(* External are the controller and the devices: a device queues what it    *)
(* has to say, the controller answers into one register, and its output    *)
(* buffer takes one of the three at a time and says in its status whether  *)
(* the byte is the mouse's.  A byte carries what the code does not see:    *)
(* which key press, or which byte of a packet (1, 2, 3; 0 for a reply).    *)
(* Polls between which nothing changes are one step.                       *)
(***************************************************************************)
EXTENDS Integers, Sequences

CONSTANTS
  Keys,         \* bound: the scan codes the user's keys send
  Moves,        \* bound: the packets the mouse sends, <<flags, x, y>>
  MaxKeys, MaxMoves,   \* bounds: how many of each
  Width, Height        \* of the screen

VARIABLES
  source,    \* what fills the output buffer: "none", "ctl", "kbd" or "aux"
  ctl,       \* the controller's answer, if it has one
  kbd, aux,  \* the devices' queues
  next,      \* where the next data byte goes: "kbd", "aux" or "config"
  muted,     \* bit 5 of the configuration: the mouse is not listened to
  reporting, \* the mouse sends packets
  boot,      \* the step of the start-up, or <<>> when it is over
  shifted, ctrl, keyboardPressed, character,   \* the keyboard's globals
  getchar,   \* ps2_getchar in the kernel: where it is and what it holds
  taken,     \* the presses handed out as characters, with those
  pressed,   \* the scan codes sent so far
  reader,    \* ps2_read_mouse_packet: it has seen a byte of the mouse
  packet,    \* packet_data, up to packet_index
  cursor,    \* mx, my and the buttons
  moved,     \* packets the mouse sent
  disturbed  \* a wait of the start-up ended too early, or a user interfered

ps2Vars == <<source, ctl, kbd, aux, next, muted, reporting, boot, shifted, ctrl,
             keyboardPressed, character, getchar, taken, pressed, reader, packet,
             cursor, moved, disturbed>>

device     == <<kbd, aux, next, muted, reporting>>
keyboard   == <<shifted, ctrl, keyboardPressed, character, getchar, taken>>
mouse      == <<reader, packet, cursor>>
users      == <<pressed, moved>>

Bit(v, n) == (v \div 2 ^ n) % 2 = 1

(* A packet is three bytes, the first of which has bit 3.                  *)
Ps2Assumption ==
  /\ Keys \subseteq 0 .. 255 /\ Width \in Nat \ {0} /\ Height \in Nat \ {0}
  /\ \A m \in Moves : m \in (0 .. 255) \X (0 .. 255) \X (0 .. 255) /\ Bit(m[1], 3)

ACK == 250   \* PS2_RESP_ACK
PASS == 170  \* PS2_RESP_SELF_TEST_PASS
ECHO == 238

-----------------------------------------------------------------------------
(* The start-up, as a sequence of the four functions kmain calls: writes   *)
(* to the command and the data port, reads that wait and what they accept. *)

Cmd(c)    == <<"cmd", c>>
Data(b)   == <<"data", b>>
Want(ok)  == <<"want", ok>>      \* wait, give up when nothing comes; read
Any       == <<"any", 0>>        \* wait; read if something came
Send(b)   == <<Cmd(212), Data(b), Any>>   \* a device command to port 2
Flush     == <<"flush", 0>>      \* read while the output buffer is full
Drain     == <<"drain", 0>>      \* wait and read until nothing comes
Config    == <<"config", 0>>     \* write back what was read, with bit 5

ps2_keyboard_present ==
  <<Flush, Data(238), Want({ECHO}), Data(255), Want({ACK}), Want({PASS})>>

(* The configuration is asked for twice, before and after the wait. *)
ps2_mouse_present ==
  << Cmd(168), Cmd(32), <<"await", 0>>, Cmd(32), <<"read", 0>>, Cmd(96), Config,
     Cmd(169), Want({0}), Cmd(212), Data(242), Want({ACK}), Want({0, 3, 4}), Any >>

ps2_initialize_mouse ==
  <<Cmd(168)>> \o Send(255) \o Send(244) \o Send(243) \o Send(100)

ps2_initialize_keyboard ==
  <<Cmd(174), Data(255), Want({PASS, ACK}), Drain,
    Data(240), Data(2), Data(244), Data(243), Data(32)>>

Startup == <<ps2_keyboard_present, ps2_mouse_present, ps2_initialize_mouse,
             ps2_initialize_keyboard>>

Booted == boot = <<>>
BootStep == Startup[boot[1]][boot[2]]

(* The step after this one; and what follows when a read fails: a device   *)
(* that is not present is asked for again, the keyboard stays as it is.    *)
Onward ==
  IF boot[2] < Len(Startup[boot[1]]) THEN <<boot[1], boot[2] + 1>>
  ELSE IF boot[1] < Len(Startup) THEN <<boot[1] + 1, 1>>
  ELSE <<>>

Failed == IF boot[1] <= 2 THEN <<boot[1], 1>> ELSE <<>>

-----------------------------------------------------------------------------
(* The controller and the devices (external).                              *)

Plain(v) == [v |-> v, k |-> 0]

(* What a device answers to a byte. *)
Answers(port, b) ==
  LET values == CASE port = "kbd" /\ b = 238 -> <<ECHO>>
                  [] port = "kbd" /\ b = 255 -> <<ACK, PASS>>
                  [] port = "aux" /\ b = 255 -> <<ACK, PASS, 0>>
                  [] port = "aux" /\ b = 242 -> <<ACK, 0>>
                  [] OTHER -> <<ACK>>
  IN  [i \in 1 .. Len(values) |-> Plain(values[i])]

(* The next byte reaches the output buffer. *)
Fill ==
  /\ source = "none"
  /\ \/ ctl # <<>> /\ source' = "ctl"
     \/ ctl = <<>> /\ kbd # <<>> /\ source' = "kbd"
     \/ ctl = <<>> /\ aux # <<>> /\ ~muted /\ source' = "aux"
  /\ UNCHANGED <<ctl, device, boot, keyboard, mouse, users, disturbed>>

(* What a read of the data port takes, and what it leaves behind. *)
InBuffer == CASE source = "ctl" -> Head(ctl)
              [] source = "kbd" -> Head(kbd)
              [] source = "aux" -> Head(aux)

ps2_read_data ==
  /\ source' = "none"
  /\ ctl' = IF source = "ctl" THEN <<>> ELSE ctl
  /\ kbd' = IF source = "kbd" THEN Tail(kbd) ELSE kbd
  /\ aux' = IF source = "aux" THEN Tail(aux) ELSE aux

(* Something is on its way. *)
Coming == ctl # <<>> \/ kbd # <<>> \/ (aux # <<>> /\ ~muted)

ps2_write_command(c) ==
  /\ ctl' = CASE c = 32  -> <<Plain(0)>>   \* PS2_CMD_READ_CONFIG
              [] c = 169 -> <<Plain(0)>>   \* PS2_CMD_TEST_PORT2
              [] OTHER   -> ctl
  /\ next' = CASE c = 96 -> "config" [] c = 212 -> "aux" [] OTHER -> next
  /\ muted' = (muted /\ c # 168)           \* PS2_CMD_ENABLE_PORT2
  /\ UNCHANGED <<source, kbd, aux, reporting>>

ps2_write_data(b) ==
  /\ kbd' = IF next = "kbd" THEN kbd \o Answers("kbd", b) ELSE kbd
  /\ aux' = IF next = "aux" THEN aux \o Answers("aux", b) ELSE aux
  /\ reporting' = IF next # "aux" THEN reporting
                  ELSE (b = 244 \/ (reporting /\ b # 255))
  /\ muted' = IF next = "kbd" THEN muted ELSE next = "config"
  /\ next' = "kbd"
  /\ UNCHANGED <<source, ctl>>

(* A key is pressed or released; the mouse is moved.  (Bound: one          *)
(* disturbance, after which the users wait.)                               *)
Press ==
  /\ Len(pressed) < MaxKeys /\ ~disturbed
  /\ \E code \in Keys :
       /\ kbd' = Append(kbd, [v |-> code, k |-> Len(pressed) + 1])
       /\ pressed' = Append(pressed, code)
  /\ disturbed' = (disturbed \/ ~Booted)
  /\ UNCHANGED <<source, ctl, aux, next, muted, reporting, boot, keyboard, mouse, moved>>

Move ==
  /\ reporting /\ moved < MaxMoves /\ ~disturbed
  /\ \E m \in Moves : aux' = aux \o [i \in 1 .. 3 |-> [v |-> m[i], k |-> i]]
  /\ moved' = moved + 1
  /\ disturbed' = (disturbed \/ ~Booted)
  /\ UNCHANGED <<source, ctl, kbd, next, muted, reporting, boot, keyboard, mouse, pressed>>

-----------------------------------------------------------------------------
(* The steps of the start-up.                                              *)

BootWrite ==
  /\ ~Booted
  /\ \/ BootStep[1] = "cmd" /\ ps2_write_command(BootStep[2])
     \/ BootStep[1] = "data" /\ ps2_write_data(BootStep[2])
     \/ BootStep[1] = "config" /\ ps2_write_data(32)
  /\ boot' = Onward
  /\ UNCHANGED <<keyboard, mouse, users, disturbed>>

BootRead ==
  /\ ~Booted /\ source # "none"
  /\ CASE BootStep[1] = "want" -> boot' = IF InBuffer.v \in BootStep[2] THEN Onward ELSE Failed
       [] BootStep[1] \in {"any", "read"} -> boot' = Onward
       [] BootStep[1] \in {"flush", "drain"} -> boot' = boot
       [] OTHER -> FALSE
  /\ ps2_read_data
  /\ UNCHANGED <<next, muted, reporting, keyboard, mouse, users, disturbed>>

BootSee ==
  /\ ~Booted /\ source # "none" /\ BootStep[1] = "await"
  /\ boot' = Onward
  /\ UNCHANGED <<source, ctl, device, keyboard, mouse, users, disturbed>>

(* ps2_wait_output polls ten thousand times and gives up; a flush does not *)
(* wait, and ps2_read_data waits forever.                                  *)
BootGiveUp ==
  /\ ~Booted /\ source = "none"
  /\ \/ BootStep[1] \in {"want", "await"} /\ boot' = Failed
     \/ BootStep[1] \in {"any", "flush", "drain"} /\ boot' = Onward
  /\ Coming => ~disturbed   \* bound: too early once at the most
  /\ disturbed' = (disturbed \/ Coming)
  /\ UNCHANGED <<source, ctl, device, keyboard, mouse, users>>

-----------------------------------------------------------------------------
(* The keyboard.                                                           *)

(* What a key types: codes of characters, 0 for none, by scan code.        *)
keyboard_map ==
  <<0, 27, 49, 50, 51, 52, 53, 54, 55, 56, 57, 48, 45, 61, 8, 9,
    113, 119, 101, 114, 116, 121, 117, 105, 111, 112, 91, 93, 10, 128, 97, 115,
    100, 102, 103, 104, 106, 107, 108, 59, 39, 96, 0, 92, 122, 120, 99, 118,
    98, 110, 109, 44, 46, 47, 129, 42, 129, 32, 128, 130, 131, 132, 133, 134,
    135, 136, 137, 138, 139, 140, 141, 142, 143, 144, 45, 145, 53, 146, 43, 147,
    148, 149, 150, 151, 10, 129, 92, 152, 153>>

keyboard_map_shifted ==
  <<0, 27, 33, 34, 35, 36, 37, 94, 38, 42, 40, 41, 95, 43, 8, 9,
    81, 87, 69, 82, 84, 89, 85, 73, 79, 80, 123, 125, 10, 128, 65, 83,
    68, 70, 71, 72, 74, 75, 76, 58, 64, 96, 0, 124, 90, 88, 67, 86,
    66, 78, 77, 60, 62, 63, 129, 42, 129, 32, 128, 130, 131, 132, 133, 134,
    135, 136, 137, 138, 139, 140, 47, 55, 143, 144, 45, 145, 53, 146, 43, 147,
    148, 149, 150, 151, 10, 129, 92, 152, 153>>

Typed(map, code) == IF code < Len(map) THEN map[code + 1] ELSE 0

(* The control key turns a letter into its place in the alphabet. *)
Controlled(key) ==
  IF key \in 97 .. 122 THEN key - 96 ELSE IF key \in 65 .. 90 THEN key - 64 ELSE key

(* The rest of ps2_keyboard_fetch, after the scan code was read: a modifier*)
(* or a released key types nothing.                                        *)
Silent(code) == code \in {42, 54, 29} \/ code >= 128

Shift(code) == CASE code \in {42, 54} -> TRUE [] code \in {170, 182} -> FALSE
                 [] OTHER -> shifted
Ctrl(code)  == CASE code = 29 -> TRUE [] code = 157 -> FALSE [] OTHER -> ctrl

Character(code) ==
  LET key == Typed(IF shifted THEN keyboard_map_shifted ELSE keyboard_map, code)
  IN  IF ctrl THEN Controlled(key) ELSE key

Decode(code) == IF Silent(code) THEN 0 ELSE Character(code)

(* The byte in the output buffer is the keyboard's, or anyhow not the      *)
(* mouse's.                                                                *)
ForKeyboard == source \in {"kbd", "ctl"}

(* taken, when a reader returns this character, a press's or none. *)
Note(c) == IF c[2] = 0 THEN taken ELSE Append(taken, c)

(* Mutant of ps2_keyboard_fetch: the mouse's bytes are not left alone. *)
ps2_keyboard_fetch_any ==
  IF source = "none"
    THEN keyboardPressed' = FALSE /\ UNCHANGED <<source, ctl, kbd, aux, shifted, ctrl, taken>>
    ELSE /\ ps2_read_data
         /\ shifted' = Shift(InBuffer.v) /\ ctrl' = Ctrl(InBuffer.v)
         /\ keyboardPressed' = ~Silent(InBuffer.v)
         /\ taken' = Note(<<InBuffer.k, Decode(InBuffer.v)>>)

(* A process asks for a character (GETCH): the whole of ps2_keyboard_fetch *)
(* with interrupts off.                                                    *)
ps2_keyboard_fetch ==
  IF ~ForKeyboard
    THEN keyboardPressed' = FALSE /\ UNCHANGED <<source, ctl, kbd, aux, shifted, ctrl, taken>>
    ELSE /\ ps2_read_data
         /\ shifted' = Shift(InBuffer.v) /\ ctrl' = Ctrl(InBuffer.v)
         /\ keyboardPressed' = ~Silent(InBuffer.v)
         /\ taken' = Note(<<InBuffer.k, Decode(InBuffer.v)>>)

GETCH ==
  /\ Booted
  /\ ps2_keyboard_fetch
  /\ UNCHANGED <<next, muted, reporting, boot, character, getchar, mouse, users, disturbed>>

(* The kernel's own reader, whose interrupts are on: the scan code is read *)
(* with them off, the rest may be interrupted.                             *)
Idle == [pc |-> "unused", byte |-> Plain(0), key |-> 0]

GetcharCalled ==
  /\ Booted /\ getchar.pc \in {"unused", "idle"}
  /\ getchar' = [Idle EXCEPT !.pc = "loop"]
  /\ UNCHANGED <<source, ctl, device, boot, shifted, ctrl, keyboardPressed, character,
                 taken, mouse, users, disturbed>>

(* keyboardPressed = false, and the scan code if there is one. *)
GetcharFetch ==
  /\ getchar.pc = "loop" /\ ~keyboardPressed
  /\ keyboardPressed' = FALSE
  /\ IF ForKeyboard
       THEN ps2_read_data /\ getchar' = [getchar EXCEPT !.pc = "decode", !.byte = InBuffer]
       ELSE getchar' = [Idle EXCEPT !.pc = "assign"] /\ UNCHANGED <<source, ctl, kbd, aux>>
  /\ UNCHANGED <<next, muted, reporting, boot, shifted, ctrl, character, taken, mouse,
                 users, disturbed>>

GetcharDecode ==
  LET code == getchar.byte.v IN
  /\ getchar.pc = "decode"
  /\ getchar' = [getchar EXCEPT !.pc = "assign", !.key = Decode(code)]
  /\ shifted' = Shift(code) /\ ctrl' = Ctrl(code)
  /\ keyboardPressed' = (keyboardPressed \/ ~Silent(code))
  /\ UNCHANGED <<source, ctl, device, boot, character, taken, mouse, users, disturbed>>

GetcharAssign ==
  /\ getchar.pc = "assign"
  /\ character' = <<getchar.byte.k, getchar.key>>
  /\ getchar' = [getchar EXCEPT !.pc = "loop"]
  /\ UNCHANGED <<source, ctl, device, boot, shifted, ctrl, keyboardPressed, taken, mouse,
                 users, disturbed>>

(* The loop ends when some reader has set keyboardPressed. *)
GetcharReturn ==
  /\ getchar.pc = "loop" /\ keyboardPressed
  /\ taken' = Note(character)
  /\ keyboardPressed' = FALSE
  /\ getchar' = [Idle EXCEPT !.pc = "idle"]
  /\ UNCHANGED <<source, ctl, device, boot, shifted, ctrl, character, mouse, users, disturbed>>

-----------------------------------------------------------------------------
(* The mouse: the window manager's process, which may be interrupted       *)
(* between the status and the data.                                        *)

(* Mutant of MouseSees: any byte will do. *)
MouseSeesAny ==
  /\ Booted /\ ~reader /\ source # "none"
  /\ reader' = TRUE
  /\ UNCHANGED <<source, ctl, device, boot, keyboard, packet, cursor, users, disturbed>>

MouseSees ==
  /\ Booted /\ ~reader /\ source = "aux"
  /\ reader' = TRUE
  /\ UNCHANGED <<source, ctl, device, boot, keyboard, packet, cursor, users, disturbed>>

(* packet_data with one byte more; the first must have bit 3. *)
Received(byte) ==
  IF packet = <<>> /\ ~Bit(byte.v, 3) THEN <<>> ELSE Append(packet, byte)

(* A movement is taken for a number of eight bits, whatever its sign bit;  *)
(* one that overflowed counts as none, or as -256, which is none too.      *)
Signed(v) == IF v >= 128 THEN v - 256 ELSE v
Delta(p, axis) == IF Bit(p[1].v, 5 + axis) THEN 0 ELSE Signed(p[1 + axis].v)

Clamp(n, size) == IF n < 0 THEN 0 ELSE IF n >= size THEN size - 1 ELSE n

(* mouseFetch *)
mouseFetch(p) ==
  [x |-> Clamp(cursor.x + Delta(p, 1), Width), y |-> Clamp(cursor.y - Delta(p, 2), Height),
   buttons |-> {b \in 0 .. 2 : Bit(p[1].v, b)}]

(* ps2_read_data and the rest of ps2_read_mouse_packet. *)
MouseReads ==
  LET p == Received(InBuffer) IN
  /\ reader /\ source # "none"
  /\ ps2_read_data
  /\ reader' = FALSE
  /\ IF Len(p) = 3 THEN packet' = <<>> /\ cursor' = mouseFetch(p)
     ELSE packet' = p /\ cursor' = cursor
  /\ UNCHANGED <<next, muted, reporting, boot, keyboard, users, disturbed>>

-----------------------------------------------------------------------------
Ps2Init ==
  /\ source = "none" /\ ctl = <<>> /\ kbd = <<>> /\ aux = <<>>
  /\ next = "kbd" /\ muted = FALSE /\ reporting = FALSE /\ boot = <<1, 1>>
  /\ shifted = FALSE /\ ctrl = FALSE /\ keyboardPressed = FALSE /\ character = <<0, 0>>
  /\ getchar = Idle /\ taken = <<>> /\ pressed = <<>>
  /\ reader = FALSE /\ packet = <<>> /\ cursor = [x |-> 0, y |-> 0, buttons |-> {}]
  /\ moved = 0 /\ disturbed = FALSE

Ps2Next ==
  \/ Fill \/ Press \/ Move
  \/ BootWrite \/ BootRead \/ BootSee \/ BootGiveUp
  \/ GETCH
  \/ GetcharCalled \/ GetcharFetch \/ GetcharDecode \/ GetcharAssign \/ GetcharReturn
  \/ MouseSees \/ MouseReads

Ps2Spec == Ps2Init /\ [][Ps2Next]_ps2Vars

-----------------------------------------------------------------------------
(* The driver's variables have their types, and the cursor is on screen.   *)
Ps2TypeOK ==
  /\ source \in {"none", "ctl", "kbd", "aux"} /\ next \in {"kbd", "aux", "config"}
  /\ boot = <<>> \/ (boot[1] \in 1 .. 4 /\ boot[2] \in 1 .. Len(Startup[boot[1]]))
  /\ source # "none" => InBuffer.v \in 0 .. 255
  /\ {shifted, ctrl, keyboardPressed, reader, muted, reporting, disturbed} \subseteq BOOLEAN
  /\ character[2] \in 0 .. 255 /\ getchar.key \in 0 .. 255
  /\ Len(packet) < 3
  /\ cursor.x \in 0 .. Width - 1 /\ cursor.y \in 0 .. Height - 1

(* The mouse's packets stay whole: unless the start-up was disturbed, what *)
(* the driver has of a packet and what the mouse has yet to say are whole  *)
(* packets in order, whoever reads the keyboard meanwhile: no reply of the *)
(* start-up is left to be taken for a first byte, and no byte is taken by  *)
(* another reader.                                                         *)
PacketsInSync ==
  (Booted /\ ~disturbed) =>
    LET unread == packet \o aux
    IN  /\ Len(unread) % 3 = 0
        /\ \A i \in 1 .. Len(unread) : unread[i].k = ((i - 1) % 3) + 1

(* A scan code that types a character, whatever is held down with it.      *)
Types(code) == ~Silent(code) /\ Typed(keyboard_map, code) # 0

(* As long as processes alone read the keyboard, the characters handed out *)
(* and those of the keys still queued are those of the presses, in order,  *)
(* each once, however the mouse is read meanwhile.                         *)
KeysInOrder ==
  (Booted /\ ~disturbed /\ getchar.pc = "unused") =>
    LET queued == {i \in DOMAIN kbd : kbd[i].k # 0 /\ Types(kbd[i].v)}
    IN  /\ \A i, j \in DOMAIN taken : i < j => taken[i][1] < taken[j][1]
        /\ \A i, j \in queued : i < j => kbd[i].k < kbd[j].k
        /\ \A i \in DOMAIN taken : \A j \in queued : taken[i][1] < kbd[j].k
        /\ \A k \in DOMAIN pressed : Types(pressed[k]) =>
             \/ \E i \in DOMAIN taken : taken[i][1] = k
             \/ \E j \in queued : kbd[j].k = k
=============================================================================
