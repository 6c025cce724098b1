----------------------------- MODULE Terminal -----------------------------
(***************************************************************************)
(* The text screen (tty/output.c), the line editor above it (gets of       *)
(* tty/tty.c), and what the kernel uses them for: the users are read from  *)
(* their ini files (ini.c, UsersLoad) and one of them logs in              *)
(* (user/main.c).                                                          *)
(*                                                                         *)
(* The screen's cells are numbered row by row, and so is the cursor; text  *)
(* is a sequence of characters.  fnv1a_hash keeps its form, with a small   *)
(* modulus; a word of a message or of a prompt is one character.  A line of *)
(* an ini file is the sequence of its characters.                          *)
(***************************************************************************)
EXTENDS Integers, Sequences, SequencesExt

CONSTANTS
  TTY_W, TTY_H,       \* columns and rows
  USER_NAME_LENGTH, PASS_LENGTH,   \* 12 and 31: room gets is given
  MAX_USERS, MAX_LOGIN_ATTEMPTS, MAX_CONFIG_VARS, MAX_VAR_NAME,
  HASHES,             \* 2^32: hashes count modulo this
  Code(_),            \* the code of a character
  Folded(_),          \* its lower case
  UsersIni,           \* the lines of users/users.ini
  Hashed(_),          \* pswrdhash of a user's own ini file, or -1
  TypedChars, MaxTyped   \* bounds: the characters typed, and how many

CELLS == TTY_W * TTY_H

(* A line that gets may return fits on the screen when one row of it is    *)
(* scrolled away (80 columns and 20 rows, and lines of 30).                *)
TerminalAssumption ==
  /\ TTY_W \in Nat \ {0} /\ TTY_H \in Nat \ {0, 1}
  /\ USER_NAME_LENGTH \in Nat \ {0, 1} /\ PASS_LENGTH \in Nat \ {0, 1}
  /\ USER_NAME_LENGTH - 1 + TTY_W <= CELLS /\ PASS_LENGTH - 1 + TTY_W <= CELLS
  /\ MAX_VAR_NAME \in Nat \ {0} /\ HASHES \in Nat \ {0} /\ MAX_USERS \in Nat \ {0}
  /\ MAX_CONFIG_VARS \in Nat /\ MAX_LOGIN_ATTEMPTS \in Nat \ {0}
  /\ UsersIni \in Seq(Seq(STRING)) /\ TypedChars \subseteq STRING

VARIABLES
  output,    \* system_output
  at,        \* tty_y * TTY_W + tty_x
  users,     \* the table, as far as it is filled
  stage,     \* where UserLogin is: "name", "pass" or "over"
  entered,      \* the buffer of gets, as far as it is filled
  name,      \* the name typed before the password
  attempts,
  user,      \* the answer of UserLogin: an index into users from 0, or -1
  typed      \* all that was typed

terminalVars == <<output, at, users, stage, entered, name, attempts, user, typed>>

NL  == "newline"   \* characters that are more than what they look like
BS  == "backspace"
TAB == "tab"
Blank == "blank"
Controls == {NL, BS, TAB}

-----------------------------------------------------------------------------
(* The screen.                                                             *)

(* putch's last part: below the last row the screen moves up a row. *)
Scrolled(s) ==
  IF s.at < CELLS THEN s
  ELSE [cells |-> [c \in 1 .. CELLS |-> IF c + TTY_W <= CELLS THEN s.cells[c + TTY_W] ELSE Blank],
        at |-> CELLS - TTY_W]

Written(s, ch) == [cells |-> [s.cells EXCEPT ![s.at + 1] = ch], at |-> s.at + 1]

(* Mutant of putch: a backspace does not go back to the row above. *)
putch_row(s, ch) ==
  Scrolled(
    CASE ch = NL -> [s EXCEPT !.at = (s.at \div TTY_W + 1) * TTY_W]
      [] ch = BS /\ s.at % TTY_W > 0 ->
           [cells |-> [s.cells EXCEPT ![s.at] = Blank], at |-> s.at - 1]
      [] ch = TAB -> Written(s, Blank)
      [] OTHER -> Written(s, ch))

(* A backspace before the first cell is written like any character. *)
putch(s, ch) ==
  Scrolled(
    CASE ch = NL -> [s EXCEPT !.at = (s.at \div TTY_W + 1) * TTY_W]
      [] ch = BS /\ s.at > 0 ->
           [cells |-> [s.cells EXCEPT ![s.at] = Blank], at |-> s.at - 1]
      [] ch = TAB -> Written(s, Blank)
      [] OTHER -> Written(s, ch))

Screen == [cells |-> output, at |-> at]

Put(s) == output' = s.cells /\ at' = s.at

(* What UserLogin prints before a name and before a password, and when the *)
(* user is logged in, refused, or refused for the last time.               *)
NamePrompt(s) == putch(putch(putch(putch(s, NL), "title"), NL), "prompt")
PassPrompt(s) == putch(s, "prompt")
Message(s)    == putch(putch(s, "message"), NL)

-----------------------------------------------------------------------------
(* Ini files.                                                              *)

Least(a, b) == IF a < b THEN a ELSE b

Cut(s, n) == SubSeq(s, 1, Least(Len(s), n))

Splits(l) == {i \in 1 .. Len(l) : l[i] = "="}
First(l)  == CHOOSE i \in Splits(l) : \A j \in Splits(l) : i <= j

(* A line of the file that defines a variable. *)
Defines(l) == l # <<>> /\ l[1] # "#" /\ Splits(l) # {}

(* Those of the lines strtok finds that define one. *)
Defining(lines) ==
  LET found[n \in 0 .. Len(lines)] ==
        IF n = 0 THEN <<>>
        ELSE IF Defines(lines[n]) THEN Append(found[n - 1], lines[n]) ELSE found[n - 1]
  IN  found[Len(lines)]

IniRead(lines) ==
  [i \in 1 .. Least(Len(Defining(lines)), MAX_CONFIG_VARS) |->
    LET l == Defining(lines)[i]
    IN  [name  |-> Cut(SubSeq(l, 1, First(l) - 1), MAX_VAR_NAME - 1),
         value |-> Cut(SubSeq(l, First(l) + 1, Len(l)), MAX_VAR_NAME - 1)]]

-----------------------------------------------------------------------------
(* Users.                                                                  *)

(* The exclusive or of two numbers below 2^k. *)
Xor(a, b, k) ==
  LET bit(n, i) == (n \div 2 ^ i) % 2
      sum[i \in 0 .. k] == IF i = 0 THEN 0
                           ELSE sum[i - 1] + 2 ^ (i - 1) * ((bit(a, i - 1) + bit(b, i - 1)) % 2)
  IN  sum[k]

(* fnv1a_hash; the modulus here is below 2^8. *)
fnv1a_hash(str) == FoldLeft(LAMBDA hash, c : (Xor(hash, Code(c), 8) * 19) % HASHES, 37, str)

(* What a user of users.ini may do, by the word after the name. *)
Flags(value) ==
  CASE value = <<"a">> -> {"VALID", "CAN_LAUNCH", "ADMINISTRATOR"}
    [] value = <<"s">> -> {"VALID", "CAN_LAUNCH", "SERVICE"}
    [] value = <<"y">> -> {"VALID", "CAN_LAUNCH", "SYSTEM"}
    [] value = <<"g">> -> {"VALID"}
    [] OTHER           -> {"VALID", "CAN_LAUNCH"}

User(var) ==
  LET n == Cut(var.name, USER_NAME_LENGTH - 1)
  IN  [Name |-> n, Flags |-> Flags(var.value),
       PassHash |-> IF Hashed(n) # -1 THEN Hashed(n) ELSE fnv1a_hash(<<"1">>)]

(* UserAdd takes no more than the table has room for. *)
UsersLoad ==
  LET vars == IniRead(UsersIni)
  IN  [i \in 1 .. Least(Len(vars), MAX_USERS) |-> User(vars[i])]

(* UserFind: the first user of that name, whatever its case; -1. *)
Same(a, b) == Len(a) = Len(b) /\ \A i \in 1 .. Len(a) : Folded(a[i]) = Folded(b[i])

UserFind(n) ==
  LET named == {i \in 1 .. Len(users) :
                  "VALID" \in users[i].Flags
                  /\ Same(Cut(n, USER_NAME_LENGTH), Cut(users[i].Name, USER_NAME_LENGTH))}
  IN  IF named = {} THEN -1 ELSE (CHOOSE i \in named : \A j \in named : i <= j) - 1

UserMatch(id, with) == id \in 0 .. Len(users) - 1 /\ users[id + 1].PassHash = fnv1a_hash(with)

-----------------------------------------------------------------------------
(* gets and UserLogin.                                                     *)

Room == IF stage = "name" THEN USER_NAME_LENGTH ELSE PASS_LENGTH

(* One character in the loop of gets: a printable one is echoed and kept, a*)
(* backspace takes one back on the screen and in the buffer, and a newline *)
(* is echoed only; nothing else has an effect.                             *)
Edited(ch) ==
  CASE ch = BS /\ entered # <<>> -> Front(entered)
    [] ch \notin Controls         -> Append(entered, ch)
    [] OTHER                      -> entered

Echoed(ch) ==
  CASE ch = BS /\ entered # <<>>          -> putch(putch(putch(Screen, BS), Blank), BS)
    [] ch \notin Controls \/ ch = NL      -> putch(Screen, ch)
    [] OTHER                              -> Screen

(* The line is complete, with a newline or without one when its room is    *)
(* full: gets does not wait for the newline then.                          *)
Complete(ch) == ch = NL \/ Len(Edited(ch)) = Room - 1

TypeMore(ch) ==
  /\ stage # "over" /\ ~Complete(ch)
  /\ entered' = Edited(ch)
  /\ Put(Echoed(ch))
  /\ UNCHANGED <<users, stage, name, attempts, user>>

NameTyped(ch) ==
  /\ stage = "name" /\ Complete(ch)
  /\ name' = Edited(ch)
  /\ entered' = <<>> /\ stage' = "pass"
  /\ Put(PassPrompt(Echoed(ch)))
  /\ UNCHANGED <<users, attempts, user>>

(* Mutant of PasswordTyped: the user's name is not looked for again. *)
PasswordTypedFirst(ch) ==
  LET id == IF UserFind(name) = -1 THEN -1 ELSE 0
      ok == id # -1 /\ UserMatch(id, Edited(ch))
  IN
  /\ stage = "pass" /\ Complete(ch)
  /\ entered' = <<>> /\ name' = <<>>
  /\ user' = IF ok THEN id ELSE -1
  /\ attempts' = IF ok THEN attempts ELSE attempts + 1
  /\ stage' = IF ok \/ attempts' = MAX_LOGIN_ATTEMPTS THEN "over" ELSE "name"
  /\ Put(CASE ok -> Message(Echoed(ch))
           [] ~ok /\ stage' = "over" -> Message(Message(Echoed(ch)))
           [] ~ok /\ stage' = "name" -> NamePrompt(Message(Echoed(ch))))
  /\ UNCHANGED users

PasswordTyped(ch) ==
  LET id == UserFind(name)
      ok == id # -1 /\ UserMatch(id, Edited(ch))
  IN
  /\ stage = "pass" /\ Complete(ch)
  /\ entered' = <<>> /\ name' = <<>>
  /\ user' = IF ok THEN id ELSE -1
  /\ attempts' = IF ok THEN attempts ELSE attempts + 1
  /\ stage' = IF ok \/ attempts' = MAX_LOGIN_ATTEMPTS THEN "over" ELSE "name"
  /\ Put(CASE ok -> Message(Echoed(ch))
           [] ~ok /\ stage' = "over" -> Message(Message(Echoed(ch)))
           [] ~ok /\ stage' = "name" -> NamePrompt(Message(Echoed(ch))))
  /\ UNCHANGED users

TerminalInit ==
  /\ users = UsersLoad
  /\ LET s == NamePrompt([cells |-> [c \in 1 .. CELLS |-> "0"], at |-> 0])
     IN  output = s.cells /\ at = s.at
  /\ stage = "name" /\ entered = <<>> /\ name = <<>> /\ attempts = 0 /\ user = -1 /\ typed = <<>>

TerminalNext ==
  \E ch \in TypedChars :
    /\ Len(typed) < MaxTyped
    /\ typed' = Append(typed, ch)
    /\ TypeMore(ch) \/ NameTyped(ch) \/ PasswordTyped(ch)

TerminalSpec == TerminalInit /\ [][TerminalNext]_terminalVars

-----------------------------------------------------------------------------
(* The variables of the terminal have their types; the cursor is on it. *)
TerminalTypeOK ==
  /\ Len(output) = CELLS /\ at \in 0 .. CELLS - 1
  /\ Len(users) <= MAX_USERS /\ \A i \in 1 .. Len(users) : "VALID" \in users[i].Flags
  /\ stage \in {"name", "pass", "over"} /\ Len(entered) < Room /\ Len(name) < USER_NAME_LENGTH
  /\ attempts \in 0 .. MAX_LOGIN_ATTEMPTS /\ user \in -1 .. Len(users) - 1

(* What gets will return is what the user sees: the characters of the line *)
(* stand before the cursor, across rows, scrolling and corrections, and the*)
(* prompt in front of them.                                                *)
LineOnScreen ==
  stage # "over" =>
    /\ Len(entered) < at /\ output[at - Len(entered)] = "prompt"
    /\ \A k \in 1 .. Len(entered) : output[at - Len(entered) + k] = entered[k]

(* A user of users.ini who types name and password, each with its newline, *)
(* logs in as that user, provided the name can be typed, leaves room for   *)
(* the newline and no user before has it: the newline that follows a full  *)
(* name answers the password's prompt.                                     *)
UsersLogIn ==
  \A i \in 1 .. Len(users) :
    LET u == users[i] IN
    /\ Len(u.Name) < USER_NAME_LENGTH - 1 /\ \A k \in 1 .. Len(u.Name) : u.Name[k] \notin Controls
    /\ \A j \in 1 .. i - 1 : ~Same(users[j].Name, u.Name)
    /\ Len(typed) > Len(u.Name) + 1 /\ Last(typed) = NL
    /\ SubSeq(typed, 1, Len(u.Name) + 1) = Append(u.Name, NL)
    => LET word == SubSeq(typed, Len(u.Name) + 2, Len(typed) - 1)
       IN  /\ Len(word) < PASS_LENGTH - 1 /\ \A k \in 1 .. Len(word) : word[k] \notin Controls
           /\ u.PassHash = fnv1a_hash(word)
           => stage = "over" /\ user = i - 1
=============================================================================
