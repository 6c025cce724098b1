--------------------------- MODULE ConsoleProofs ----------------------------
(***************************************************************************)
(* Proofs about the parts of Parts a user sees: that the characters of the *)
(* keyboard and the packets of the mouse stay in order, for every scan     *)
(* code, every movement and every number of them; that the terminal shows  *)
(* the line that is typed and logs in who types it; and that the screen    *)
(* shows the window manager's picture, for every number of windows,        *)
(* wherever they are and whenever they register.                           *)
(***************************************************************************)
EXTENDS Parts, WellFoundedInduction, TLAPS

-----------------------------------------------------------------------------
(* What the operators on sequences do to the places of a sequence.         *)

LEMMA TailPlaces ==
  ASSUME NEW S, NEW q \in Seq(S), q # <<>>
  PROVE  /\ Len(q) \in Nat \ {0} /\ Head(q) = q[1] /\ Head(q) \in S
         /\ Tail(q) \in Seq(S) /\ Len(Tail(q)) = Len(q) - 1
         /\ \A i \in 1 .. Len(q) - 1 : Tail(q)[i] = q[i + 1]
OBVIOUS

LEMMA AppendPlaces ==
  ASSUME NEW S, NEW q \in Seq(S), NEW e \in S
  PROVE  /\ Append(q, e) \in Seq(S) /\ Append(q, e) # <<>>
         /\ Len(q) \in Nat /\ DOMAIN q = 1 .. Len(q) /\ Len(Append(q, e)) = Len(q) + 1
         /\ DOMAIN Append(q, e) = 1 .. Len(q) + 1
         /\ \A i \in 1 .. Len(q) : Append(q, e)[i] = q[i]
         /\ Append(q, e)[Len(q) + 1] = e
OBVIOUS

LEMMA JoinPlaces ==
  ASSUME NEW S, NEW q \in Seq(S), NEW r \in Seq(S)
  PROVE  /\ q \o r \in Seq(S) /\ Len(q) \in Nat /\ Len(r) \in Nat
         /\ DOMAIN q = 1 .. Len(q) /\ DOMAIN r = 1 .. Len(r)
         /\ Len(q \o r) = Len(q) + Len(r) /\ DOMAIN (q \o r) = 1 .. Len(q) + Len(r)
         /\ \A i \in 1 .. Len(q) : (q \o r)[i] = q[i]
         /\ \A i \in 1 .. Len(r) : (q \o r)[Len(q) + i] = r[i]
OBVIOUS

-----------------------------------------------------------------------------
(* The keyboard: what is in the queues, and in what order.                 *)

Byte == [v : 0 .. 255, k : Nat]

Reply(b) == b.k = 0 /\ (P!Silent(b.v) \/ b.v = 0)

(* The byte is a key press that types something.                           *)
Presses(b) == b.k # 0 /\ P!Types(b.v)

(* The output buffer shows a queue that has a byte, and the mouse's byte   *)
(* stays there once it was seen; before the start-up is over no one reads. *)
Wire ==
  /\ source \in {"none", "ctl", "kbd", "aux"}
  /\ source = "ctl" => ctl # <<>>
  /\ source = "kbd" => kbd # <<>>
  /\ source = "aux" => aux # <<>>
  /\ ctl \in Seq(Byte) /\ kbd \in Seq(Byte) /\ aux \in Seq(Byte) /\ packet \in Seq(Byte)
  /\ pressed \in Seq(0 .. 255)
  /\ reader \in BOOLEAN /\ (reader => source = "aux")
  /\ ~P!Booted => ~reader /\ packet = <<>> /\ getchar.pc = "unused"

(* What the keyboard and the controller say is a reply or a press.         *)
Said ==
  /\ ~P!Booted => pressed = <<>>
  /\ \A i \in DOMAIN ctl : Reply(ctl[i])
  /\ \A i \in DOMAIN kbd : \/ Reply(kbd[i])
                           \/ kbd[i].k \in DOMAIN pressed /\ kbd[i].v = pressed[kbd[i].k]

(* The characters t handed out, the queue q and the presses p agree.       *)
InOrder(t, q, p) ==
  /\ t \in Seq(Nat \X Nat)
  /\ \A i \in DOMAIN t : t[i][1] \in DOMAIN p
  /\ \A i, j \in DOMAIN t : i < j => t[i][1] < t[j][1]
  /\ \A i, j \in DOMAIN q : i < j /\ Presses(q[i]) /\ Presses(q[j]) => q[i].k < q[j].k
  /\ \A i \in DOMAIN t, j \in DOMAIN q : Presses(q[j]) => t[i][1] < q[j].k
  /\ \A k \in DOMAIN p : P!Types(p[k]) =>
       \/ \E i \in DOMAIN t : t[i][1] = k
       \/ \E j \in DOMAIN q : Presses(q[j]) /\ q[j].k = k

KeyInv ==
  /\ Wire
  /\ ~disturbed => Said
  /\ ~disturbed /\ getchar.pc = "unused" => InOrder(taken, kbd, pressed)

(* A scan code is decoded to a character exactly if it types one.          *)
LEMMA SameKeysType ==
  ASSUME NEW code \in 0 .. 255
  PROVE  /\ P!Typed(P!keyboard_map, code) \in 0 .. 255
         /\ P!Typed(P!keyboard_map_shifted, code) \in 0 .. 255
         /\ P!Typed(P!keyboard_map, code) = 0 <=> P!Typed(P!keyboard_map_shifted, code) = 0
BY SMTT(60) DEF P!Typed, P!keyboard_map, P!keyboard_map_shifted

LEMMA DecodeTypes ==
  ASSUME NEW code \in 0 .. 255
  PROVE  P!Decode(code) \in Nat /\ (P!Decode(code) # 0 <=> P!Types(code))
<1> DEFINE key == P!Typed(IF shifted THEN P!keyboard_map_shifted ELSE P!keyboard_map, code)
<1>1. key \in 0 .. 255 /\ (key = 0 <=> P!Typed(P!keyboard_map, code) = 0)
  BY SameKeysType
<1>2. P!Controlled(key) \in Nat /\ (P!Controlled(key) = 0 <=> key = 0)
  BY <1>1 DEF P!Controlled
<1>3. P!Character(code) = IF ctrl THEN P!Controlled(key) ELSE key
  BY DEF P!Character
<1>4. QED
  BY <1>1, <1>2, <1>3 DEF P!Decode, P!Types

LEMMA ReplyTypesNothing ==
  ASSUME NEW b \in Byte, Reply(b)
  PROVE  P!Decode(b.v) = 0 /\ ~Presses(b)
<1>1. b.v \in 0 .. 255
  BY DEF Byte
<1>2. P!Typed(P!keyboard_map, 0) = 0
  BY DEF P!Typed, P!keyboard_map
<1>3. ~P!Types(b.v)
  BY <1>2 DEF Reply, P!Types
<1>4. QED
  BY <1>1, <1>3, DecodeTypes DEF Presses

LEMMA OrderDropped ==
  ASSUME NEW t, NEW q \in Seq(Byte), NEW p, InOrder(t, q, p), q # <<>>, ~Presses(Head(q))
  PROVE  InOrder(t, Tail(q), p)
<1>1. /\ Tail(q) \in Seq(Byte) /\ Len(Tail(q)) = Len(q) - 1
      /\ \A i \in DOMAIN Tail(q) : Tail(q)[i] = q[i + 1] /\ i + 1 \in DOMAIN q
      /\ \A i \in DOMAIN q : i # 1 => i - 1 \in DOMAIN Tail(q) /\ Tail(q)[i - 1] = q[i]
      /\ DOMAIN Tail(q) \subseteq Nat /\ ~Presses(q[1])
  OBVIOUS
<1>2. \A i, j \in DOMAIN Tail(q) : i < j /\ Presses(Tail(q)[i]) /\ Presses(Tail(q)[j])
        => Tail(q)[i].k < Tail(q)[j].k
  BY <1>1 DEF InOrder
<1>3. \A i \in DOMAIN t, j \in DOMAIN Tail(q) : Presses(Tail(q)[j]) => t[i][1] < Tail(q)[j].k
  BY <1>1 DEF InOrder
<1>4. ASSUME NEW k \in DOMAIN p, P!Types(p[k])
      PROVE  \/ \E i \in DOMAIN t : t[i][1] = k
             \/ \E j \in DOMAIN Tail(q) : Presses(Tail(q)[j]) /\ Tail(q)[j].k = k
  <2>1. CASE \E j \in DOMAIN q : Presses(q[j]) /\ q[j].k = k
    BY <1>1, <2>1
  <2>2. QED
    BY <1>4, <2>1 DEF InOrder
<1>5. QED
  BY <1>2, <1>3, <1>4 DEF InOrder

LEMMA OrderTaken ==
  ASSUME NEW t, NEW q \in Seq(Byte), NEW p, InOrder(t, q, p), q # <<>>, Presses(Head(q)),
         Head(q).k \in DOMAIN p, NEW c \in Nat \X Nat, c[1] = Head(q).k
  PROVE  InOrder(Append(t, c), Tail(q), p)
<1>1. /\ Tail(q) \in Seq(Byte) /\ Len(Tail(q)) = Len(q) - 1
      /\ \A i \in DOMAIN Tail(q) : Tail(q)[i] = q[i + 1] /\ i + 1 \in DOMAIN q
      /\ \A i \in DOMAIN q : i # 1 => i - 1 \in DOMAIN Tail(q) /\ Tail(q)[i - 1] = q[i]
      /\ DOMAIN Tail(q) \subseteq Nat /\ Presses(q[1]) /\ c[1] = q[1].k /\ 1 \in DOMAIN q
      /\ \A i \in DOMAIN Tail(q) : i > 0
  OBVIOUS
<1> DEFINE u == Append(t, c)
<1>2. /\ t \in Seq(Nat \X Nat) /\ u \in Seq(Nat \X Nat)
      /\ DOMAIN t = 1 .. Len(t) /\ DOMAIN u = 1 .. Len(t) + 1 /\ Len(t) \in Nat
      /\ \A i \in DOMAIN t : u[i] = t[i] /\ i \in DOMAIN u
      /\ u[Len(t) + 1] = c /\ Len(t) + 1 \in DOMAIN u
  BY DEF InOrder
<1> HIDE DEF u
<1>3. \A i \in DOMAIN u : u[i][1] \in DOMAIN p
  <2>1. c[1] \in DOMAIN p
    OBVIOUS
  <2>2. \A i \in DOMAIN u : i \in DOMAIN t \/ i = Len(t) + 1
    BY <1>2
  <2>3. QED
    BY <1>2, <2>1, <2>2 DEF InOrder
<1>4. ASSUME NEW i \in DOMAIN u, NEW j \in DOMAIN u, i < j
      PROVE  u[i][1] < u[j][1]
  <2> DEFINE n == Len(t)
  <2>1. i \in DOMAIN t /\ (j \in DOMAIN t \/ j = Len(t) + 1)
    <3>1. n \in Nat /\ i \in 1 .. n + 1 /\ j \in 1 .. n + 1
      BY <1>2
    <3>2. i \in 1 .. n /\ (j \in 1 .. n \/ j = n + 1)
      BY <3>1, <1>4
    <3>3. QED
      BY <1>2, <3>2
  <2>2. CASE j \in DOMAIN t
    BY <1>2, <1>4, <2>1, <2>2 DEF InOrder
  <2>3. CASE j = Len(t) + 1
    BY <1>1, <1>2, <2>1, <2>3 DEF InOrder
  <2>4. QED
    BY <2>1, <2>2, <2>3
<1>5. ASSUME NEW i \in DOMAIN Tail(q), NEW j \in DOMAIN Tail(q), i < j,
             Presses(Tail(q)[i]), Presses(Tail(q)[j])
      PROVE  Tail(q)[i].k < Tail(q)[j].k
  <2>1. /\ i + 1 \in DOMAIN q /\ j + 1 \in DOMAIN q /\ i + 1 < j + 1
        /\ Tail(q)[i] = q[i + 1] /\ Tail(q)[j] = q[j + 1]
    BY <1>1, <1>5
  <2>2. QED
    BY <1>5, <2>1 DEF InOrder
<1>6. ASSUME NEW i \in DOMAIN u, NEW j \in DOMAIN Tail(q), Presses(Tail(q)[j])
      PROVE  u[i][1] < Tail(q)[j].k
  <2>1. CASE i \in DOMAIN t
    BY <1>1, <1>2, <1>6, <2>1 DEF InOrder
  <2>2. CASE i = Len(t) + 1
    <3>1. j + 1 \in DOMAIN q /\ Presses(q[j + 1]) /\ 1 < j + 1
      BY <1>1, <1>6
    <3>2. q[1].k < q[j + 1].k
      BY <1>1, <3>1 DEF InOrder
    <3>3. QED
      BY <1>1, <1>2, <2>2, <3>2
  <2>3. QED
    BY <1>2, <2>1, <2>2
<1>7. ASSUME NEW k \in DOMAIN p, P!Types(p[k])
      PROVE  \/ \E i \in DOMAIN u : u[i][1] = k
             \/ \E j \in DOMAIN Tail(q) : Presses(Tail(q)[j]) /\ Tail(q)[j].k = k
  <2>1. CASE \E i \in DOMAIN t : t[i][1] = k
    BY <1>2, <2>1
  <2>2. CASE \E j \in DOMAIN q : Presses(q[j]) /\ q[j].k = k
    <3>1. PICK j \in DOMAIN q : Presses(q[j]) /\ q[j].k = k
      BY <2>2
    <3>2. CASE j = 1
      BY <1>1, <1>2, <3>1, <3>2
    <3>3. CASE j # 1
      BY <1>1, <3>1, <3>3
    <3>4. QED
      BY <3>2, <3>3
  <2>3. QED
    BY <1>7, <2>1, <2>2 DEF InOrder
<1>8. InOrder(u, Tail(q), p)
  BY <1>2, <1>3, <1>4, <1>5, <1>6, <1>7 DEF InOrder
<1>9. QED
  BY <1>8 DEF u

LEMMA OrderReplied ==
  ASSUME NEW t, NEW q \in Seq(Byte), NEW p, InOrder(t, q, p),
         NEW r \in Seq(Byte), \A i \in DOMAIN r : ~Presses(r[i])
  PROVE  InOrder(t, q \o r, p)
<1> DEFINE u == q \o r
<1>1. /\ DOMAIN u = 1 .. Len(q) + Len(r) /\ DOMAIN q = 1 .. Len(q) /\ DOMAIN r = 1 .. Len(r)
      /\ Len(q) \in Nat /\ Len(r) \in Nat
      /\ \A i \in DOMAIN q : u[i] = q[i] /\ i \in DOMAIN u
      /\ \A i \in DOMAIN u : i \notin DOMAIN q => i - Len(q) \in DOMAIN r /\ u[i] = r[i - Len(q)]
  OBVIOUS
<1> HIDE DEF u
<1>2. \A i \in DOMAIN u : Presses(u[i]) => i \in DOMAIN q /\ u[i] = q[i]
  BY <1>1
<1>3. \A i, j \in DOMAIN u : i < j /\ Presses(u[i]) /\ Presses(u[j]) => u[i].k < u[j].k
  BY <1>2 DEF InOrder
<1>4. \A i \in DOMAIN t, j \in DOMAIN u : Presses(u[j]) => t[i][1] < u[j].k
  BY <1>2 DEF InOrder
<1>5. ASSUME NEW k \in DOMAIN p, P!Types(p[k])
      PROVE  \/ \E i \in DOMAIN t : t[i][1] = k
             \/ \E j \in DOMAIN u : Presses(u[j]) /\ u[j].k = k
  <2>1. CASE \E j \in DOMAIN q : Presses(q[j]) /\ q[j].k = k
    BY <1>1, <2>1
  <2>2. QED
    BY <1>5, <2>1 DEF InOrder
<1>6. InOrder(t, u, p)
  BY <1>3, <1>4, <1>5 DEF InOrder
<1>7. QED
  BY <1>6 DEF u

(* What is in the queue was pressed before: the new press is the last.     *)
Known(q, p) == \A i \in DOMAIN q : Presses(q[i]) => q[i].k \in DOMAIN p

LEMMA OrderPressed ==
  ASSUME NEW t, NEW q \in Seq(Byte), NEW p \in Seq(0 .. 255), InOrder(t, q, p), Known(q, p),
         NEW code \in 0 .. 255
  PROVE  InOrder(t, Append(q, [v |-> code, k |-> Len(p) + 1]), Append(p, code))
<1> DEFINE b == [v |-> code, k |-> Len(p) + 1]
           u == Append(q, b)
           o == Append(p, code)
<1>1. /\ DOMAIN p = 1 .. Len(p) /\ DOMAIN o = 1 .. Len(p) + 1 /\ Len(p) \in Nat
      /\ \A i \in DOMAIN p : o[i] = p[i] /\ i \in DOMAIN o
      /\ o[Len(p) + 1] = code
  OBVIOUS
<1>2. /\ DOMAIN q = 1 .. Len(q) /\ DOMAIN u = 1 .. Len(q) + 1 /\ Len(q) \in Nat
      /\ \A i \in DOMAIN q : u[i] = q[i] /\ i \in DOMAIN u
      /\ u[Len(q) + 1] = b
  BY DEF Byte
<1>3. b.k = Len(p) + 1 /\ b.v = code /\ (Presses(b) <=> P!Types(code))
  BY <1>1 DEF Presses
<1> HIDE DEF b, u, o
<1>4. ASSUME NEW i \in DOMAIN u, NEW j \in DOMAIN u, i < j, Presses(u[i]), Presses(u[j])
      PROVE  u[i].k < u[j].k
  <2>1. i \in DOMAIN q /\ u[i] = q[i] /\ q[i].k \in DOMAIN p
    BY <1>2, <1>4 DEF Known
  <2>2. CASE j \in DOMAIN q
    BY <1>2, <1>4, <2>1, <2>2 DEF InOrder
  <2>3. CASE j = Len(q) + 1
    BY <1>1, <1>2, <1>3, <2>1, <2>3
  <2>4. QED
    BY <1>2, <2>2, <2>3
<1>5. ASSUME NEW i \in DOMAIN t, NEW j \in DOMAIN u, Presses(u[j])
      PROVE  t[i][1] < u[j].k
  <2>1. CASE j \in DOMAIN q
    BY <1>2, <1>5, <2>1 DEF InOrder
  <2>2. CASE j = Len(q) + 1
    <3>1. t[i][1] \in 1 .. Len(p)
      BY <1>1 DEF InOrder
    <3>2. QED
      BY <1>1, <1>2, <1>3, <2>2, <3>1
  <2>3. QED
    BY <1>2, <2>1, <2>2
<1>6. ASSUME NEW k \in DOMAIN o, P!Types(o[k])
      PROVE  \/ \E i \in DOMAIN t : t[i][1] = k
             \/ \E j \in DOMAIN u : Presses(u[j]) /\ u[j].k = k
  <2>1. CASE k \in DOMAIN p
    <3>1. CASE \E j \in DOMAIN q : Presses(q[j]) /\ q[j].k = k
      BY <1>2, <3>1
    <3>2. QED
      BY <1>1, <1>6, <2>1, <3>1 DEF InOrder
  <2>2. CASE k = Len(p) + 1
    BY <1>1, <1>2, <1>3, <1>6, <2>2
  <2>3. QED
    BY <1>1, <2>1, <2>2
<1>7. \A i \in DOMAIN t : t[i][1] \in DOMAIN o
  BY <1>1 DEF InOrder
<1>8. InOrder(t, u, o)
  BY <1>4, <1>5, <1>6, <1>7 DEF InOrder
<1>9. QED
  BY <1>8 DEF u, o, b

LEMMA AnswersReply ==
  ASSUME NEW port, NEW b
  PROVE  /\ P!Answers(port, b) \in Seq(Byte)
         /\ \A i \in DOMAIN P!Answers(port, b) : Reply(P!Answers(port, b)[i])
<1> DEFINE V == {0, P!ACK, P!PASS, P!ECHO}
<1>1. PICK values \in Seq(V) :
        P!Answers(port, b) = [i \in 1 .. Len(values) |-> P!Plain(values[i])]
  <2>1. /\ <<P!ECHO>> \in Seq(V) /\ <<P!ACK, P!PASS>> \in Seq(V) /\ <<P!ACK, 0>> \in Seq(V)
        /\ <<P!ACK, P!PASS, 0>> \in Seq(V) /\ <<P!ACK>> \in Seq(V)
    OBVIOUS
  <2> HIDE DEF V
  <2>2. CASE port = "kbd" /\ b = 238
    <3>1. P!Answers(port, b) = [i \in 1 .. Len(<<P!ECHO>>) |-> P!Plain(<<P!ECHO>>[i])]
      BY <2>2 DEF P!Answers
    <3>2. QED
      BY <2>1, <3>1
  <2>3. CASE port = "kbd" /\ b = 255
    <3>1. P!Answers(port, b) = [i \in 1 .. Len(<<P!ACK, P!PASS>>) |-> P!Plain(<<P!ACK, P!PASS>>[i])]
      BY <2>3 DEF P!Answers
    <3>2. QED
      BY <2>1, <3>1
  <2>4. CASE port = "aux" /\ b = 255
    <3>1. P!Answers(port, b)
            = [i \in 1 .. Len(<<P!ACK, P!PASS, 0>>) |-> P!Plain(<<P!ACK, P!PASS, 0>>[i])]
      BY <2>4 DEF P!Answers
    <3>2. QED
      BY <2>1, <3>1
  <2>5. CASE port = "aux" /\ b = 242
    <3>1. P!Answers(port, b) = [i \in 1 .. Len(<<P!ACK, 0>>) |-> P!Plain(<<P!ACK, 0>>[i])]
      BY <2>5 DEF P!Answers
    <3>2. QED
      BY <2>1, <3>1
  <2>6. CASE port \notin {"kbd", "aux"} \/ b \notin {238, 255, 242} \/ (port = "kbd" /\ b = 242)
                 \/ (port = "aux" /\ b = 238)
    BY <2>1, <2>6 DEF P!Answers
  <2>7. QED
    BY <2>2, <2>3, <2>4, <2>5, <2>6
<1>2. \A i \in 1 .. Len(values) : P!Plain(values[i]) \in Byte /\ Reply(P!Plain(values[i]))
  BY DEF P!Plain, P!ACK, P!PASS, P!ECHO, Byte, Reply, P!Silent
<1>3. QED
  BY <1>1, <1>2

(* A read takes the first byte of the queue the output buffer shows.       *)
LEMMA ReadTakes ==
  ASSUME Wire, source # "none", P!ps2_read_data
  PROVE  /\ source' = "none" /\ P!InBuffer \in Byte
         /\ ctl' \in Seq(Byte) /\ kbd' \in Seq(Byte) /\ aux' \in Seq(Byte)
         /\ source = "ctl" => ctl' = <<>> /\ kbd' = kbd /\ aux' = aux /\ P!InBuffer = Head(ctl)
         /\ source = "kbd" => ctl' = ctl /\ kbd' = Tail(kbd) /\ aux' = aux /\ P!InBuffer = Head(kbd)
         /\ source = "aux" => ctl' = ctl /\ kbd' = kbd /\ aux' = Tail(aux) /\ P!InBuffer = Head(aux)
BY DEF Wire, P!ps2_read_data, P!InBuffer

LEMMA SaidRead ==
  ASSUME Wire, Said, source # "none", P!ps2_read_data, pressed' = pressed, P!Booted => P!Booted'
  PROVE  Said'
<1>1. CASE source = "kbd"
  <2>1. kbd' = Tail(kbd) /\ ctl' = ctl /\ kbd \in Seq(Byte) /\ kbd # <<>>
    BY <1>1, ReadTakes DEF Wire
  <2>2. \A i \in DOMAIN kbd' : i + 1 \in DOMAIN kbd /\ kbd'[i] = kbd[i + 1]
    BY <2>1, TailPlaces
  <2>3. QED
    BY <2>1, <2>2 DEF Said, Reply
<1>2. CASE source # "kbd"
  <2>1. kbd' = kbd /\ (ctl' = ctl \/ ctl' = <<>>)
    BY <1>2, ReadTakes DEF Wire
  <2>2. QED
    BY <2>1 DEF Said, Reply
<1>3. QED
  BY <1>1, <1>2

(* A byte the start-up writes is answered by replies.                      *)
LEMMA WriteReplies ==
  ASSUME Wire, NEW b, P!ps2_write_data(b) \/ P!ps2_write_command(b)
  PROVE  /\ source' = source
         /\ ctl' = ctl \/ (ctl' = <<P!Plain(0)>> /\ P!Plain(0) \in Byte /\ Reply(P!Plain(0)))
         /\ \E r \in Seq(Byte) : /\ kbd' = kbd \o r \/ kbd' = kbd
                                 /\ \A i \in DOMAIN r : Reply(r[i])
         /\ \E r \in Seq(Byte) : aux' = aux \o r \/ aux' = aux
<1>1. P!Plain(0) \in Byte /\ Reply(P!Plain(0))
  BY DEF P!Plain, Byte, Reply
<1>2. CASE P!ps2_write_data(b)
  BY <1>2, AnswersReply DEF P!ps2_write_data
<1>3. CASE P!ps2_write_command(b)
  BY <1>1, <1>3, AnswersReply DEF P!ps2_write_command
<1>4. QED
  BY <1>2, <1>3

LEMMA BootWriteWrites ==
  ASSUME P!BootWrite
  PROVE  /\ \E b : P!ps2_write_data(b) \/ P!ps2_write_command(b)
         /\ ~P!Booted /\ boot' = P!Onward
         /\ UNCHANGED <<packet, pressed, reader, getchar, taken, disturbed>>
BY DEF P!BootWrite, P!keyboard, P!mouse, P!users

LEMMA MovePacket ==
  ASSUME NEW m \in Moves
  PROVE  LET three == [i \in 1 .. 3 |-> [v |-> m[i], k |-> i]]
         IN  three \in Seq(Byte) /\ Len(three) = 3 /\ P!Bit(three[1].v, 3)
<1>1. m \in (0 .. 255) \X (0 .. 255) \X (0 .. 255) /\ P!Bit(m[1], 3)
  BY PartsAssumption DEF P!Ps2Assumption
<1>2. \A i \in 1 .. 3 : m[i] \in 0 .. 255
  BY <1>1
<1>3. QED
  BY <1>1, <1>2 DEF Byte

LEMMA WireKeeps ==
  ASSUME Wire, [P!Ps2Next]_ps2Vars
  PROVE  Wire'
<1>1. CASE UNCHANGED ps2Vars
  BY <1>1 DEF Wire, ps2Vars, P!Booted
<1>2. CASE P!Fill
  BY <1>2 DEF Wire, P!Fill, P!device, P!keyboard, P!mouse, P!users, P!Booted
<1>3. CASE P!Press
  <2>1. PICK code \in Keys : /\ kbd' = Append(kbd, [v |-> code, k |-> Len(pressed) + 1])
                             /\ pressed' = Append(pressed, code)
    BY <1>3 DEF P!Press
  <2>2. code \in 0 .. 255 /\ [v |-> code, k |-> Len(pressed) + 1] \in Byte
    BY PartsAssumption DEF P!Ps2Assumption, Wire, Byte
  <2>3. /\ kbd' \in Seq(Byte) /\ kbd' # <<>> /\ pressed' \in Seq(0 .. 255)
    BY <2>1, <2>2, AppendPlaces DEF Wire
  <2>4. QED
    BY <1>3, <2>3 DEF Wire, P!Press, P!keyboard, P!mouse, P!Booted
<1>4. CASE P!Move
  <2>1. PICK m \in Moves : aux' = aux \o [i \in 1 .. 3 |-> [v |-> m[i], k |-> i]]
    BY <1>4 DEF P!Move
  <2>2. aux' \in Seq(Byte) /\ aux' # <<>>
    <3> DEFINE three == [i \in 1 .. 3 |-> [v |-> m[i], k |-> i]]
    <3>1. three \in Seq(Byte) /\ Len(three) = 3
      BY MovePacket
    <3> HIDE DEF three
    <3>2. aux \in Seq(Byte)
      BY DEF Wire
    <3>3. /\ aux \o three \in Seq(Byte) /\ Len(aux) \in Nat
          /\ Len(aux \o three) = Len(aux) + Len(three)
      BY <3>1, <3>2, JoinPlaces
    <3>4. Len(aux \o three) # 0
      BY <3>1, <3>3
    <3>5. QED
      BY <2>1, <3>3, <3>4 DEF three
  <2>3. QED
    BY <1>4, <2>2 DEF Wire, P!Move, P!keyboard, P!mouse, P!Booted
<1>5. CASE P!BootWrite
  <2>1. PICK b : P!ps2_write_data(b) \/ P!ps2_write_command(b)
    BY <1>5, BootWriteWrites
  <2>2. /\ source' = source
        /\ ctl' \in Seq(Byte) /\ (ctl # <<>> => ctl' # <<>>)
        /\ kbd' \in Seq(Byte) /\ (kbd # <<>> => kbd' # <<>>)
        /\ aux' \in Seq(Byte) /\ (aux # <<>> => aux' # <<>>)
    <3>1. ctl \in Seq(Byte) /\ kbd \in Seq(Byte) /\ aux \in Seq(Byte)
      BY DEF Wire
    <3>2. \A q, r \in Seq(Byte) : q \o r \in Seq(Byte) /\ (q # <<>> => q \o r # <<>>)
      <4>1. SUFFICES ASSUME NEW q \in Seq(Byte), NEW r \in Seq(Byte)
                     PROVE  q \o r \in Seq(Byte) /\ (q # <<>> => q \o r # <<>>)
        OBVIOUS
      <4>2. q # <<>> => Len(q) # 0
        OBVIOUS
      <4>3. QED
        BY <4>2, JoinPlaces
    <3>3. \A e \in Byte : <<e>> \in Seq(Byte) /\ <<e>> # <<>>
      OBVIOUS
    <3>4. QED
      BY <2>1, <3>1, <3>2, <3>3, WriteReplies
  <2>3. QED
    BY <1>5, <2>2, BootWriteWrites DEF Wire, P!Booted
<1>6. CASE P!BootRead
  <2>1. source # "none" /\ P!ps2_read_data /\ ~P!Booted
    BY <1>6 DEF P!BootRead
  <2>2. QED
    BY <1>6, <2>1, ReadTakes DEF Wire, P!BootRead, P!keyboard, P!mouse, P!users, P!Booted
<1>7. CASE P!BootSee \/ P!BootGiveUp
  BY <1>7 DEF Wire, P!BootSee, P!BootGiveUp, P!device, P!keyboard, P!mouse, P!users, P!Booted
<1>8. CASE P!GETCH
  <2>1. CASE source \in {"kbd", "ctl"}
    <3>1. P!ps2_read_data
      BY <1>8, <2>1 DEF P!GETCH, P!ps2_keyboard_fetch, P!ForKeyboard
    <3>2. QED
      BY <1>8, <2>1, <3>1, ReadTakes DEF Wire, P!GETCH, P!mouse, P!users, P!Booted
  <2>2. CASE source \notin {"kbd", "ctl"}
    <3>1. UNCHANGED <<source, ctl, kbd, aux>>
      BY <1>8, <2>2 DEF P!GETCH, P!ps2_keyboard_fetch, P!ForKeyboard
    <3>2. QED
      BY <1>8, <3>1 DEF Wire, P!GETCH, P!mouse, P!users, P!Booted
  <2>3. QED
    BY <2>1, <2>2
<1>9. CASE P!GetcharFetch
  <2>1. CASE source \in {"kbd", "ctl"}
    <3>1. P!ps2_read_data /\ P!Booted
      BY <1>9, <2>1 DEF P!GetcharFetch, P!ForKeyboard, Wire
    <3>2. QED
      BY <1>9, <2>1, <3>1, ReadTakes DEF Wire, P!GetcharFetch, P!mouse, P!users, P!Booted
  <2>2. CASE source \notin {"kbd", "ctl"}
    <3>1. UNCHANGED <<source, ctl, kbd, aux>> /\ P!Booted
      BY <1>9, <2>2 DEF P!GetcharFetch, P!ForKeyboard, Wire
    <3>2. QED
      BY <1>9, <3>1 DEF Wire, P!GetcharFetch, P!mouse, P!users, P!Booted
  <2>3. QED
    BY <2>1, <2>2
<1>10. CASE P!GetcharCalled \/ P!GetcharDecode \/ P!GetcharAssign \/ P!GetcharReturn
  BY <1>10 DEF Wire, P!GetcharCalled, P!GetcharDecode, P!GetcharAssign, P!GetcharReturn,
               P!device, P!mouse, P!users, P!Booted
<1>11. CASE P!MouseSees
  BY <1>11 DEF Wire, P!MouseSees, P!device, P!keyboard, P!users, P!Booted
<1>12. CASE P!MouseReads
  <2>1. source # "none" /\ P!ps2_read_data /\ P!Booted
    BY <1>12 DEF P!MouseReads, Wire
  <2>2. packet' \in Seq(Byte)
    <3>1. P!InBuffer \in Byte
      BY <2>1, ReadTakes
    <3>2. P!Received(P!InBuffer) \in Seq(Byte)
      BY <3>1, AppendPlaces DEF P!Received, Wire
    <3>3. <<>> \in Seq(Byte)
      OBVIOUS
    <3>4. QED
      BY <1>12, <3>2, <3>3 DEF P!MouseReads
  <2>3. QED
    BY <1>12, <2>1, <2>2, ReadTakes DEF Wire, P!MouseReads, P!keyboard, P!users, P!Booted
<1>13. QED
  BY <1>1, <1>2, <1>3, <1>4, <1>5, <1>6, <1>7, <1>8, <1>9, <1>10, <1>11, <1>12 DEF P!Ps2Next

LEMMA StaysDisturbed ==
  ASSUME [P!Ps2Next]_ps2Vars
  PROVE  /\ disturbed => disturbed'
         /\ getchar'.pc = "unused" => getchar.pc = "unused" /\ getchar' = getchar
         /\ P!Booted => P!Booted' /\ boot' = boot
<1>1. CASE P!GetcharCalled
  BY <1>1 DEF P!GetcharCalled, P!Idle, P!Booted
<1>2. CASE P!GetcharFetch
  <2>1. disturbed' = disturbed /\ boot' = boot
    BY <1>2 DEF P!GetcharFetch
  <2>2. getchar'.pc \in {"decode", "assign"}
    <3>1. CASE P!ForKeyboard
      <4>1. getchar' = [getchar EXCEPT !.pc = "decode", !.byte = P!InBuffer]
        BY <1>2, <3>1 DEF P!GetcharFetch
      <4>2. QED
        BY <4>1
    <3>2. CASE ~P!ForKeyboard
      BY <1>2, <3>2 DEF P!GetcharFetch, P!Idle
    <3>3. QED
      BY <3>1, <3>2
  <2>3. QED
    BY <2>1, <2>2 DEF P!Booted
<1>3. CASE P!GetcharDecode
  BY <1>3 DEF P!GetcharDecode, P!Booted
<1>4. CASE P!GetcharAssign
  BY <1>4 DEF P!GetcharAssign, P!Booted
<1>5. CASE P!GetcharReturn
  BY <1>5 DEF P!GetcharReturn, P!Idle, P!Booted
<1>6. CASE P!Press \/ P!Move
  BY <1>6 DEF P!Press, P!Move, P!keyboard, P!Booted
<1>7. CASE P!BootGiveUp
  <2>1. ~P!Booted /\ getchar' = getchar /\ (disturbed => disturbed')
    BY <1>7, Zenon DEF P!BootGiveUp, P!keyboard
  <2>2. QED
    BY <2>1
<1>8. CASE P!BootWrite \/ P!BootRead \/ P!BootSee
  BY <1>8 DEF P!BootWrite, P!BootRead, P!BootSee, P!keyboard
<1>9. CASE P!Fill \/ P!GETCH \/ P!MouseSees \/ P!MouseReads \/ UNCHANGED ps2Vars
  BY <1>9 DEF P!Fill, P!GETCH, P!MouseSees, P!MouseReads, ps2Vars, P!keyboard, P!Booted
<1>10. QED
  BY <1>1, <1>2, <1>3, <1>4, <1>5, <1>6, <1>7, <1>8, <1>9 DEF P!Ps2Next

LEMMA SaidKeeps ==
  ASSUME Wire, Said, [P!Ps2Next]_ps2Vars, ~disturbed'
  PROVE  Said'
<1>1. P!Booted => P!Booted'
  BY StaysDisturbed
<1>2. CASE UNCHANGED <<ctl, kbd, pressed>>
  BY <1>1, <1>2 DEF Said, Reply
<1>3. CASE P!Press
  <2>1. PICK code \in Keys : /\ kbd' = Append(kbd, [v |-> code, k |-> Len(pressed) + 1])
                             /\ pressed' = Append(pressed, code)
    BY <1>3 DEF P!Press
  <2>2. P!Booted /\ ctl' = ctl
    BY <1>3 DEF P!Press
  <2>3. Len(pressed) \in Nat /\ DOMAIN pressed = 1 .. Len(pressed)
        /\ DOMAIN pressed' = 1 .. Len(pressed) + 1 /\ pressed'[Len(pressed) + 1] = code
        /\ \A k \in DOMAIN pressed : k \in DOMAIN pressed' /\ pressed'[k] = pressed[k]
    BY <2>1, PartsAssumption DEF Wire, P!Ps2Assumption
  <2> DEFINE b == [v |-> code, k |-> Len(pressed) + 1]
  <2>4. b \in Byte /\ b.v = code /\ b.k = Len(pressed) + 1 /\ kbd \in Seq(Byte)
    BY <2>3, PartsAssumption DEF Wire, P!Ps2Assumption, Byte
  <2> HIDE DEF b
  <2>5. /\ DOMAIN kbd' = 1 .. Len(kbd) + 1 /\ DOMAIN kbd = 1 .. Len(kbd) /\ Len(kbd) \in Nat
        /\ \A i \in DOMAIN kbd : kbd'[i] = kbd[i]
        /\ kbd'[Len(kbd) + 1] = b
    <3>1. kbd' = Append(kbd, b)
      BY <2>1 DEF b
    <3>2. QED
      BY <2>4, <3>1, AppendPlaces
  <2>6. ASSUME NEW i \in DOMAIN kbd'
        PROVE  \/ Reply(kbd'[i])
               \/ kbd'[i].k \in DOMAIN pressed' /\ kbd'[i].v = pressed'[kbd'[i].k]
    <3>1. CASE i \in DOMAIN kbd
      BY <2>3, <2>5, <3>1 DEF Said
    <3>2. CASE i = Len(kbd) + 1
      <4> DEFINE n == Len(pressed) + 1
      <4>1. n \in 1 .. Len(pressed) + 1 /\ pressed'[n] = code /\ n \in DOMAIN pressed'
        BY <2>3
      <4>2. kbd'[i].k = n /\ kbd'[i].v = code
        <5>1. kbd'[i] = b
          BY <2>5, <3>2
        <5>2. QED
          BY <2>4, <5>1
      <4> HIDE DEF n
      <4>3. QED
        BY <4>1, <4>2
    <3>3. QED
      BY <2>5, <2>6, <3>1, <3>2
  <2>7. P!Booted' /\ \A i \in DOMAIN ctl' : Reply(ctl'[i])
    BY <1>1, <2>2 DEF Said
  <2>8. QED
    BY <2>6, <2>7 DEF Said, Reply
<1>4. CASE P!BootWrite
  <2>1. PICK b : P!ps2_write_data(b) \/ P!ps2_write_command(b)
    BY <1>4, BootWriteWrites
  <2>2. pressed' = pressed /\ pressed = <<>>
    BY <1>4, BootWriteWrites DEF Said
  <2>3. \A i \in DOMAIN ctl' : Reply(ctl'[i])
    BY <2>1, WriteReplies DEF Said, Reply
  <2>4. PICK r \in Seq(Byte) : (kbd' = kbd \o r \/ kbd' = kbd) /\ \A i \in DOMAIN r : Reply(r[i])
    BY <2>1, WriteReplies
  <2>5. \A i \in DOMAIN kbd : Reply(kbd[i])
    BY <2>2 DEF Said
  <2>6. \A i \in DOMAIN (kbd \o r) :
          \/ i \in DOMAIN kbd /\ (kbd \o r)[i] = kbd[i]
          \/ \E j \in DOMAIN r : (kbd \o r)[i] = r[j]
    <3>1. kbd \in Seq(Byte)
      BY DEF Wire
    <3>2. ASSUME NEW i \in DOMAIN (kbd \o r), i \notin 1 .. Len(kbd)
          PROVE  \E j \in 1 .. Len(r) : i = Len(kbd) + j
      <4>1. Len(kbd) \in Nat /\ Len(r) \in Nat /\ i \in 1 .. Len(kbd) + Len(r)
        BY <3>1, JoinPlaces
      <4>2. i - Len(kbd) \in 1 .. Len(r) /\ i = Len(kbd) + (i - Len(kbd))
        BY <3>2, <4>1
      <4>3. QED
        BY <4>2
    <3>3. DOMAIN kbd = 1 .. Len(kbd) /\ DOMAIN r = 1 .. Len(r)
      BY <3>1, JoinPlaces
    <3>4. QED
      BY <3>1, <3>2, <3>3, JoinPlaces
  <2>7. \A i \in DOMAIN (kbd \o r) : Reply((kbd \o r)[i])
    BY <2>4, <2>5, <2>6
  <2>8. \A i \in DOMAIN kbd' : Reply(kbd'[i])
    BY <2>4, <2>5, <2>7
  <2>9. QED
    BY <2>2, <2>3, <2>8 DEF Said, Reply
<1>5. CASE source # "none" /\ P!ps2_read_data /\ pressed' = pressed
  BY <1>1, <1>5, SaidRead
<1>6. QED
  BY <1>2, <1>3, <1>4, <1>5
  DEF P!Ps2Next, ps2Vars, P!Fill, P!Move, P!BootRead, P!BootSee, P!BootGiveUp, P!GETCH,
      P!ps2_keyboard_fetch, P!ForKeyboard, P!GetcharCalled, P!GetcharFetch, P!GetcharDecode,
      P!GetcharAssign, P!GetcharReturn, P!MouseSees, P!MouseReads, P!device, P!users

(* A read changes neither what was handed out nor what is known of it, if  *)
(* the byte types nothing or is the mouse's.                               *)
LEMMA OrderRead ==
  ASSUME Wire, Said, InOrder(taken, kbd, pressed), source # "none", P!ps2_read_data,
         pressed' = pressed,
         taken' = P!Note(<<P!InBuffer.k, P!Decode(P!InBuffer.v)>>)
           \/ (taken' = taken /\ (source = "kbd" => ~Presses(Head(kbd)))),
         source # "aux" \/ taken' = taken
  PROVE  InOrder(taken', kbd', pressed')
<1>1. CASE source = "aux"
  BY <1>1, ReadTakes
<1>2. CASE source = "ctl"
  <2>1. kbd' = kbd /\ Reply(P!InBuffer) /\ P!InBuffer \in Byte
    BY <1>2, ReadTakes DEF Wire, Said
  <2>2. taken' = taken
    BY <2>1, ReplyTypesNothing DEF P!Note
  <2>3. QED
    BY <2>1, <2>2
<1>3. CASE source = "kbd"
  <2>1. kbd # <<>> /\ kbd \in Seq(Byte) /\ kbd' = Tail(kbd) /\ P!InBuffer = Head(kbd)
        /\ Head(kbd) \in Byte
    BY <1>3, ReadTakes DEF Wire
  <2>2. Head(kbd).v \in 0 .. 255 /\ Head(kbd).k \in Nat
    BY <2>1 DEF Byte
  <2>3. \/ Reply(Head(kbd))
        \/ Head(kbd).k \in DOMAIN pressed /\ Head(kbd).k # 0
    BY <2>1 DEF Said, Wire
  <2>4. CASE Presses(Head(kbd))
    <3>1. Head(kbd).k \in DOMAIN pressed
      BY <2>1, <2>3, <2>4, ReplyTypesNothing
    <3>2. P!Decode(Head(kbd).v) \in Nat \ {0}
      BY <2>2, <2>4, DecodeTypes DEF Presses
    <3>3. taken' = Append(taken, <<Head(kbd).k, P!Decode(Head(kbd).v)>>)
      BY <1>3, <2>1, <2>4, <3>2 DEF P!Note
    <3>4. <<Head(kbd).k, P!Decode(Head(kbd).v)>> \in Nat \X Nat
      BY <2>2, <3>2
    <3>5. QED
      BY <2>1, <2>4, <3>1, <3>3, <3>4, OrderTaken
  <2>5. CASE ~Presses(Head(kbd))
    <3>1. P!Decode(Head(kbd).v) = 0
      BY <2>1, <2>2, <2>3, <2>5, DecodeTypes, ReplyTypesNothing DEF Presses
    <3>2. taken' = taken
      BY <2>1, <3>1 DEF P!Note
    <3>3. QED
      BY <2>1, <2>5, <3>2, OrderDropped
  <2>6. QED
    BY <2>4, <2>5
<1>4. QED
  BY <1>1, <1>2, <1>3 DEF Wire

LEMMA OrderKeeps ==
  ASSUME Wire, Said, [P!Ps2Next]_ps2Vars, ~disturbed', getchar'.pc = "unused",
         InOrder(taken, kbd, pressed)
  PROVE  InOrder(taken', kbd', pressed')
<1>1. getchar.pc = "unused" /\ getchar' = getchar
  BY StaysDisturbed
<1>2. CASE UNCHANGED <<kbd, pressed, taken>>
  BY <1>2
<1>3. CASE P!Press
  <2>1. PICK code \in Keys : /\ kbd' = Append(kbd, [v |-> code, k |-> Len(pressed) + 1])
                             /\ pressed' = Append(pressed, code)
    BY <1>3 DEF P!Press
  <2>2. taken' = taken
    BY <1>3 DEF P!Press, P!keyboard
  <2>3. Known(kbd, pressed)
    BY DEF Said, Known, Presses, Reply
  <2>4. code \in 0 .. 255 /\ kbd \in Seq(Byte) /\ pressed \in Seq(0 .. 255)
    BY PartsAssumption DEF P!Ps2Assumption, Wire
  <2>5. QED
    BY <2>1, <2>2, <2>3, <2>4, OrderPressed
<1>4. CASE P!BootWrite
  <2>1. PICK b : P!ps2_write_data(b) \/ P!ps2_write_command(b)
    BY <1>4, BootWriteWrites
  <2>2. PICK r \in Seq(Byte) : (kbd' = kbd \o r \/ kbd' = kbd) /\ \A i \in DOMAIN r : Reply(r[i])
    BY <2>1, WriteReplies
  <2>3. \A i \in DOMAIN r : ~Presses(r[i])
    BY <2>2 DEF Reply, Presses
  <2>4. pressed' = pressed /\ taken' = taken /\ kbd \in Seq(Byte)
    BY <1>4, BootWriteWrites DEF Wire
  <2>5. QED
    BY <2>2, <2>3, <2>4, OrderReplied
<1>5. CASE P!BootRead
  <2>1. source # "none" /\ P!ps2_read_data /\ pressed' = pressed /\ taken' = taken /\ ~P!Booted
    BY <1>5 DEF P!BootRead, P!keyboard, P!users
  <2>2. source = "kbd" => ~Presses(Head(kbd))
    BY <2>1 DEF Said, Wire, Reply, Presses
  <2>3. QED
    BY <2>1, <2>2, OrderRead
<1>6. CASE P!GETCH
  <2>1. CASE source \in {"kbd", "ctl"}
    <3>1. /\ source # "none" /\ P!ps2_read_data /\ pressed' = pressed
          /\ taken' = P!Note(<<P!InBuffer.k, P!Decode(P!InBuffer.v)>>)
      BY <1>6, <2>1 DEF P!GETCH, P!ps2_keyboard_fetch, P!ForKeyboard, P!users
    <3>2. QED
      BY <2>1, <3>1, OrderRead
  <2>2. CASE source \notin {"kbd", "ctl"}
    BY <1>2, <1>6, <2>2 DEF P!GETCH, P!ps2_keyboard_fetch, P!ForKeyboard, P!users
  <2>3. QED
    BY <2>1, <2>2
<1>7. CASE P!MouseReads
  <2>1. source = "aux" /\ P!ps2_read_data /\ pressed' = pressed /\ taken' = taken
    BY <1>7 DEF P!MouseReads, Wire, P!keyboard, P!users
  <2>2. QED
    BY <2>1, OrderRead
<1>8. QED
  BY <1>1, <1>2, <1>3, <1>4, <1>5, <1>6, <1>7
  DEF P!Ps2Next, ps2Vars, P!Fill, P!Move, P!BootSee, P!BootGiveUp, P!GetcharCalled,
      P!GetcharFetch, P!GetcharDecode, P!GetcharAssign, P!GetcharReturn, P!MouseSees,
      P!device, P!keyboard, P!users, P!Idle

LEMMA Ps2Step ==
  ASSUME [PartsNext]_vars
  PROVE  [P!Ps2Next]_ps2Vars
BY DEF PartsNext, Turn, Others, vars

LEMMA KeyInvariant == PartsSpec => []KeyInv
<1>1. PartsInit => KeyInv
  <2> SUFFICES ASSUME PartsInit PROVE KeyInv
    OBVIOUS
  <2>1. /\ source = "none" /\ ctl = <<>> /\ kbd = <<>> /\ aux = <<>> /\ boot = <<1, 1>>
        /\ getchar = P!Idle /\ taken = <<>> /\ pressed = <<>> /\ packet = <<>> /\ reader = FALSE
    BY DEF PartsInit, P!Ps2Init
  <2>2. <<>> \in Seq(Byte) /\ <<>> \in Seq(0 .. 255) /\ <<>> \in Seq(Nat \X Nat)
    OBVIOUS
  <2>3. Wire
    BY <2>1, <2>2 DEF P!Idle, P!Booted, Wire
  <2>4. DOMAIN kbd = {} /\ DOMAIN ctl = {} /\ DOMAIN taken = {} /\ DOMAIN pressed = {}
    BY <2>1
  <2>5. Said /\ InOrder(taken, kbd, pressed)
    BY <2>1, <2>2, <2>4 DEF Said, InOrder
  <2>6. QED
    BY <2>3, <2>5 DEF KeyInv
<1>2. KeyInv /\ [PartsNext]_vars => KeyInv'
  <2> SUFFICES ASSUME KeyInv, [PartsNext]_vars PROVE KeyInv'
    OBVIOUS
  <2>1. [P!Ps2Next]_ps2Vars
    BY Ps2Step
  <2>2. Wire'
    BY <2>1, WireKeeps DEF KeyInv
  <2>3. ~disturbed' => Said'
    BY <2>1, SaidKeeps, StaysDisturbed DEF KeyInv
  <2>4. ~disturbed' /\ getchar'.pc = "unused" => InOrder(taken', kbd', pressed')
    BY <2>1, OrderKeeps, StaysDisturbed DEF KeyInv
  <2>5. QED
    BY <2>2, <2>3, <2>4 DEF KeyInv, InOrder, Presses
<1>3. QED
  BY <1>1, <1>2, PTL DEF PartsSpec

(* As long as processes alone read the keyboard they are handed the        *)
(* characters of the presses in order, each once, and lose none, for every *)
(* number of presses and every scan code (keyboard.c:21-124).              *)
THEOREM KeysArriveInOrder == PartsSpec => []KeysInOrder
<1>1. KeyInv => KeysInOrder
  <2> SUFFICES ASSUME KeyInv, ~disturbed, getchar.pc = "unused"
               PROVE  KeysInOrder
    BY DEF KeysInOrder, P!KeysInOrder
  <2>1. InOrder(taken, kbd, pressed)
    BY DEF KeyInv
  <2>2. QED
    BY <2>1 DEF InOrder, Presses, KeysInOrder, P!KeysInOrder
<1>2. QED
  BY <1>1, KeyInvariant, PTL

-----------------------------------------------------------------------------
(* The mouse: what each queue holds at each step of the start-up.          *)

Says(q, values) ==
  Len(q) = Len(values) /\ \A i \in 1 .. Len(values) : q[i] = P!Plain(values[i])

(* At these steps of a function of the start-up the keyboard, the mouse    *)
(* and the controller have this to say, the next data byte goes there, and *)
(* the mouse is listened to or not.                                        *)
Line(p, ns, keys, moves, answer, to, off) ==
  /\ boot \in {<<p, n>> : n \in ns}
  /\ Says(kbd, keys) /\ Says(aux, moves) /\ Says(ctl, answer) /\ next = to /\ muted = off

(* The keyboard's start-up ends when nothing comes any more.               *)
Drained ==
  \/ boot = <<4, 4>> /\ next = "kbd" /\ ~muted
  \/ boot \in {<<4, n>> : n \in 5 .. 9} /\ next = "kbd" /\ aux = <<>>

Conversation ==
  \/ Line(1, {1, 2, 4}, <<>>, <<>>, <<>>, "kbd", FALSE)
  \/ Line(1, {3}, <<P!ECHO>>, <<>>, <<>>, "kbd", FALSE)
  \/ Line(1, {5}, <<P!ACK, P!PASS>>, <<>>, <<>>, "kbd", FALSE)
  \/ Line(1, {6}, <<P!PASS>>, <<>>, <<>>, "kbd", FALSE)
  \/ Line(2, {1, 2, 6, 14}, <<>>, <<>>, <<>>, "kbd", FALSE)
  \/ Line(2, {3, 4, 5}, <<>>, <<>>, <<0>>, "kbd", FALSE)
  \/ Line(2, {7}, <<>>, <<>>, <<>>, "config", FALSE)
  \/ Line(2, {8, 10}, <<>>, <<>>, <<>>, "kbd", TRUE)
  \/ Line(2, {9}, <<>>, <<>>, <<0>>, "kbd", TRUE)
  \/ Line(2, {11}, <<>>, <<>>, <<>>, "aux", TRUE)
  \/ Line(2, {12}, <<>>, <<P!ACK, 0>>, <<>>, "kbd", FALSE)
  \/ Line(2, {13}, <<>>, <<0>>, <<>>, "kbd", FALSE)
  \/ Line(3, {1, 2}, <<>>, <<>>, <<>>, "kbd", FALSE)
  \/ Line(3, {3}, <<>>, <<>>, <<>>, "aux", FALSE)
  \/ Line(3, {4}, <<>>, <<P!ACK, P!PASS, 0>>, <<>>, "kbd", FALSE)
  \/ Line(3, {5}, <<>>, <<P!PASS, 0>>, <<>>, "kbd", FALSE)
  \/ Line(3, {6}, <<>>, <<P!PASS, 0>>, <<>>, "aux", FALSE)
  \/ Line(3, {7}, <<>>, <<P!PASS, 0, P!ACK>>, <<>>, "kbd", FALSE)
  \/ Line(3, {8}, <<>>, <<0, P!ACK>>, <<>>, "kbd", FALSE)
  \/ Line(3, {9}, <<>>, <<0, P!ACK>>, <<>>, "aux", FALSE)
  \/ Line(3, {10}, <<>>, <<0, P!ACK, P!ACK>>, <<>>, "kbd", FALSE)
  \/ Line(3, {11}, <<>>, <<P!ACK, P!ACK>>, <<>>, "kbd", FALSE)
  \/ Line(3, {12}, <<>>, <<P!ACK, P!ACK>>, <<>>, "aux", FALSE)
  \/ Line(3, {13}, <<>>, <<P!ACK, P!ACK, P!ACK>>, <<>>, "kbd", FALSE)
  \/ Line(4, {1, 2}, <<>>, <<P!ACK, P!ACK>>, <<>>, "kbd", FALSE)
  \/ Line(4, {3}, <<P!ACK, P!PASS>>, <<P!ACK, P!ACK>>, <<>>, "kbd", FALSE)
  \/ Drained

(* A step of the start-up that no one disturbs.                            *)
Boots == P!BootWrite \/ P!BootRead \/ P!BootSee \/ (P!BootGiveUp /\ ~P!Coming)

LEMMA DoCommand ==
  ASSUME Boots, NEW c, P!BootStep = P!Cmd(c)
  PROVE  boot' = P!Onward /\ P!ps2_write_command(c)
BY DEF Boots, P!BootWrite, P!BootRead, P!BootSee, P!BootGiveUp, P!Cmd

(* The six commands: enable the mouse's port, ask for the configuration,   *)
(* test the mouse's port, set the configuration, address the mouse, enable *)
(* the keyboard's port.                                                    *)
LEMMA DoEnable ==
  ASSUME Boots, P!BootStep = P!Cmd(168)
  PROVE  /\ boot' = P!Onward /\ kbd' = kbd /\ aux' = aux
         /\ ctl' = ctl /\ next' = next /\ muted' = FALSE
<1>1. boot' = P!Onward /\ P!ps2_write_command(168)
  BY DoCommand
<1>2. muted' = (muted /\ 168 # 168)
  BY <1>1 DEF P!ps2_write_command
<1>3. muted' = FALSE
  BY <1>2, Zenon
<1>4. QED
  BY <1>1, <1>3 DEF P!ps2_write_command

LEMMA DoAsk ==
  ASSUME Boots, P!BootStep = P!Cmd(32)
  PROVE  /\ boot' = P!Onward /\ kbd' = kbd /\ aux' = aux
         /\ ctl' = <<P!Plain(0)>> /\ next' = next /\ (muted \in BOOLEAN => muted' = muted)
<1>1. boot' = P!Onward /\ P!ps2_write_command(32)
  BY DoCommand
<1>2. muted' = (muted /\ 32 # 168)
  BY <1>1 DEF P!ps2_write_command
<1>3. muted \in BOOLEAN => muted' = muted
  <2>1. 32 # 168
    OBVIOUS
  <2>2. QED
    BY <1>2, <2>1, Zenon
<1>4. QED
  BY <1>1, <1>3 DEF P!ps2_write_command

LEMMA DoTest ==
  ASSUME Boots, P!BootStep = P!Cmd(169)
  PROVE  /\ boot' = P!Onward /\ kbd' = kbd /\ aux' = aux
         /\ ctl' = <<P!Plain(0)>> /\ next' = next /\ (muted \in BOOLEAN => muted' = muted)
<1>1. boot' = P!Onward /\ P!ps2_write_command(169)
  BY DoCommand
<1>2. muted' = (muted /\ 169 # 168)
  BY <1>1 DEF P!ps2_write_command
<1>3. muted \in BOOLEAN => muted' = muted
  <2>1. 169 # 168
    OBVIOUS
  <2>2. QED
    BY <1>2, <2>1, Zenon
<1>4. QED
  BY <1>1, <1>3 DEF P!ps2_write_command

LEMMA DoConfigure ==
  ASSUME Boots, P!BootStep = P!Cmd(96)
  PROVE  /\ boot' = P!Onward /\ kbd' = kbd /\ aux' = aux
         /\ ctl' = ctl /\ next' = "config" /\ (muted \in BOOLEAN => muted' = muted)
<1>1. boot' = P!Onward /\ P!ps2_write_command(96)
  BY DoCommand
<1>2. muted' = (muted /\ 96 # 168)
  BY <1>1 DEF P!ps2_write_command
<1>3. muted \in BOOLEAN => muted' = muted
  <2>1. 96 # 168
    OBVIOUS
  <2>2. QED
    BY <1>2, <2>1, Zenon
<1>4. QED
  BY <1>1, <1>3 DEF P!ps2_write_command

LEMMA DoAddress ==
  ASSUME Boots, P!BootStep = P!Cmd(212)
  PROVE  /\ boot' = P!Onward /\ kbd' = kbd /\ aux' = aux
         /\ ctl' = ctl /\ next' = "aux" /\ (muted \in BOOLEAN => muted' = muted)
<1>1. boot' = P!Onward /\ P!ps2_write_command(212)
  BY DoCommand
<1>2. muted' = (muted /\ 212 # 168)
  BY <1>1 DEF P!ps2_write_command
<1>3. muted \in BOOLEAN => muted' = muted
  <2>1. 212 # 168
    OBVIOUS
  <2>2. QED
    BY <1>2, <2>1, Zenon
<1>4. QED
  BY <1>1, <1>3 DEF P!ps2_write_command

LEMMA DoEnableKeys ==
  ASSUME Boots, P!BootStep = P!Cmd(174)
  PROVE  /\ boot' = P!Onward /\ kbd' = kbd /\ aux' = aux
         /\ ctl' = ctl /\ next' = next /\ (muted \in BOOLEAN => muted' = muted)
<1>1. boot' = P!Onward /\ P!ps2_write_command(174)
  BY DoCommand
<1>2. muted' = (muted /\ 174 # 168)
  BY <1>1 DEF P!ps2_write_command
<1>3. muted \in BOOLEAN => muted' = muted
  <2>1. 174 # 168
    OBVIOUS
  <2>2. QED
    BY <1>2, <2>1, Zenon
<1>4. QED
  BY <1>1, <1>3 DEF P!ps2_write_command

LEMMA DoData ==
  ASSUME Boots, NEW b, P!BootStep = P!Data(b)
  PROVE  boot' = P!Onward /\ P!ps2_write_data(b)
BY DEF Boots, P!BootWrite, P!BootRead, P!BootSee, P!BootGiveUp, P!Data

LEMMA DoKeyboardData ==
  ASSUME Boots, NEW b, P!BootStep = P!Data(b), next = "kbd"
  PROVE  /\ boot' = P!Onward /\ ctl' = ctl /\ next' = "kbd" /\ muted' = muted
         /\ kbd' = kbd \o P!Answers("kbd", b) /\ aux' = aux
BY DoData DEF P!ps2_write_data

LEMMA DoMouseData ==
  ASSUME Boots, NEW b, P!BootStep = P!Data(b), next = "aux"
  PROVE  /\ boot' = P!Onward /\ ctl' = ctl /\ next' = "kbd" /\ muted' = FALSE
         /\ kbd' = kbd /\ aux' = aux \o P!Answers("aux", b)
<1>1. boot' = P!Onward /\ P!ps2_write_data(b) /\ next # "kbd" /\ next # "config"
  BY DoData
<1>2. muted' = (next = "config")
  BY <1>1 DEF P!ps2_write_data
<1>3. muted' = FALSE
  BY <1>1, <1>2, Zenon
<1>4. QED
  BY <1>1, <1>3 DEF P!ps2_write_data

LEMMA DoConfig ==
  ASSUME Boots, P!BootStep = P!Config
  PROVE  boot' = P!Onward /\ P!ps2_write_data(32)
BY DEF Boots, P!BootWrite, P!BootRead, P!BootSee, P!BootGiveUp, P!Config

(* Where nothing is on its way no read waits for ever.                     *)
LEMMA DoPass ==
  ASSUME Boots, source = "none", P!BootStep[1] \in {"any", "flush"}
  PROVE  boot' = P!Onward /\ UNCHANGED <<kbd, aux, ctl, next, muted>>
BY DEF Boots, P!BootWrite, P!BootRead, P!BootSee, P!BootGiveUp, P!device

LEMMA DoAwait ==
  ASSUME Boots, P!Coming, P!BootStep = <<"await", 0>>
  PROVE  boot' = P!Onward /\ UNCHANGED <<kbd, aux, ctl, next, muted>>
BY DEF Boots, P!BootWrite, P!BootRead, P!BootSee, P!BootGiveUp, P!device

LEMMA SaysNothing ==
  ASSUME NEW q \in Seq(Byte)
  PROVE  Says(q, <<>>) <=> q = <<>>
BY DEF Says

LEMMA SaysOneByte ==
  ASSUME NEW q, NEW x
  PROVE  Says(q, <<x>>) <=> Len(q) = 1 /\ q[1] = P!Plain(x)
BY DEF Says

LEMMA SaysTwoBytes ==
  ASSUME NEW q, NEW x, NEW y
  PROVE  Says(q, <<x, y>>) <=> Len(q) = 2 /\ q[1] = P!Plain(x) /\ q[2] = P!Plain(y)
BY DEF Says

LEMMA SaysThreeBytes ==
  ASSUME NEW q, NEW x, NEW y, NEW z
  PROVE  Says(q, <<x, y, z>>) <=> /\ Len(q) = 3 /\ q[1] = P!Plain(x) /\ q[2] = P!Plain(y)
                                  /\ q[3] = P!Plain(z)
BY DEF Says

(* What is heard of up to three bytes, and one byte more.                  *)
LEMMA SaysTail ==
  ASSUME NEW q \in Seq(Byte), NEW x, NEW y, NEW z
  PROVE  /\ Says(q, <<x>>) => q # <<>> /\ Head(q).v = x /\ Says(Tail(q), <<>>)
         /\ Says(q, <<x, y>>) => q # <<>> /\ Head(q).v = x /\ Says(Tail(q), <<y>>)
         /\ Says(q, <<x, y, z>>) => q # <<>> /\ Head(q).v = x /\ Says(Tail(q), <<y, z>>)
<1>1. Len(q) # 0 => q # <<>>
  OBVIOUS
<1>2. P!Plain(x).v = x
  BY DEF P!Plain
<1>3. ASSUME Says(q, <<x>>) PROVE q # <<>> /\ Head(q).v = x /\ Says(Tail(q), <<>>)
  <2>1. Len(q) = 1 /\ q[1] = P!Plain(x) /\ q # <<>>
    BY <1>1, <1>3, SaysOneByte
  <2>2. Tail(q) \in Seq(Byte) /\ Len(Tail(q)) = 0 /\ Head(q) = P!Plain(x)
    BY <2>1, TailPlaces
  <2>3. Says(Tail(q), <<>>)
    BY <2>2 DEF Says
  <2>4. QED
    BY <1>2, <2>1, <2>2, <2>3
<1>4. ASSUME Says(q, <<x, y>>) PROVE q # <<>> /\ Head(q).v = x /\ Says(Tail(q), <<y>>)
  <2>1. Len(q) = 2 /\ q[1] = P!Plain(x) /\ q[2] = P!Plain(y) /\ q # <<>>
    BY <1>1, <1>4, SaysTwoBytes
  <2>2. Len(Tail(q)) = 1 /\ Tail(q)[1] = q[2] /\ Head(q) = P!Plain(x)
    BY <2>1, TailPlaces
  <2>3. QED
    BY <1>2, <2>1, <2>2, SaysOneByte
<1>5. ASSUME Says(q, <<x, y, z>>) PROVE q # <<>> /\ Head(q).v = x /\ Says(Tail(q), <<y, z>>)
  <2>1. Len(q) = 3 /\ q[1] = P!Plain(x) /\ q[2] = P!Plain(y) /\ q[3] = P!Plain(z) /\ q # <<>>
    BY <1>1, <1>5, SaysThreeBytes
  <2>2. Len(Tail(q)) = 2 /\ Tail(q)[1] = q[2] /\ Tail(q)[2] = q[3] /\ Head(q) = P!Plain(x)
    <3>1. /\ Len(Tail(q)) = Len(q) - 1 /\ Head(q) = q[1]
          /\ \A i \in 1 .. Len(q) - 1 : Tail(q)[i] = q[i + 1]
      BY <2>1, TailPlaces
    <3>2. 1 \in 1 .. Len(q) - 1 /\ 2 \in 1 .. Len(q) - 1
      BY <2>1
    <3>3. QED
      BY <2>1, <3>1, <3>2
  <2>3. QED
    BY <1>2, <2>1, <2>2, SaysTwoBytes, ZenonT(40)
<1>6. QED
  BY <1>3, <1>4, <1>5

LEMMA SaysMore ==
  ASSUME NEW q \in Seq(Byte), NEW r \in Seq(Byte)
  PROVE  /\ \A values : Says(q, <<>>) /\ Says(r, values) => Says(q \o r, values)
         /\ \A x, y, z : Says(q, <<x, y>>) /\ Says(r, <<z>>) => Says(q \o r, <<x, y, z>>)
<1>1. ASSUME NEW values, Says(q, <<>>), Says(r, values) PROVE Says(q \o r, values)
  <2>1. q \o r = r
    BY <1>1, SaysNothing
  <2>2. QED
    BY <1>1, <2>1
<1>2. ASSUME NEW x, NEW y, NEW z, Says(q, <<x, y>>), Says(r, <<z>>)
      PROVE  Says(q \o r, <<x, y, z>>)
  <2>1. Len(q) = 2 /\ q[1] = P!Plain(x) /\ q[2] = P!Plain(y) /\ Len(r) = 1 /\ r[1] = P!Plain(z)
    BY <1>2, SaysOneByte, SaysTwoBytes
  <2>2. /\ Len(q \o r) = 3 /\ (q \o r)[1] = q[1] /\ (q \o r)[2] = q[2]
        /\ (q \o r)[3] = r[1]
    <3>1. Len(q \o r) = Len(q) + Len(r) /\ 1 \in 1 .. Len(q) /\ 2 \in 1 .. Len(q)
          /\ 1 \in 1 .. Len(r) /\ Len(q) + 1 = 3
      BY <2>1, JoinPlaces, SMTT(25)
    <3>2. QED
      BY <2>1, <3>1, JoinPlaces
  <2> DEFINE s == q \o r
  <2>3. Len(s) = 3 /\ s[1] = P!Plain(x) /\ s[2] = P!Plain(y) /\ s[3] = P!Plain(z)
    BY <2>1, <2>2
  <2> HIDE DEF s
  <2>4. Says(s, <<x, y, z>>)
    BY <2>3, SaysThreeBytes
  <2>5. QED
    BY <2>4 DEF s
<1>3. QED
  BY <1>1, <1>2

LEMMA KeyboardHears ==
  ASSUME Wire, Boots, NEW b, P!BootStep = P!Data(b), next = "kbd", Says(kbd, <<>>),
         NEW values, Says(P!Answers("kbd", b), values)
  PROVE  /\ boot' = P!Onward /\ ctl' = ctl /\ next' = "kbd" /\ muted' = muted
         /\ Says(kbd', values) /\ aux' = aux
<1>1. kbd \in Seq(Byte) /\ P!Answers("kbd", b) \in Seq(Byte)
  BY AnswersReply DEF Wire
<1>2. Says(kbd \o P!Answers("kbd", b), values)
  BY <1>1, SaysMore
<1>3. QED
  BY <1>2, DoKeyboardData

LEMMA MouseHears ==
  ASSUME Wire, Boots, NEW b, P!BootStep = P!Data(b), next = "aux"
  PROVE  /\ boot' = P!Onward /\ ctl' = ctl /\ next' = "kbd" /\ muted' = FALSE /\ kbd' = kbd
         /\ \A values : Says(aux, <<>>) /\ Says(P!Answers("aux", b), values) => Says(aux', values)
         /\ \A x, y, z : Says(aux, <<x, y>>) /\ Says(P!Answers("aux", b), <<z>>)
                        => Says(aux', <<x, y, z>>)
<1>1. aux \in Seq(Byte) /\ P!Answers("aux", b) \in Seq(Byte)
  BY AnswersReply DEF Wire
<1>2. /\ aux' = aux \o P!Answers("aux", b)
      /\ boot' = P!Onward /\ ctl' = ctl /\ next' = "kbd" /\ muted' = FALSE /\ kbd' = kbd
  BY DoMouseData
<1>3. QED
  BY <1>1, <1>2, SaysMore

LEMMA AnswersSay ==
  /\ Says(P!Answers("kbd", 238), <<P!ECHO>>)
  /\ Says(P!Answers("kbd", 255), <<P!ACK, P!PASS>>)
  /\ Says(P!Answers("aux", 255), <<P!ACK, P!PASS, 0>>)
  /\ Says(P!Answers("aux", 242), <<P!ACK, 0>>)
  /\ \A b \in {244, 243, 100} : Says(P!Answers("aux", b), <<P!ACK>>)
BY DEF P!Answers, Says

LEMMA SaysOne == Says(<<P!Plain(0)>>, <<0>>)
BY DEF Says

(* What is on its way is read; a read that waits for it goes on if it is   *)
(* what it wants.                                                          *)
LEMMA ReadOn ==
  ASSUME Boots, P!Coming, P!BootStep[1] \in {"want", "any", "read"},
         source # "none" /\ P!BootStep[1] = "want" => P!InBuffer.v \in P!BootStep[2]
  PROVE  /\ boot' = P!Onward /\ source # "none" /\ P!ps2_read_data
         /\ next' = next /\ muted' = muted
BY DEF Boots, P!BootWrite, P!BootRead, P!BootSee, P!BootGiveUp

(* ps2_keyboard_present.                                                   *)
LEMMA KeyboardPresent ==
  ASSUME Wire, Boots, Conversation, NEW n \in 1 .. 6, boot = <<1, n>>
  PROVE  Conversation'
<1>1. CASE n = 1
  <2>1. P!BootStep = P!Flush /\ P!Onward = <<1, 2>>
    BY <1>1 DEF P!BootStep, P!Onward, P!Startup, P!ps2_keyboard_present
  <2>2. Line(1, {1, 2, 4}, <<>>, <<>>, <<>>, "kbd", FALSE)
    BY <1>1 DEF Conversation, Drained, Line
  <2>3. source = "none"
    BY <2>2, SaysNothing DEF Line, Wire
  <2>4. Line(1, {1, 2, 4}, <<>>, <<>>, <<>>, "kbd", FALSE)'
    BY <2>1, <2>2, <2>3, DoPass DEF Line, P!Any, P!Flush
  <2>5. QED
    BY <2>4 DEF Conversation
<1>2. CASE n = 2
  <2>1. P!BootStep = P!Data(238) /\ P!Onward = <<1, 3>>
    BY <1>2 DEF P!BootStep, P!Onward, P!Startup, P!ps2_keyboard_present
  <2>2. Line(1, {1, 2, 4}, <<>>, <<>>, <<>>, "kbd", FALSE)
    BY <1>2 DEF Conversation, Drained, Line
  <2>3. Line(1, {3}, <<P!ECHO>>, <<>>, <<>>, "kbd", FALSE)'
    BY <2>1, <2>2, KeyboardHears, AnswersSay DEF Line
  <2>4. QED
    BY <2>3 DEF Conversation
<1>3. CASE n = 3
  <2>1. P!BootStep = P!Want({P!ECHO}) /\ P!Onward = <<1, 4>>
    BY <1>3 DEF P!BootStep, P!Onward, P!Startup, P!ps2_keyboard_present
  <2>2. Line(1, {3}, <<P!ECHO>>, <<>>, <<>>, "kbd", FALSE)
    BY <1>3 DEF Conversation, Drained, Line
  <2>3. kbd # <<>> /\ Head(kbd).v = P!ECHO /\ Says(Tail(kbd), <<>>)
    BY <2>2, SaysTail DEF Line, Wire
  <2>4. source # "none" => source = "kbd" /\ P!InBuffer.v = P!ECHO
    BY <2>2, <2>3, SaysNothing DEF Line, Wire, P!InBuffer
  <2>5. /\ boot' = <<1, 4>> /\ source = "kbd" /\ P!ps2_read_data
        /\ next' = next /\ muted' = muted
    BY <2>1, <2>2, <2>3, <2>4, ReadOn DEF Line, P!Coming, P!Want
  <2>6. Line(1, {1, 2, 4}, <<>>, <<>>, <<>>, "kbd", FALSE)'
    BY <2>2, <2>3, <2>5, SaysNothing DEF Line, Wire, P!ps2_read_data
  <2>7. QED
    BY <2>6 DEF Conversation
<1>4. CASE n = 4
  <2>1. P!BootStep = P!Data(255) /\ P!Onward = <<1, 5>>
    BY <1>4 DEF P!BootStep, P!Onward, P!Startup, P!ps2_keyboard_present
  <2>2. Line(1, {1, 2, 4}, <<>>, <<>>, <<>>, "kbd", FALSE)
    BY <1>4 DEF Conversation, Drained, Line
  <2>3. Line(1, {5}, <<P!ACK, P!PASS>>, <<>>, <<>>, "kbd", FALSE)'
    BY <2>1, <2>2, KeyboardHears, AnswersSay DEF Line
  <2>4. QED
    BY <2>3 DEF Conversation
<1>5. CASE n = 5
  <2>1. P!BootStep = P!Want({P!ACK}) /\ P!Onward = <<1, 6>>
    BY <1>5 DEF P!BootStep, P!Onward, P!Startup, P!ps2_keyboard_present
  <2>2. Line(1, {5}, <<P!ACK, P!PASS>>, <<>>, <<>>, "kbd", FALSE)
    BY <1>5 DEF Conversation, Drained, Line
  <2>3. kbd # <<>> /\ Head(kbd).v = P!ACK /\ Says(Tail(kbd), <<P!PASS>>)
    BY <2>2, SaysTail DEF Line, Wire
  <2>4. source # "none" => source = "kbd" /\ P!InBuffer.v = P!ACK
    BY <2>2, <2>3, SaysNothing DEF Line, Wire, P!InBuffer
  <2>5. /\ boot' = <<1, 6>> /\ source = "kbd" /\ P!ps2_read_data
        /\ next' = next /\ muted' = muted
    BY <2>1, <2>2, <2>3, <2>4, ReadOn DEF Line, P!Coming, P!Want
  <2>6. Line(1, {6}, <<P!PASS>>, <<>>, <<>>, "kbd", FALSE)'
    BY <2>2, <2>3, <2>5, SaysNothing DEF Line, Wire, P!ps2_read_data
  <2>7. QED
    BY <2>6 DEF Conversation
<1>6. CASE n = 6
  <2>1. P!BootStep = P!Want({P!PASS}) /\ P!Onward = <<2, 1>>
    BY <1>6 DEF P!BootStep, P!Onward, P!Startup, P!ps2_keyboard_present
  <2>2. Line(1, {6}, <<P!PASS>>, <<>>, <<>>, "kbd", FALSE)
    BY <1>6 DEF Conversation, Drained, Line
  <2>3. kbd # <<>> /\ Head(kbd).v = P!PASS /\ Says(Tail(kbd), <<>>)
    BY <2>2, SaysTail DEF Line, Wire
  <2>4. source # "none" => source = "kbd" /\ P!InBuffer.v = P!PASS
    BY <2>2, <2>3, SaysNothing DEF Line, Wire, P!InBuffer
  <2>5. /\ boot' = <<2, 1>> /\ source = "kbd" /\ P!ps2_read_data
        /\ next' = next /\ muted' = muted
    BY <2>1, <2>2, <2>3, <2>4, ReadOn DEF Line, P!Coming, P!Want
  <2>6. Line(2, {1, 2, 6, 14}, <<>>, <<>>, <<>>, "kbd", FALSE)'
    BY <2>2, <2>3, <2>5, SaysNothing DEF Line, Wire, P!ps2_read_data
  <2>7. QED
    BY <2>6 DEF Conversation
<1>7. QED
  BY <1>1, <1>2, <1>3, <1>4, <1>5, <1>6

(* ps2_mouse_present.                                                      *)
LEMMA MousePresent ==
  ASSUME Wire, Boots, Conversation, NEW n \in 1 .. 14, boot = <<2, n>>
  PROVE  Conversation'
<1>1. CASE n = 1
  <2>1. P!BootStep = P!Cmd(168) /\ P!Onward = <<2, 2>>
    BY <1>1 DEF P!BootStep, P!Onward, P!Startup, P!ps2_mouse_present
  <2>2. Line(2, {1, 2, 6, 14}, <<>>, <<>>, <<>>, "kbd", FALSE)
    BY <1>1 DEF Conversation, Drained, Line
  <2>3. Line(2, {1, 2, 6, 14}, <<>>, <<>>, <<>>, "kbd", FALSE)'
    BY <2>1, <2>2, DoEnable DEF Line
  <2>4. QED
    BY <2>3 DEF Conversation
<1>2. CASE n = 2
  <2>1. P!BootStep = P!Cmd(32) /\ P!Onward = <<2, 3>>
    BY <1>2 DEF P!BootStep, P!Onward, P!Startup, P!ps2_mouse_present
  <2>2. Line(2, {1, 2, 6, 14}, <<>>, <<>>, <<>>, "kbd", FALSE)
    BY <1>2 DEF Conversation, Drained, Line
  <2>3. Line(2, {3, 4, 5}, <<>>, <<>>, <<0>>, "kbd", FALSE)'
    BY <2>1, <2>2, DoAsk, SaysOne DEF Line
  <2>4. QED
    BY <2>3 DEF Conversation
<1>3. CASE n = 3
  <2>1. P!BootStep = <<"await", 0>> /\ P!Onward = <<2, 4>>
    BY <1>3 DEF P!BootStep, P!Onward, P!Startup, P!ps2_mouse_present
  <2>2. Line(2, {3, 4, 5}, <<>>, <<>>, <<0>>, "kbd", FALSE)
    BY <1>3 DEF Conversation, Drained, Line
  <2>3. Line(2, {3, 4, 5}, <<>>, <<>>, <<0>>, "kbd", FALSE)'
    BY <2>1, <2>2, DoAwait, SaysTail DEF Line, Wire, P!Coming
  <2>4. QED
    BY <2>3 DEF Conversation
<1>4. CASE n = 4
  <2>1. P!BootStep = P!Cmd(32) /\ P!Onward = <<2, 5>>
    BY <1>4 DEF P!BootStep, P!Onward, P!Startup, P!ps2_mouse_present
  <2>2. Line(2, {3, 4, 5}, <<>>, <<>>, <<0>>, "kbd", FALSE)
    BY <1>4 DEF Conversation, Drained, Line
  <2>3. Line(2, {3, 4, 5}, <<>>, <<>>, <<0>>, "kbd", FALSE)'
    BY <2>1, <2>2, DoAsk, SaysOne DEF Line
  <2>4. QED
    BY <2>3 DEF Conversation
<1>5. CASE n = 5
  <2>1. P!BootStep = <<"read", 0>> /\ P!Onward = <<2, 6>>
    BY <1>5 DEF P!BootStep, P!Onward, P!Startup, P!ps2_mouse_present
  <2>2. Line(2, {3, 4, 5}, <<>>, <<>>, <<0>>, "kbd", FALSE)
    BY <1>5 DEF Conversation, Drained, Line
  <2>3. ctl # <<>> /\ Head(ctl).v = 0 /\ Says(Tail(ctl), <<>>)
    BY <2>2, SaysTail DEF Line, Wire
  <2>4. source # "none" => source = "ctl" /\ P!InBuffer.v = 0
    BY <2>2, <2>3, SaysNothing DEF Line, Wire, P!InBuffer
  <2>5. /\ boot' = <<2, 6>> /\ source = "ctl" /\ P!ps2_read_data
        /\ next' = next /\ muted' = muted
    BY <2>1, <2>2, <2>3, <2>4, ReadOn DEF Line, P!Coming
  <2>6. Line(2, {1, 2, 6, 14}, <<>>, <<>>, <<>>, "kbd", FALSE)'
    BY <2>2, <2>3, <2>5, SaysNothing DEF Line, Wire, P!ps2_read_data
  <2>7. QED
    BY <2>6 DEF Conversation
<1>6. CASE n = 6
  <2>1. P!BootStep = P!Cmd(96) /\ P!Onward = <<2, 7>>
    BY <1>6 DEF P!BootStep, P!Onward, P!Startup, P!ps2_mouse_present
  <2>2. Line(2, {1, 2, 6, 14}, <<>>, <<>>, <<>>, "kbd", FALSE)
    BY <1>6 DEF Conversation, Drained, Line
  <2>3. Line(2, {7}, <<>>, <<>>, <<>>, "config", FALSE)'
    BY <2>1, <2>2, DoConfigure DEF Line
  <2>4. QED
    BY <2>3 DEF Conversation
<1>7. CASE n = 7
  <2>1. P!BootStep = P!Config /\ P!Onward = <<2, 8>>
    BY <1>7 DEF P!BootStep, P!Onward, P!Startup, P!ps2_mouse_present
  <2>2. Line(2, {7}, <<>>, <<>>, <<>>, "config", FALSE)
    BY <1>7 DEF Conversation, Drained, Line
  <2>3. Line(2, {8, 10}, <<>>, <<>>, <<>>, "kbd", TRUE)'
    BY <2>1, <2>2, DoConfig, AnswersReply, AnswersSay, SaysMore, ZenonT(40) DEF Line, Wire, P!ps2_write_data
  <2>4. QED
    BY <2>3 DEF Conversation
<1>8. CASE n = 8
  <2>1. P!BootStep = P!Cmd(169) /\ P!Onward = <<2, 9>>
    BY <1>8 DEF P!BootStep, P!Onward, P!Startup, P!ps2_mouse_present
  <2>2. Line(2, {8, 10}, <<>>, <<>>, <<>>, "kbd", TRUE)
    BY <1>8 DEF Conversation, Drained, Line
  <2>3. Line(2, {9}, <<>>, <<>>, <<0>>, "kbd", TRUE)'
    BY <2>1, <2>2, DoTest, SaysOne DEF Line
  <2>4. QED
    BY <2>3 DEF Conversation
<1>9. CASE n = 9
  <2>1. P!BootStep = P!Want({0}) /\ P!Onward = <<2, 10>>
    BY <1>9 DEF P!BootStep, P!Onward, P!Startup, P!ps2_mouse_present
  <2>2. Line(2, {9}, <<>>, <<>>, <<0>>, "kbd", TRUE)
    BY <1>9 DEF Conversation, Drained, Line
  <2>3. ctl # <<>> /\ Head(ctl).v = 0 /\ Says(Tail(ctl), <<>>)
    BY <2>2, SaysTail DEF Line, Wire
  <2>4. source # "none" => source = "ctl" /\ P!InBuffer.v = 0
    BY <2>2, <2>3, SaysNothing DEF Line, Wire, P!InBuffer
  <2>5. /\ boot' = <<2, 10>> /\ source = "ctl" /\ P!ps2_read_data
        /\ next' = next /\ muted' = muted
    BY <2>1, <2>2, <2>3, <2>4, ReadOn DEF Line, P!Coming, P!Want
  <2>6. Line(2, {8, 10}, <<>>, <<>>, <<>>, "kbd", TRUE)'
    BY <2>2, <2>3, <2>5, SaysNothing DEF Line, Wire, P!ps2_read_data
  <2>7. QED
    BY <2>6 DEF Conversation
<1>10. CASE n = 10
  <2>1. P!BootStep = P!Cmd(212) /\ P!Onward = <<2, 11>>
    BY <1>10 DEF P!BootStep, P!Onward, P!Startup, P!ps2_mouse_present
  <2>2. Line(2, {8, 10}, <<>>, <<>>, <<>>, "kbd", TRUE)
    BY <1>10 DEF Conversation, Drained, Line
  <2>3. Line(2, {11}, <<>>, <<>>, <<>>, "aux", TRUE)'
    BY <2>1, <2>2, DoAddress DEF Line
  <2>4. QED
    BY <2>3 DEF Conversation
<1>11. CASE n = 11
  <2>1. P!BootStep = P!Data(242) /\ P!Onward = <<2, 12>>
    BY <1>11 DEF P!BootStep, P!Onward, P!Startup, P!ps2_mouse_present
  <2>2. Line(2, {11}, <<>>, <<>>, <<>>, "aux", TRUE)
    BY <1>11 DEF Conversation, Drained, Line
  <2>3. Line(2, {12}, <<>>, <<P!ACK, 0>>, <<>>, "kbd", FALSE)'
    BY <2>1, <2>2, MouseHears, AnswersSay, ZenonT(40) DEF Line
  <2>4. QED
    BY <2>3 DEF Conversation
<1>12. CASE n = 12
  <2>1. P!BootStep = P!Want({P!ACK}) /\ P!Onward = <<2, 13>>
    BY <1>12 DEF P!BootStep, P!Onward, P!Startup, P!ps2_mouse_present
  <2>2. Line(2, {12}, <<>>, <<P!ACK, 0>>, <<>>, "kbd", FALSE)
    BY <1>12 DEF Conversation, Drained, Line
  <2>3. aux # <<>> /\ Head(aux).v = P!ACK /\ Says(Tail(aux), <<0>>)
    BY <2>2, SaysTail DEF Line, Wire
  <2>4. source # "none" => source = "aux" /\ P!InBuffer.v = P!ACK
    BY <2>2, <2>3, SaysNothing DEF Line, Wire, P!InBuffer
  <2>5. /\ boot' = <<2, 13>> /\ source = "aux" /\ P!ps2_read_data
        /\ next' = next /\ muted' = muted
    BY <2>1, <2>2, <2>3, <2>4, ReadOn DEF Line, P!Coming, P!Want
  <2>6. Line(2, {13}, <<>>, <<0>>, <<>>, "kbd", FALSE)'
    BY <2>2, <2>3, <2>5, SaysNothing DEF Line, Wire, P!ps2_read_data
  <2>7. QED
    BY <2>6 DEF Conversation
<1>13. CASE n = 13
  <2>1. P!BootStep = P!Want({0, 3, 4}) /\ P!Onward = <<2, 14>>
    BY <1>13 DEF P!BootStep, P!Onward, P!Startup, P!ps2_mouse_present
  <2>2. Line(2, {13}, <<>>, <<0>>, <<>>, "kbd", FALSE)
    BY <1>13 DEF Conversation, Drained, Line
  <2>3. aux # <<>> /\ Head(aux).v = 0 /\ Says(Tail(aux), <<>>)
    BY <2>2, SaysTail DEF Line, Wire
  <2>4. source # "none" => source = "aux" /\ P!InBuffer.v = 0
    BY <2>2, <2>3, SaysNothing DEF Line, Wire, P!InBuffer
  <2>5. /\ boot' = <<2, 14>> /\ source = "aux" /\ P!ps2_read_data
        /\ next' = next /\ muted' = muted
    BY <2>1, <2>2, <2>3, <2>4, ReadOn DEF Line, P!Coming, P!Want
  <2>6. Line(2, {1, 2, 6, 14}, <<>>, <<>>, <<>>, "kbd", FALSE)'
    BY <2>2, <2>3, <2>5, SaysNothing DEF Line, Wire, P!ps2_read_data
  <2>7. QED
    BY <2>6 DEF Conversation
<1>14. CASE n = 14
  <2>1. P!BootStep = P!Any /\ P!Onward = <<3, 1>>
    BY <1>14 DEF P!BootStep, P!Onward, P!Startup, P!ps2_mouse_present
  <2>2. Line(2, {1, 2, 6, 14}, <<>>, <<>>, <<>>, "kbd", FALSE)
    BY <1>14 DEF Conversation, Drained, Line
  <2>3. source = "none"
    BY <2>2, SaysNothing DEF Line, Wire
  <2>4. Line(3, {1, 2}, <<>>, <<>>, <<>>, "kbd", FALSE)'
    BY <2>1, <2>2, <2>3, DoPass DEF Line, P!Any, P!Flush
  <2>5. QED
    BY <2>4 DEF Conversation
<1>15. QED
  BY <1>1, <1>2, <1>3, <1>4, <1>5, <1>6, <1>7, <1>8, <1>9, <1>10, <1>11, <1>12, <1>13, <1>14

(* ps2_initialize_mouse.                                                   *)
LEMMA MouseStarts ==
  ASSUME Wire, Boots, Conversation, NEW n \in 1 .. 13, boot = <<3, n>>
  PROVE  Conversation'
<1>1. CASE n = 1
  <2>1. P!BootStep = P!Cmd(168) /\ P!Onward = <<3, 2>>
    BY <1>1 DEF P!BootStep, P!Onward, P!Startup, P!ps2_initialize_mouse, P!Send
  <2>2. Line(3, {1, 2}, <<>>, <<>>, <<>>, "kbd", FALSE)
    BY <1>1 DEF Conversation, Drained, Line
  <2>3. Line(3, {1, 2}, <<>>, <<>>, <<>>, "kbd", FALSE)'
    BY <2>1, <2>2, DoEnable DEF Line
  <2>4. QED
    BY <2>3 DEF Conversation
<1>2. CASE n = 2
  <2>1. P!BootStep = P!Cmd(212) /\ P!Onward = <<3, 3>>
    BY <1>2 DEF P!BootStep, P!Onward, P!Startup, P!ps2_initialize_mouse, P!Send
  <2>2. Line(3, {1, 2}, <<>>, <<>>, <<>>, "kbd", FALSE)
    BY <1>2 DEF Conversation, Drained, Line
  <2>3. Line(3, {3}, <<>>, <<>>, <<>>, "aux", FALSE)'
    BY <2>1, <2>2, DoAddress DEF Line
  <2>4. QED
    BY <2>3 DEF Conversation
<1>3. CASE n = 3
  <2>1. P!BootStep = P!Data(255) /\ P!Onward = <<3, 4>>
    BY <1>3 DEF P!BootStep, P!Onward, P!Startup, P!ps2_initialize_mouse, P!Send
  <2>2. Line(3, {3}, <<>>, <<>>, <<>>, "aux", FALSE)
    BY <1>3 DEF Conversation, Drained, Line
  <2>3. Line(3, {4}, <<>>, <<P!ACK, P!PASS, 0>>, <<>>, "kbd", FALSE)'
    BY <2>1, <2>2, MouseHears, AnswersSay, ZenonT(40) DEF Line
  <2>4. QED
    BY <2>3 DEF Conversation
<1>4. CASE n = 4
  <2>1. P!BootStep = P!Any /\ P!Onward = <<3, 5>>
    BY <1>4 DEF P!BootStep, P!Onward, P!Startup, P!ps2_initialize_mouse, P!Send
  <2>2. Line(3, {4}, <<>>, <<P!ACK, P!PASS, 0>>, <<>>, "kbd", FALSE)
    BY <1>4 DEF Conversation, Drained, Line
  <2>3. aux # <<>> /\ Head(aux).v = P!ACK /\ Says(Tail(aux), <<P!PASS, 0>>)
    BY <2>2, SaysTail DEF Line, Wire
  <2>4. source # "none" => source = "aux" /\ P!InBuffer.v = P!ACK
    BY <2>2, <2>3, SaysNothing DEF Line, Wire, P!InBuffer
  <2>5. /\ boot' = <<3, 5>> /\ source = "aux" /\ P!ps2_read_data
        /\ next' = next /\ muted' = muted
    BY <2>1, <2>2, <2>3, <2>4, ReadOn DEF Line, P!Coming, P!Any
  <2>6. Line(3, {5}, <<>>, <<P!PASS, 0>>, <<>>, "kbd", FALSE)'
    BY <2>2, <2>3, <2>5, SaysNothing DEF Line, Wire, P!ps2_read_data
  <2>7. QED
    BY <2>6 DEF Conversation
<1>5. CASE n = 5
  <2>1. P!BootStep = P!Cmd(212) /\ P!Onward = <<3, 6>>
    BY <1>5 DEF P!BootStep, P!Onward, P!Startup, P!ps2_initialize_mouse, P!Send
  <2>2. Line(3, {5}, <<>>, <<P!PASS, 0>>, <<>>, "kbd", FALSE)
    BY <1>5 DEF Conversation, Drained, Line
  <2>3. Line(3, {6}, <<>>, <<P!PASS, 0>>, <<>>, "aux", FALSE)'
    BY <2>1, <2>2, DoAddress DEF Line
  <2>4. QED
    BY <2>3 DEF Conversation
<1>6. CASE n = 6
  <2>1. P!BootStep = P!Data(244) /\ P!Onward = <<3, 7>>
    BY <1>6 DEF P!BootStep, P!Onward, P!Startup, P!ps2_initialize_mouse, P!Send
  <2>2. Line(3, {6}, <<>>, <<P!PASS, 0>>, <<>>, "aux", FALSE)
    BY <1>6 DEF Conversation, Drained, Line
  <2>3. Says(aux, <<P!PASS, 0>>) /\ Says(P!Answers("aux", 244), <<P!ACK>>)
    BY <2>2, AnswersSay DEF Line
  <2>4. Says(aux', <<P!PASS, 0, P!ACK>>)
    BY <2>1, <2>2, <2>3, MouseHears DEF Line
  <2>5. Line(3, {7}, <<>>, <<P!PASS, 0, P!ACK>>, <<>>, "kbd", FALSE)'
    BY <2>1, <2>2, <2>4, MouseHears DEF Line
  <2>6. QED
    BY <2>5 DEF Conversation
<1>7. CASE n = 7
  <2>1. P!BootStep = P!Any /\ P!Onward = <<3, 8>>
    BY <1>7 DEF P!BootStep, P!Onward, P!Startup, P!ps2_initialize_mouse, P!Send
  <2>2. Line(3, {7}, <<>>, <<P!PASS, 0, P!ACK>>, <<>>, "kbd", FALSE)
    BY <1>7 DEF Conversation, Drained, Line
  <2>3. aux # <<>> /\ Head(aux).v = P!PASS /\ Says(Tail(aux), <<0, P!ACK>>)
    BY <2>2, SaysTail DEF Line, Wire
  <2>4. source # "none" => source = "aux" /\ P!InBuffer.v = P!PASS
    BY <2>2, <2>3, SaysNothing DEF Line, Wire, P!InBuffer
  <2>5. /\ boot' = <<3, 8>> /\ source = "aux" /\ P!ps2_read_data
        /\ next' = next /\ muted' = muted
    BY <2>1, <2>2, <2>3, <2>4, ReadOn DEF Line, P!Coming, P!Any
  <2>6. Line(3, {8}, <<>>, <<0, P!ACK>>, <<>>, "kbd", FALSE)'
    BY <2>2, <2>3, <2>5, SaysNothing DEF Line, Wire, P!ps2_read_data
  <2>7. QED
    BY <2>6 DEF Conversation
<1>8. CASE n = 8
  <2>1. P!BootStep = P!Cmd(212) /\ P!Onward = <<3, 9>>
    BY <1>8 DEF P!BootStep, P!Onward, P!Startup, P!ps2_initialize_mouse, P!Send
  <2>2. Line(3, {8}, <<>>, <<0, P!ACK>>, <<>>, "kbd", FALSE)
    BY <1>8 DEF Conversation, Drained, Line
  <2>3. Line(3, {9}, <<>>, <<0, P!ACK>>, <<>>, "aux", FALSE)'
    BY <2>1, <2>2, DoAddress DEF Line
  <2>4. QED
    BY <2>3 DEF Conversation
<1>9. CASE n = 9
  <2>1. P!BootStep = P!Data(243) /\ P!Onward = <<3, 10>>
    BY <1>9 DEF P!BootStep, P!Onward, P!Startup, P!ps2_initialize_mouse, P!Send
  <2>2. Line(3, {9}, <<>>, <<0, P!ACK>>, <<>>, "aux", FALSE)
    BY <1>9 DEF Conversation, Drained, Line
  <2>3. Says(aux, <<0, P!ACK>>) /\ Says(P!Answers("aux", 243), <<P!ACK>>)
    BY <2>2, AnswersSay DEF Line
  <2>4. Says(aux', <<0, P!ACK, P!ACK>>)
    BY <2>1, <2>2, <2>3, MouseHears DEF Line
  <2>5. Line(3, {10}, <<>>, <<0, P!ACK, P!ACK>>, <<>>, "kbd", FALSE)'
    BY <2>1, <2>2, <2>4, MouseHears DEF Line
  <2>6. QED
    BY <2>5 DEF Conversation
<1>10. CASE n = 10
  <2>1. P!BootStep = P!Any /\ P!Onward = <<3, 11>>
    BY <1>10 DEF P!BootStep, P!Onward, P!Startup, P!ps2_initialize_mouse, P!Send
  <2>2. Line(3, {10}, <<>>, <<0, P!ACK, P!ACK>>, <<>>, "kbd", FALSE)
    BY <1>10 DEF Conversation, Drained, Line
  <2>3. aux # <<>> /\ Head(aux).v = 0 /\ Says(Tail(aux), <<P!ACK, P!ACK>>)
    BY <2>2, SaysTail DEF Line, Wire
  <2>4. source # "none" => source = "aux" /\ P!InBuffer.v = 0
    BY <2>2, <2>3, SaysNothing DEF Line, Wire, P!InBuffer
  <2>5. /\ boot' = <<3, 11>> /\ source = "aux" /\ P!ps2_read_data
        /\ next' = next /\ muted' = muted
    BY <2>1, <2>2, <2>3, <2>4, ReadOn DEF Line, P!Coming, P!Any
  <2>6. Line(3, {11}, <<>>, <<P!ACK, P!ACK>>, <<>>, "kbd", FALSE)'
    BY <2>2, <2>3, <2>5, SaysNothing DEF Line, Wire, P!ps2_read_data
  <2>7. QED
    BY <2>6 DEF Conversation
<1>11. CASE n = 11
  <2>1. P!BootStep = P!Cmd(212) /\ P!Onward = <<3, 12>>
    BY <1>11 DEF P!BootStep, P!Onward, P!Startup, P!ps2_initialize_mouse, P!Send
  <2>2. Line(3, {11}, <<>>, <<P!ACK, P!ACK>>, <<>>, "kbd", FALSE)
    BY <1>11 DEF Conversation, Drained, Line
  <2>3. Line(3, {12}, <<>>, <<P!ACK, P!ACK>>, <<>>, "aux", FALSE)'
    BY <2>1, <2>2, DoAddress DEF Line
  <2>4. QED
    BY <2>3 DEF Conversation
<1>12. CASE n = 12
  <2>1. P!BootStep = P!Data(100) /\ P!Onward = <<3, 13>>
    BY <1>12 DEF P!BootStep, P!Onward, P!Startup, P!ps2_initialize_mouse, P!Send
  <2>2. Line(3, {12}, <<>>, <<P!ACK, P!ACK>>, <<>>, "aux", FALSE)
    BY <1>12 DEF Conversation, Drained, Line
  <2>3. Line(3, {13}, <<>>, <<P!ACK, P!ACK, P!ACK>>, <<>>, "kbd", FALSE)'
    BY <2>1, <2>2, MouseHears, AnswersSay, ZenonT(40) DEF Line
  <2>4. QED
    BY <2>3 DEF Conversation
<1>13. CASE n = 13
  <2>1. P!BootStep = P!Any /\ P!Onward = <<4, 1>>
    BY <1>13 DEF P!BootStep, P!Onward, P!Startup, P!ps2_initialize_mouse, P!Send
  <2>2. Line(3, {13}, <<>>, <<P!ACK, P!ACK, P!ACK>>, <<>>, "kbd", FALSE)
    BY <1>13 DEF Conversation, Drained, Line
  <2>3. aux # <<>> /\ Head(aux).v = P!ACK /\ Says(Tail(aux), <<P!ACK, P!ACK>>)
    BY <2>2, SaysTail DEF Line, Wire
  <2>4. source # "none" => source = "aux" /\ P!InBuffer.v = P!ACK
    BY <2>2, <2>3, SaysNothing DEF Line, Wire, P!InBuffer
  <2>5. /\ boot' = <<4, 1>> /\ source = "aux" /\ P!ps2_read_data
        /\ next' = next /\ muted' = muted
    BY <2>1, <2>2, <2>3, <2>4, ReadOn DEF Line, P!Coming, P!Any
  <2>6. Line(4, {1, 2}, <<>>, <<P!ACK, P!ACK>>, <<>>, "kbd", FALSE)'
    BY <2>2, <2>3, <2>5, SaysNothing DEF Line, Wire, P!ps2_read_data
  <2>7. QED
    BY <2>6 DEF Conversation
<1>14. QED
  BY <1>1, <1>2, <1>3, <1>4, <1>5, <1>6, <1>7, <1>8, <1>9, <1>10, <1>11, <1>12, <1>13

(* ps2_initialize_keyboard: after the drain the mouse has nothing to say.  *)
LEMMA KeyboardStarts ==
  ASSUME Wire, Boots, Conversation, NEW n \in 1 .. 9, boot = <<4, n>>
  PROVE  IF P!Booted' THEN aux' = <<>> ELSE Conversation'
<1>1. CASE n = 1
  <2>1. P!BootStep = P!Cmd(174) /\ P!Onward = <<4, 2>>
    BY <1>1 DEF P!BootStep, P!Onward, P!Startup, P!ps2_initialize_keyboard
  <2>2. Line(4, {1, 2}, <<>>, <<P!ACK, P!ACK>>, <<>>, "kbd", FALSE)
    BY <1>1 DEF Conversation, Drained, Line
  <2>3. Line(4, {1, 2}, <<>>, <<P!ACK, P!ACK>>, <<>>, "kbd", FALSE)'
    BY <2>1, <2>2, DoEnableKeys DEF Line
  <2>4. boot' # <<>>
    BY <2>1, DoCommand
  <2>5. QED
    BY <2>3, <2>4 DEF Conversation, P!Booted
<1>2. CASE n = 2
  <2>1. P!BootStep = P!Data(255) /\ P!Onward = <<4, 3>>
    BY <1>2 DEF P!BootStep, P!Onward, P!Startup, P!ps2_initialize_keyboard
  <2>2. Line(4, {1, 2}, <<>>, <<P!ACK, P!ACK>>, <<>>, "kbd", FALSE)
    BY <1>2 DEF Conversation, Drained, Line
  <2>3. Line(4, {3}, <<P!ACK, P!PASS>>, <<P!ACK, P!ACK>>, <<>>, "kbd", FALSE)'
    BY <2>1, <2>2, KeyboardHears, AnswersSay DEF Line
  <2>4. boot' # <<>>
    BY <2>1, DoData
  <2>5. QED
    BY <2>3, <2>4 DEF Conversation, P!Booted
<1>3. CASE n = 3
  <2>1. P!BootStep = P!Want({P!PASS, P!ACK}) /\ P!Onward = <<4, 4>>
    BY <1>3 DEF P!BootStep, P!Onward, P!Startup, P!ps2_initialize_keyboard
  <2>2. Line(4, {3}, <<P!ACK, P!PASS>>, <<P!ACK, P!ACK>>, <<>>, "kbd", FALSE)
    BY <1>3 DEF Conversation, Drained, Line
  <2>3. kbd # <<>> /\ Head(kbd).v = P!ACK /\ Head(aux).v = P!ACK
    BY <2>2, SaysTail DEF Line, Wire
  <2>4. source # "none" => P!InBuffer.v = P!ACK
    BY <2>2, <2>3, SaysNothing DEF Line, Wire, P!InBuffer
  <2>5. boot' = <<4, 4>> /\ next' = next /\ muted' = muted
    BY <2>1, <2>3, <2>4, ReadOn DEF P!Coming, P!Want
  <2>6. QED
    BY <2>2, <2>5 DEF Conversation, Drained, Line, P!Booted
<1>4. CASE n = 4
  <2>1. P!BootStep = P!Drain /\ P!Onward = <<4, 5>>
    BY <1>4 DEF P!BootStep, P!Onward, P!Startup, P!ps2_initialize_keyboard
  <2>2. next = "kbd" /\ ~muted
    BY <1>4 DEF Conversation, Drained, Line
  <2>3. CASE P!BootRead
    <3>1. boot' = boot /\ next' = next /\ muted' = muted
      BY <2>1, <2>3 DEF P!BootRead, P!Drain
    <3>2. QED
      BY <1>4, <2>2, <3>1 DEF Conversation, Drained, P!Booted
  <2>4. CASE P!BootGiveUp /\ ~P!Coming
    <3>1. boot' = <<4, 5>> /\ next' = next /\ aux' = aux /\ aux = <<>>
      BY <2>1, <2>2, <2>4 DEF P!BootGiveUp, P!Drain, P!device, P!Coming
    <3>2. QED
      BY <2>2, <3>1 DEF Conversation, Drained, P!Booted
  <2>5. QED
    BY <2>1, <2>3, <2>4 DEF Boots, P!BootWrite, P!BootSee, P!Drain
<1>5. CASE n \in 5 .. 9
  <2>1. next = "kbd" /\ aux = <<>>
    BY <1>5 DEF Conversation, Drained, Line
  <2>2. PICK b : P!BootStep = P!Data(b)
    BY <1>5 DEF P!BootStep, P!Startup, P!ps2_initialize_keyboard
  <2>3. P!Onward = IF n < 9 THEN <<4, n + 1>> ELSE <<>>
    BY <1>5 DEF P!Onward, P!Startup, P!ps2_initialize_keyboard
  <2>4. boot' = P!Onward /\ aux' = <<>> /\ next' = "kbd"
    BY <2>1, <2>2, DoData DEF P!ps2_write_data
  <2>5. CASE n < 9
    <3>1. n + 1 \in 5 .. 9 /\ boot' = <<4, n + 1>>
      BY <1>5, <2>3, <2>4, <2>5
    <3>2. boot' \in {<<4, m>> : m \in 5 .. 9} /\ boot' # <<>>
      BY <3>1
    <3>3. QED
      BY <2>4, <3>2 DEF Conversation, Drained, P!Booted
  <2>6. QED
    BY <1>5, <2>3, <2>4, <2>5 DEF P!Booted
<1>6. QED
  BY <1>1, <1>2, <1>3, <1>4, <1>5

(* What the driver has of a packet and what the mouse has yet to say are   *)
(* whole packets.                                                          *)
InSync ==
  /\ Len(packet) \in 0 .. 2 /\ (Len(packet) + Len(aux)) % 3 = 0
  /\ \A i \in 1 .. Len(packet) : packet[i].k = i
  /\ \A i \in 1 .. Len(aux) : /\ aux[i].k = ((Len(packet) + i - 1) % 3) + 1
                              /\ aux[i].k = 1 => P!Bit(aux[i].v, 3)

PacketInv == ~disturbed => IF P!Booted THEN InSync ELSE Conversation

LEMMA Thirds ==
  /\ \A m \in Nat : m % 3 = 0 => (m + 1) % 3 = 1 /\ (m + 2) % 3 = 2
  /\ \A m \in 0 .. 2 : m % 3 = m
OBVIOUS

LEMMA MoveInSync ==
  ASSUME Wire, InSync, P!Move
  PROVE  InSync'
<1>1. PICK m \in Moves : aux' = aux \o [i \in 1 .. 3 |-> [v |-> m[i], k |-> i]]
  BY DEF P!Move
<1> DEFINE three == [i \in 1 .. 3 |-> [v |-> m[i], k |-> i]]
<1>2. /\ three \in Seq(Byte) /\ Len(three) = 3 /\ P!Bit(three[1].v, 3)
      /\ three[1].k = 1 /\ three[2].k = 2 /\ three[3].k = 3
  BY MovePacket
<1> HIDE DEF three
<1>3. /\ Len(aux) \in Nat /\ Len(packet) \in Nat /\ packet' = packet /\ Len(aux') = Len(aux) + 3
      /\ \A i \in 1 .. Len(aux) : aux'[i] = aux[i]
      /\ \A i \in 1 .. 3 : aux'[Len(aux) + i] = three[i]
  <2>1. Len(aux) \in Nat /\ Len(packet) \in Nat /\ packet' = packet
    BY DEF Wire, P!Move, P!mouse
  <2>2. aux' = aux \o three
    BY <1>1 DEF three
  <2>3. aux \in Seq(Byte)
    BY DEF Wire
  <2>4. QED
    <3>1. three \in Seq(Byte)
      BY <1>2
    <3>2. Len(aux \o three) = Len(aux) + Len(three)
      BY <2>3, <3>1, JoinPlaces
    <3>3. \A i \in 1 .. Len(aux) : (aux \o three)[i] = aux[i]
      BY <2>3, <3>1, JoinPlaces
    <3>4. \A i \in 1 .. Len(three) : (aux \o three)[Len(aux) + i] = three[i]
      BY <2>3, <3>1, JoinPlaces
    <3>5. QED
      BY <1>2, <2>1, <2>2, <3>2, <3>3, <3>4
<1>4. (Len(packet') + Len(aux')) % 3 = 0
  BY <1>3 DEF InSync
<1>5. ASSUME NEW i \in 1 .. Len(aux')
      PROVE  /\ aux'[i].k = ((Len(packet') + i - 1) % 3) + 1
             /\ aux'[i].k = 1 => P!Bit(aux'[i].v, 3)
  <2>1. CASE i \in 1 .. Len(aux)
    BY <1>3, <2>1 DEF InSync
  <2>2. CASE i = Len(aux) + 1
    BY <1>2, <1>3, <2>2 DEF InSync
  <2>3. CASE i = Len(aux) + 2
    <3>1. Len(packet') + i - 1 = (Len(packet) + Len(aux)) + 1 /\ aux'[i] = three[2]
      BY <1>3, <2>3
    <3>2. ((Len(packet) + Len(aux)) + 1) % 3 = 1
      BY <1>3, Thirds DEF InSync
    <3>3. QED
      BY <1>2, <3>1, <3>2
  <2>4. CASE i = Len(aux) + 3
    <3>1. Len(packet') + i - 1 = (Len(packet) + Len(aux)) + 2 /\ aux'[i] = three[3]
      BY <1>3, <2>4
    <3>2. ((Len(packet) + Len(aux)) + 2) % 3 = 2
      BY <1>3, Thirds DEF InSync
    <3>3. QED
      BY <1>2, <3>1, <3>2
  <2>5. QED
    BY <1>3, <1>5, <2>1, <2>2, <2>3, <2>4
<1>6. QED
  BY <1>3, <1>4, <1>5 DEF InSync

LEMMA ReadInSync ==
  ASSUME Wire, InSync, P!MouseReads
  PROVE  InSync'
<1> DEFINE b == Head(aux)
<1>1. /\ source = "aux" /\ aux # <<>> /\ aux' = Tail(aux) /\ P!InBuffer = b
      /\ Len(aux) \in Nat \ {0} /\ Len(packet) \in Nat
      /\ Len(aux') = Len(aux) - 1 /\ \A i \in 1 .. Len(aux') : aux'[i] = aux[i + 1]
  <2>1. source = "aux" /\ aux # <<>> /\ P!ps2_read_data
    BY DEF Wire, P!MouseReads
  <2>2. aux \in Seq(Byte) /\ Len(packet) \in Nat
    BY DEF Wire
  <2>3. aux' = Tail(aux) /\ P!InBuffer = b
    BY <2>1, ReadTakes
  <2>4. QED
    BY <2>1, <2>2, <2>3, TailPlaces
<1>2. b = aux[1] /\ b.k = Len(packet) + 1 /\ b \in Byte /\ (b.k = 1 => P!Bit(b.v, 3))
  <2>1. aux \in Seq(Byte) /\ 1 \in 1 .. Len(aux)
    BY <1>1 DEF Wire
  <2>2. b = aux[1] /\ b \in Byte
    BY <1>1, <2>1, TailPlaces
  <2>3. aux[1].k = (Len(packet) % 3) + 1 /\ (aux[1].k = 1 => P!Bit(aux[1].v, 3))
    BY <1>1, <2>1 DEF InSync
  <2>4. Len(packet) % 3 = Len(packet)
    BY Thirds DEF InSync
  <2>5. QED
    BY <2>2, <2>3, <2>4
<1>3. P!Received(b) = Append(packet, b)
  BY <1>2 DEF P!Received, Wire
<1> HIDE DEF b
<1>4. /\ Len(Append(packet, b)) = Len(packet) + 1
      /\ \A i \in 1 .. Len(packet) + 1 : Append(packet, b)[i].k = i
  BY <1>2 DEF Wire, InSync
<1>5. CASE Len(packet) = 2
  <2>1. packet' = <<>>
    BY <1>1, <1>3, <1>4, <1>5 DEF P!MouseReads
  <2>2. (Len(packet') + Len(aux')) % 3 = 0
    BY <1>1, <1>5, <2>1 DEF InSync
  <2>3. ASSUME NEW i \in 1 .. Len(aux')
        PROVE  /\ aux'[i].k = ((Len(packet') + i - 1) % 3) + 1
               /\ aux'[i].k = 1 => P!Bit(aux'[i].v, 3)
    BY <1>1, <1>5, <2>1, <2>3 DEF InSync
  <2>4. QED
    BY <2>1, <2>2, <2>3 DEF InSync
<1>6. CASE Len(packet) \in 0 .. 1
  <2>1. packet' = Append(packet, b)
    BY <1>1, <1>3, <1>4, <1>6 DEF P!MouseReads
  <2>2. (Len(packet') + Len(aux')) % 3 = 0 /\ Len(packet') \in 0 .. 2
    BY <1>1, <1>4, <1>6, <2>1 DEF InSync
  <2>3. ASSUME NEW i \in 1 .. Len(aux')
        PROVE  /\ aux'[i].k = ((Len(packet') + i - 1) % 3) + 1
               /\ aux'[i].k = 1 => P!Bit(aux'[i].v, 3)
    BY <1>1, <1>4, <2>1, <2>3 DEF InSync
  <2>4. QED
    BY <1>4, <2>1, <2>2, <2>3 DEF InSync
<1>7. QED
  BY <1>5, <1>6 DEF InSync

LEMMA ConversationGoesOn ==
  ASSUME Wire, Boots, Conversation
  PROVE  IF P!Booted' THEN aux' = <<>> ELSE Conversation'
<1>1. PICK p \in 1 .. 4, n \in 1 .. 14 :
        boot = <<p, n>> /\ n <= (CASE p = 1 -> 6 [] p = 2 -> 14 [] p = 3 -> 13 [] p = 4 -> 9)
  BY DEF Conversation, Line, Drained
<1>2. CASE p \in 1 .. 3
  <2>1. Conversation'
    BY <1>1, <1>2, KeyboardPresent, MousePresent, MouseStarts
  <2>2. boot' # <<>>
    BY <2>1 DEF Conversation, Line, Drained
  <2>3. QED
    BY <2>1, <2>2 DEF P!Booted
<1>3. CASE p = 4
  BY <1>1, <1>3, KeyboardStarts
<1>4. QED
  BY <1>2, <1>3

LEMMA PacketKeeps ==
  ASSUME Wire, Wire', PacketInv, [P!Ps2Next]_ps2Vars
  PROVE  PacketInv'
<1> SUFFICES ASSUME ~disturbed' PROVE IF P!Booted' THEN InSync' ELSE Conversation'
  BY DEF PacketInv
<1>1. ~disturbed /\ (P!Booted => P!Booted')
  BY StaysDisturbed
<1>2. CASE ~P!Booted /\ Boots
  <2>1. IF P!Booted' THEN aux' = <<>> ELSE Conversation'
    BY <1>1, <1>2, ConversationGoesOn DEF PacketInv
  <2>2. packet' = <<>>
    BY <1>2 DEF Wire, Boots, P!BootWrite, P!BootRead, P!BootSee, P!BootGiveUp, P!mouse
  <2>3. QED
    BY <2>1, <2>2 DEF InSync
<1>3. CASE ~P!Booted /\ UNCHANGED <<boot, kbd, aux, ctl, next, muted>>
  BY <1>1, <1>3 DEF PacketInv, Conversation, Line, Drained, P!Booted
<1>4. CASE P!Booted /\ UNCHANGED <<packet, aux>>
  BY <1>1, <1>4 DEF PacketInv, InSync
<1>5. CASE P!Booted /\ (P!Move \/ P!MouseReads)
  BY <1>1, <1>5, MoveInSync, ReadInSync DEF PacketInv
<1>6. CASE P!Booted
  <2>1. source \in {"kbd", "ctl"} /\ P!ps2_read_data => aux' = aux
    BY DEF P!ps2_read_data
  <2>2. QED
    BY <1>4, <1>5, <1>6, <2>1
    DEF P!Ps2Next, ps2Vars, P!Fill, P!Press, P!BootWrite, P!BootRead, P!BootSee,
        P!BootGiveUp, P!GETCH, P!ps2_keyboard_fetch, P!ForKeyboard, P!GetcharCalled,
        P!GetcharFetch, P!GetcharDecode, P!GetcharAssign, P!GetcharReturn, P!MouseSees,
        P!device, P!keyboard, P!mouse
<1>7. CASE ~P!Booted
  <2>1. ~(P!Press \/ P!Move)
    BY <1>1, <1>7 DEF P!Press, P!Move
  <2>2. P!BootGiveUp => ~P!Coming
    BY DEF P!BootGiveUp
  <2>3. ~(P!GETCH \/ P!GetcharCalled \/ P!MouseSees \/ P!MouseReads)
    BY <1>7 DEF Wire, P!GETCH, P!GetcharCalled, P!MouseSees, P!MouseReads
  <2>4. ~(P!GetcharFetch \/ P!GetcharDecode \/ P!GetcharAssign \/ P!GetcharReturn)
    BY <1>7 DEF Wire, P!GetcharFetch, P!GetcharDecode, P!GetcharAssign, P!GetcharReturn
  <2>5. P!Fill => UNCHANGED <<boot, kbd, aux, ctl, next, muted>>
    BY DEF P!Fill, P!device
  <2>6. QED
    BY <1>2, <1>3, <1>7, <2>1, <2>2, <2>3, <2>4, <2>5 DEF P!Ps2Next, ps2Vars, Boots
<1>8. QED
  BY <1>6, <1>7

LEMMA PacketInvariant == PartsSpec => []PacketInv
<1>1. PartsInit => PacketInv
  BY DEF PartsInit, P!Ps2Init, P!Booted, PacketInv, Conversation, Line, Says
<1>2. KeyInv /\ KeyInv' /\ PacketInv /\ [PartsNext]_vars => PacketInv'
  BY Ps2Step, PacketKeeps DEF KeyInv
<1>3. QED
  BY <1>1, <1>2, KeyInvariant, PTL DEF PartsSpec

(* After a start-up that no one disturbed the driver takes three bytes for *)
(* a packet that are one, whatever the mouse sends and whoever reads the   *)
(* keyboard: each reply of the start-up is read by the start-up, and the   *)
(* byte the reader saw is still the mouse's when it reads it               *)
(* (mouse.c:40-280).                                                       *)
THEOREM PacketsStayInSync == PartsSpec => []PacketsInSync
<1>1. KeyInv /\ PacketInv => PacketsInSync
  <2> SUFFICES ASSUME Wire, InSync PROVE P!Booted /\ ~disturbed => PacketsInSync
    BY DEF KeyInv, PacketInv, PacketsInSync, P!PacketsInSync
  <2> DEFINE unread == packet \o aux
  <2>1. /\ Len(unread) = Len(packet) + Len(aux) /\ Len(aux) \in Nat /\ Len(packet) \in 0 .. 2
        /\ \A i \in 1 .. Len(unread) :
             unread[i] = IF i <= Len(packet) THEN packet[i] ELSE aux[i - Len(packet)]
    BY DEF Wire, InSync
  <2> HIDE DEF unread
  <2>2. ASSUME NEW i \in 1 .. Len(unread)
        PROVE  unread[i].k = ((i - 1) % 3) + 1
    <3>1. CASE i <= Len(packet)
      <4>1. i \in 1 .. Len(packet) /\ i - 1 \in 0 .. 2 /\ unread[i] = packet[i]
        BY <2>1, <2>2, <3>1
      <4>2. packet[i].k = i /\ (i - 1) % 3 = i - 1
        BY <4>1, Thirds DEF InSync
      <4>3. QED
        BY <4>1, <4>2
    <3>2. CASE i > Len(packet)
      <4>1. i - Len(packet) \in 1 .. Len(aux) /\ unread[i] = aux[i - Len(packet)]
        BY <2>1, <2>2, <3>2
      <4>2. aux[i - Len(packet)].k = ((Len(packet) + (i - Len(packet)) - 1) % 3) + 1
        BY <4>1 DEF InSync
      <4>3. QED
        BY <2>1, <4>1, <4>2
    <3>3. QED
      BY <2>1, <2>2, <3>1, <3>2
  <2>3. Len(unread) % 3 = 0
    BY <2>1 DEF InSync
  <2>4. QED
    BY <2>2, <2>3 DEF PacketsInSync, P!PacketsInSync, unread
<1>2. QED
  BY <1>1, KeyInvariant, PacketInvariant, PTL

-----------------------------------------------------------------------------
(* The screen and the line that is typed on it.                            *)

Glyphs == TypedChars \cup {T!Blank, "prompt", "message", "title", "0"}

Screens == [cells : [1 .. T!CELLS -> Glyphs], at : 0 .. T!CELLS - 1]

(* The text stands before the cursor, and the prompt in front of it.       *)
Shows(s, text) ==
  /\ Len(text) < s.at /\ s.cells[s.at - Len(text)] = "prompt"
  /\ \A k \in 1 .. Len(text) : s.cells[s.at - Len(text) + k] = text[k]

(* A text that fits with its prompt on what is left when a row is lost.    *)
Fits(text) == text \in Seq(Glyphs) /\ Len(text) + 2 + TTY_W <= T!CELLS

LineInv ==
  /\ T!Screen \in Screens
  /\ stage \in {"name", "pass", "over"}
  /\ entered \in Seq(TypedChars \ T!Controls)
  /\ stage # "over" => Len(entered) + 2 <= T!Room
  /\ LineOnScreen

LEMMA Room ==
  /\ TTY_W \in Nat \ {0} /\ T!CELLS \in Nat /\ TTY_W < T!CELLS
  /\ USER_NAME_LENGTH \in Nat \ {0, 1} /\ PASS_LENGTH \in Nat \ {0, 1}
  /\ USER_NAME_LENGTH - 1 + TTY_W <= T!CELLS /\ PASS_LENGTH - 1 + TTY_W <= T!CELLS
<1>1. T!TerminalAssumption
  BY PartsAssumption
<1>2. TTY_W \in Nat \ {0} /\ TTY_H \in Nat
  BY <1>1 DEF T!TerminalAssumption
<1>3. T!CELLS \in Nat
  BY <1>2 DEF T!CELLS
<1>4. /\ USER_NAME_LENGTH \in Nat \ {0, 1} /\ PASS_LENGTH \in Nat \ {0, 1}
      /\ USER_NAME_LENGTH - 1 + TTY_W <= T!CELLS /\ PASS_LENGTH - 1 + TTY_W <= T!CELLS
  BY <1>1 DEF T!TerminalAssumption
<1>5. PICK w, c, n : w = TTY_W /\ c = T!CELLS /\ n = PASS_LENGTH
  OBVIOUS
<1>6. w \in Nat /\ c \in Nat /\ n \in Nat \ {0, 1} /\ n - 1 + w <= c
  BY <1>2, <1>3, <1>4, <1>5
<1>7. w < c
  BY <1>6
<1>8. QED
  BY <1>2, <1>3, <1>4, <1>5, <1>7

LEMMA Characters ==
  /\ T!NL # T!BS /\ T!NL # T!TAB /\ T!BS # T!TAB
  /\ {T!Blank, "prompt", "message", "title"} \subseteq Glyphs
  /\ \A ch \in {T!Blank, "prompt", "message", "title"} : ch \notin T!Controls
<1>1. T!NL # T!BS /\ T!NL # T!TAB /\ T!BS # T!TAB
  BY DEF T!NL, T!BS, T!TAB
<1>2. T!Blank \notin T!Controls
  BY DEF T!NL, T!BS, T!TAB, T!Controls, T!Blank
<1>3. "prompt" \notin T!Controls
  BY DEF T!NL, T!BS, T!TAB, T!Controls
<1>4. "message" \notin T!Controls
  BY DEF T!NL, T!BS, T!TAB, T!Controls
<1>5. "title" \notin T!Controls
  BY DEF T!NL, T!BS, T!TAB, T!Controls
<1>6. {T!Blank, "prompt", "message", "title"} \subseteq Glyphs
  BY DEF Glyphs
<1>7. QED
  BY <1>1, <1>2, <1>3, <1>4, <1>5, <1>6

(* Only what runs past the last cell moves the screen.                     *)
LEMMA ScrolledFacts ==
  ASSUME NEW cells \in [1 .. T!CELLS -> Glyphs], NEW place \in Nat
  PROVE  LET s == [cells |-> cells, at |-> place]
         IN  /\ T!Scrolled(s) \in Screens
             /\ place < T!CELLS => T!Scrolled(s) = s
             /\ place >= T!CELLS => /\ T!Scrolled(s).at = T!CELLS - TTY_W
                                    /\ \A c \in 1 .. T!CELLS - TTY_W :
                                         T!Scrolled(s).cells[c] = cells[c + TTY_W]
<1> DEFINE s == [cells |-> cells, at |-> place]
<1>1. CASE place < T!CELLS
  <2>1. T!Scrolled(s) = s
    BY <1>1 DEF T!Scrolled
  <2>2. place \in 0 .. T!CELLS - 1
    BY <1>1, Room
  <2>3. QED
    BY <1>1, <2>1, <2>2, Room DEF Screens
<1>2. CASE place >= T!CELLS
  <2> DEFINE up == [c \in 1 .. T!CELLS |-> IF c + TTY_W <= T!CELLS THEN cells[c + TTY_W] ELSE T!Blank]
  <2>1. ~(place < T!CELLS)
    BY <1>2, Room
  <2>2. T!Scrolled(s) = [cells |-> up, at |-> T!CELLS - TTY_W]
    BY <2>1 DEF T!Scrolled
  <2>3. \A c \in 1 .. T!CELLS : c + TTY_W <= T!CELLS => cells[c + TTY_W] \in Glyphs
    BY Room
  <2>4. up \in [1 .. T!CELLS -> Glyphs]
    <3>1. ASSUME NEW c \in 1 .. T!CELLS
          PROVE  (IF c + TTY_W <= T!CELLS THEN cells[c + TTY_W] ELSE T!Blank) \in Glyphs
      BY <2>3, <3>1, Room, Characters
    <3>2. QED
      BY <3>1
  <2>5. \A c \in 1 .. T!CELLS - TTY_W : c \in 1 .. T!CELLS /\ c + TTY_W <= T!CELLS
    BY Room
  <2>6. \A c \in 1 .. T!CELLS - TTY_W : up[c] = cells[c + TTY_W]
    BY <2>5
  <2> HIDE DEF up
  <2>7. T!CELLS - TTY_W \in 0 .. T!CELLS - 1
    BY Room
  <2>8. T!Scrolled(s) \in Screens
    BY <2>2, <2>4, <2>7 DEF Screens
  <2>9. /\ T!Scrolled(s).at = T!CELLS - TTY_W
        /\ \A c \in 1 .. T!CELLS - TTY_W : T!Scrolled(s).cells[c] = cells[c + TTY_W]
    BY <2>2, <2>6
  <2>10. QED
    BY <2>1, <2>8, <2>9
<1>3. QED
  BY <1>1, <1>2, Room

LEMMA Newline ==
  ASSUME NEW s \in Screens
  PROVE  T!putch(s, T!NL) \in Screens
<1>1. s.cells \in [1 .. T!CELLS -> Glyphs] /\ s.at \in Nat /\ s = [cells |-> s.cells, at |-> s.at]
  BY Room DEF Screens
<1>2. PICK place : place = (s.at \div TTY_W + 1) * TTY_W
  OBVIOUS
<1>3. place \in Nat
  <2>1. \A n \in Nat : \A w \in Nat \ {0} : n \div w + 1 \in Nat
    OBVIOUS
  <2>2. \A n \in Nat : \A w \in Nat : n * w \in Nat
    OBVIOUS
  <2>3. QED
    BY <1>1, <1>2, <2>1, <2>2, Room
<1>4. T!putch(s, T!NL) = T!Scrolled([s EXCEPT !.at = place])
  BY <1>2, Characters DEF T!putch
<1>5. [s EXCEPT !.at = place] = [cells |-> s.cells, at |-> place]
  BY <1>1 DEF Screens
<1>6. QED
  BY <1>1, <1>3, <1>4, <1>5, ScrolledFacts

(* A character that is no control character is written and nothing else.   *)
LEMMA Glyph ==
  ASSUME NEW s \in Screens, NEW ch \in Glyphs, ch \notin T!Controls
  PROVE  /\ T!putch(s, ch) = T!Scrolled([cells |-> [s.cells EXCEPT ![s.at + 1] = ch], at |-> s.at + 1])
         /\ T!putch(s, ch) \in Screens
<1>1. s.cells \in [1 .. T!CELLS -> Glyphs] /\ s.at \in 0 .. T!CELLS - 1 /\ T!CELLS \in Nat
  BY Room DEF Screens
<1>2. ch # T!NL /\ ch # T!BS /\ ch # T!TAB
  BY DEF T!Controls
<1>3. T!putch(s, ch) = T!Scrolled([cells |-> [s.cells EXCEPT ![s.at + 1] = ch], at |-> s.at + 1])
  BY <1>2 DEF T!putch, T!Written
<1>4. /\ [s.cells EXCEPT ![s.at + 1] = ch] \in [1 .. T!CELLS -> Glyphs]
      /\ s.at + 1 \in Nat
  BY <1>1
<1>5. QED
  BY <1>3, <1>4, ScrolledFacts, ZenonT(40)

LEMMA SubSeqPlaces ==
  ASSUME NEW S, NEW q \in Seq(S), NEW m \in 0 .. Len(q)
  PROVE  /\ SubSeq(q, 1, m) \in Seq(S) /\ Len(SubSeq(q, 1, m)) = m
         /\ \A k \in 1 .. m : SubSeq(q, 1, m)[k] = q[k]
OBVIOUS

(* The text grows by the character, even if the screen scrolls for it.     *)
LEMMA GlyphShown ==
  ASSUME NEW s \in Screens, NEW text, Fits(text), Shows(s, text),
         NEW ch \in Glyphs, ch \notin T!Controls
  PROVE  Shows(T!putch(s, ch), Append(text, ch))
<1> DEFINE cells == [s.cells EXCEPT ![s.at + 1] = ch]
           w == [cells |-> cells, at |-> s.at + 1]
           n == Len(text)
<1>1. s.cells \in [1 .. T!CELLS -> Glyphs] /\ s.at \in 0 .. T!CELLS - 1 /\ T!CELLS \in Nat
  BY Room DEF Screens
<1>2. T!putch(s, ch) = T!Scrolled(w)
  BY Glyph
<1>3. /\ cells \in [1 .. T!CELLS -> Glyphs] /\ s.at + 1 \in Nat
      /\ cells[s.at + 1] = ch /\ \A c \in 1 .. s.at : cells[c] = s.cells[c]
  BY <1>1
<1>4. /\ Append(text, ch) \in Seq(Glyphs) /\ n \in Nat /\ Len(Append(text, ch)) = n + 1
      /\ \A k \in 1 .. n : Append(text, ch)[k] = text[k]
      /\ Append(text, ch)[n + 1] = ch
  BY AppendPlaces DEF Fits
<1>5. /\ n < s.at /\ s.cells[s.at - n] = "prompt"
      /\ \A k \in 1 .. n : s.cells[s.at - n + k] = text[k]
      /\ n + 2 + TTY_W <= T!CELLS
  BY DEF Shows, Fits
<1> HIDE DEF cells, n
<1>6. /\ s.at - n \in 1 .. s.at /\ cells[s.at - n] = "prompt"
      /\ \A k \in 1 .. n + 1 : cells[s.at - n + k] = Append(text, ch)[k]
  <2>1. s.at - n \in 1 .. s.at /\ \A k \in 1 .. n : s.at - n + k \in 1 .. s.at
    <3>1. s.at \in Nat /\ n \in Nat /\ n < s.at
      BY <1>1, <1>4, <1>5
    <3>2. PICK cur : cur = s.at
      OBVIOUS
    <3>3. cur - n \in 1 .. cur /\ \A k \in 1 .. n : cur - n + k \in 1 .. cur
      BY <3>1, <3>2
    <3>4. QED
      BY <3>2, <3>3
  <2>2. ASSUME NEW k \in 1 .. n + 1
        PROVE  cells[s.at - n + k] = Append(text, ch)[k]
    <3>1. CASE k = n + 1
      <4>1. s.at - n + k = s.at + 1
        BY <1>1, <1>4, <3>1
      <4>2. QED
        BY <1>3, <1>4, <3>1, <4>1
    <3>2. CASE k # n + 1
      <4>1. k \in 1 .. n
        BY <1>4, <3>2
      <4>2. QED
        BY <1>3, <1>4, <1>5, <2>1, <4>1
    <3>3. QED
      BY <3>1, <3>2
  <2>3. QED
    BY <1>3, <1>5, <2>1, <2>2
<1>7. CASE s.at + 1 < T!CELLS
  <2>1. T!putch(s, ch) = w
    BY <1>2, <1>3, <1>7, ScrolledFacts
  <2>2. T!putch(s, ch).cells = cells /\ T!putch(s, ch).at = s.at + 1
    BY <2>1
  <2>3. s.at + 1 - (n + 1) = s.at - n
    BY <1>1, <1>4
  <2>4. PICK t, a : t = T!putch(s, ch) /\ a = Append(text, ch)
    OBVIOUS
  <2>5. /\ Len(a) = n + 1 /\ t.at = s.at + 1 /\ t.at - Len(a) = s.at - n
        /\ t.cells = cells /\ n + 1 < s.at + 1
    BY <1>1, <1>4, <1>5, <2>2, <2>3, <2>4
  <2>6. \A k \in 1 .. n + 1 : t.cells[s.at - n + k] = a[k]
    BY <1>6, <2>4, <2>5
  <2>7. Shows(t, a)
    BY <1>6, <2>5, <2>6 DEF Shows
  <2>8. QED
    BY <2>4, <2>7
<1>8. CASE s.at + 1 = T!CELLS
  <2>1. PICK t : t = T!Scrolled(w)
    OBVIOUS
  <2>2. t.at = T!CELLS - TTY_W /\ \A c \in 1 .. T!CELLS - TTY_W : t.cells[c] = cells[c + TTY_W]
    BY <1>3, <1>8, <2>1, Room, ScrolledFacts
  <2>3. /\ n + 1 < t.at /\ t.at - (n + 1) \in 1 .. T!CELLS - TTY_W
        /\ t.at - (n + 1) + TTY_W = s.at - n
        /\ \A k \in 1 .. n + 1 : /\ t.at - (n + 1) + k \in 1 .. T!CELLS - TTY_W
                                 /\ t.at - (n + 1) + k + TTY_W = s.at - n + k
    <3>1. PICK x, c, w0 : x = s.at /\ c = T!CELLS /\ w0 = TTY_W
      OBVIOUS
    <3>2. /\ x \in Nat /\ c \in Nat /\ w0 \in Nat \ {0} /\ n \in Nat /\ x + 1 = c
          /\ n < x /\ n + 2 + w0 <= c /\ t.at = c - w0
      BY <1>1, <1>4, <1>5, <1>8, <2>2, <3>1, Room
    <3>3. /\ n + 1 < c - w0 /\ c - w0 - (n + 1) \in 1 .. c - w0
          /\ c - w0 - (n + 1) + w0 = x - n
      BY <3>2
    <3>4. ASSUME NEW k \in 1 .. n + 1
          PROVE  /\ c - w0 - (n + 1) + k \in 1 .. c - w0
                 /\ c - w0 - (n + 1) + k + w0 = x - n + k
      BY <3>2
    <3>5. QED
      BY <3>1, <3>2, <3>3, <3>4
  <2>4. \A k \in 1 .. n + 1 : t.cells[t.at - (n + 1) + k] = Append(text, ch)[k]
    BY <1>6, <2>2, <2>3
  <2>5. PICK a : a = Append(text, ch)
    OBVIOUS
  <2>6. Len(a) = n + 1 /\ n + 1 < t.at /\ t.cells[t.at - (n + 1)] = "prompt"
    BY <1>4, <1>6, <2>2, <2>3, <2>5
  <2>7. \A k \in 1 .. n + 1 : t.cells[t.at - (n + 1) + k] = a[k]
    BY <2>4, <2>5
  <2>8. Shows(t, a)
    BY <2>6, <2>7 DEF Shows
  <2>9. QED
    BY <1>2, <2>1, <2>5, <2>8
<1>9. QED
  BY <1>1, <1>7, <1>8, Room

(* A correction takes the last character back and moves nothing.           *)
LEMMA BackShown ==
  ASSUME NEW s \in Screens, NEW text \in Seq(Glyphs), Shows(s, text), text # <<>>
  PROVE  LET t == T!putch(T!putch(T!putch(s, T!BS), T!Blank), T!BS)
         IN  t \in Screens /\ Shows(t, SubSeq(text, 1, Len(text) - 1))
<1> DEFINE n == Len(text)
           r == SubSeq(text, 1, n - 1)
           c1 == [s.cells EXCEPT ![s.at] = T!Blank]
           s1 == [cells |-> c1, at |-> s.at - 1]
           t == T!putch(T!putch(T!putch(s, T!BS), T!Blank), T!BS)
<1>1. s.cells \in [1 .. T!CELLS -> Glyphs] /\ s.at \in 0 .. T!CELLS - 1 /\ T!CELLS \in Nat
  BY Room DEF Screens
<1>2. /\ text \in Seq(Glyphs) /\ n \in Nat \ {0} /\ n < s.at /\ s.cells[s.at - n] = "prompt"
      /\ \A k \in 1 .. n : s.cells[s.at - n + k] = text[k]
  BY DEF Shows
<1>3. r \in Seq(Glyphs) /\ Len(r) = n - 1 /\ \A k \in 1 .. n - 1 : r[k] = text[k]
  <2>1. n - 1 \in 0 .. Len(text)
    BY <1>2
  <2>2. QED
    BY <1>2, <2>1, SubSeqPlaces
<1> HIDE DEF n, r
<1>4. c1 \in [1 .. T!CELLS -> Glyphs] /\ s.at - 1 \in Nat /\ s.at - 1 < T!CELLS
  <2>1. s.at \in 1 .. T!CELLS /\ T!Blank \in Glyphs
    BY <1>1, <1>2, Characters
  <2>2. QED
    BY <1>1, <2>1
<1>5. T!putch(s, T!BS) = s1
  <2>1. T!putch(s, T!BS) = T!Scrolled(s1)
    BY <1>1, <1>2, Characters DEF T!putch
  <2>2. QED
    BY <1>4, <2>1, ScrolledFacts
<1>6. s1 \in Screens
  BY <1>1, <1>4 DEF Screens
<1>7. T!putch(s1, T!Blank) = [cells |-> c1, at |-> s.at]
  <2>1. s1.cells = c1 /\ s1.at + 1 = s.at
    BY <1>1
  <2>2. T!putch(s1, T!Blank) = T!Scrolled([cells |-> [c1 EXCEPT ![s.at] = T!Blank], at |-> s.at])
    BY <1>6, <2>1, Glyph, Characters
  <2>3. [c1 EXCEPT ![s.at] = T!Blank] = c1
    BY <1>1, <1>2
  <2>4. T!putch(s1, T!Blank) = T!Scrolled([cells |-> c1, at |-> s.at])
    BY <2>2, <2>3
  <2>5. s.at \in Nat /\ s.at < T!CELLS
    BY <1>1
  <2> HIDE DEF c1, s1
  <2>6. QED
    BY <1>4, <2>4, <2>5, ScrolledFacts
<1>8. t = s1
  <2>1. PICK q : q = [cells |-> c1, at |-> s.at]
    OBVIOUS
  <2>2. q.cells = c1 /\ q.at = s.at
    BY <2>1
  <2>3. [c1 EXCEPT ![s.at] = T!Blank] = c1
    BY <1>1, <1>2
  <2>4. T!putch(q, T!BS) = T!Scrolled(s1)
    <3>1. q.at > 0
      BY <1>1, <1>2, <2>2
    <3>2. T!putch(q, T!BS)
            = T!Scrolled([cells |-> [q.cells EXCEPT ![q.at] = T!Blank], at |-> q.at - 1])
      BY <3>1, Characters DEF T!putch
    <3>3. QED
      BY <2>2, <2>3, <3>2
  <2>5. QED
    BY <1>4, <1>5, <1>7, <2>1, <2>4, ScrolledFacts
<1>9. Shows(s1, r)
  <2>1. /\ s1.at = s.at - 1 /\ s1.at - (n - 1) = s.at - n /\ n - 1 < s1.at
        /\ s.at - n \in 1 .. T!CELLS /\ s.at - n # s.at
        /\ \A k \in 1 .. n - 1 : /\ k \in 1 .. n /\ s.at - n + k \in 1 .. T!CELLS
                                 /\ s.at - n + k # s.at
    <3>1. s1.at = s.at - 1
      BY <1>1
    <3>2. T!CELLS \in Nat /\ s.at \in Nat /\ s.at <= T!CELLS /\ n \in Nat /\ 0 < n /\ n < s.at
      BY <1>1, <1>2
    <3>3. QED
      BY <3>1, <3>2
  <2>2. \A c \in 1 .. T!CELLS : c # s.at => s1.cells[c] = s.cells[c]
    BY <1>1
  <2>3. /\ s1.cells[s.at - n] = "prompt"
        /\ \A k \in 1 .. n - 1 : s1.cells[s.at - n + k] = r[k]
    BY <1>2, <1>3, <2>1, <2>2
  <2>4. PICK a, b : a = r /\ b = s1
    OBVIOUS
  <2>5. /\ Len(a) = n - 1 /\ b.at = s.at - 1 /\ n - 1 < s.at - 1
        /\ s.at - 1 - (n - 1) = s.at - n /\ b.cells[s.at - n] = "prompt"
    BY <1>3, <2>1, <2>3, <2>4
  <2>6. \A k \in 1 .. n - 1 : b.cells[s.at - n + k] = a[k]
    BY <2>3, <2>4
  <2>7. Shows(b, a)
    BY <2>5, <2>6 DEF Shows
  <2>8. QED
    BY <2>4, <2>7
<1>10. QED
  BY <1>6, <1>8, <1>9 DEF n, r

(* A prompt begins an empty line.                                          *)
LEMMA PromptShown ==
  ASSUME NEW s \in Screens
  PROVE  T!putch(s, "prompt") \in Screens /\ Shows(T!putch(s, "prompt"), <<>>)
<1> DEFINE cells == [s.cells EXCEPT ![s.at + 1] = "prompt"]
           w == [cells |-> cells, at |-> s.at + 1]
<1>1. s.cells \in [1 .. T!CELLS -> Glyphs] /\ s.at \in 0 .. T!CELLS - 1 /\ T!CELLS \in Nat
  BY Room DEF Screens
<1>2. T!putch(s, "prompt") = T!Scrolled(w) /\ T!putch(s, "prompt") \in Screens
  BY Glyph, Characters
<1>3. cells \in [1 .. T!CELLS -> Glyphs] /\ s.at + 1 \in Nat /\ cells[s.at + 1] = "prompt"
  <2>1. s.at + 1 \in 1 .. T!CELLS /\ "prompt" \in Glyphs
    BY <1>1, Characters
  <2>2. QED
    BY <1>1, <2>1
<1>4. Len(<<>>) = 0
  OBVIOUS
<1> HIDE DEF cells
<1>5. CASE s.at + 1 < T!CELLS
  <2>1. T!Scrolled(w) = w
    BY <1>3, <1>5, ScrolledFacts
  <2>2. QED
    BY <1>1, <1>2, <1>3, <1>4, <2>1 DEF Shows
<1>6. CASE s.at + 1 = T!CELLS
  <2>1. PICK t : t = T!Scrolled(w)
    OBVIOUS
  <2>2. t.at = T!CELLS - TTY_W /\ \A c \in 1 .. T!CELLS - TTY_W : t.cells[c] = cells[c + TTY_W]
    BY <1>3, <1>6, <2>1, Room, ScrolledFacts
  <2>3. t.at \in 1 .. T!CELLS - TTY_W /\ t.at + TTY_W = s.at + 1
    BY <1>6, <2>2, Room
  <2>4. QED
    BY <1>2, <1>3, <1>4, <2>1, <2>2, <2>3 DEF Shows
<1>7. QED
  BY <1>1, <1>2, <1>5, <1>6

LEMMA Printed ==
  ASSUME NEW s \in Screens
  PROVE  /\ T!Message(s) \in Screens
         /\ T!PassPrompt(s) \in Screens /\ Shows(T!PassPrompt(s), <<>>)
         /\ T!NamePrompt(s) \in Screens /\ Shows(T!NamePrompt(s), <<>>)
<1>1. T!Message(s) \in Screens
  <2>1. T!putch(s, "message") \in Screens
    BY Glyph, Characters
  <2>2. QED
    BY <2>1, Newline DEF T!Message
<1>2. T!PassPrompt(s) \in Screens /\ Shows(T!PassPrompt(s), <<>>)
  BY PromptShown DEF T!PassPrompt
<1>3. T!NamePrompt(s) \in Screens /\ Shows(T!NamePrompt(s), <<>>)
  <2>1. T!putch(T!putch(s, T!NL), "title") \in Screens
    BY Newline, Glyph, Characters
  <2>2. T!putch(T!putch(T!putch(s, T!NL), "title"), T!NL) \in Screens
    BY <2>1, Newline
  <2>3. QED
    BY <2>2, PromptShown DEF T!NamePrompt
<1>4. QED
  BY <1>1, <1>2, <1>3

(* The line as LineOnScreen states it.                                     *)
LEMMA LineShown == LineOnScreen <=> (stage # "over" => Shows(T!Screen, entered))
BY DEF LineOnScreen, T!LineOnScreen, Shows, T!Screen

(* The echo of a character leaves a screen; of one that does not complete  *)
(* the line it leaves the line that is then in the buffer.                 *)
LEMMA EchoShown ==
  ASSUME LineInv, stage # "over", NEW ch \in TypedChars
  PROVE  /\ T!Echoed(ch) \in Screens
         /\ T!Edited(ch) \in Seq(TypedChars \ T!Controls)
         /\ ~T!Complete(ch) => /\ Shows(T!Echoed(ch), T!Edited(ch))
                               /\ Len(T!Edited(ch)) + 2 <= T!Room
<1>1. PICK scr, text : scr = T!Screen /\ text = entered
  OBVIOUS
<1>2. /\ scr \in Screens /\ text \in Seq(TypedChars \ T!Controls) /\ Shows(scr, text)
      /\ Len(text) \in Nat /\ Len(text) + 2 <= T!Room /\ T!Room \in Nat
      /\ T!Room - 1 + TTY_W <= T!CELLS
  BY <1>1, Room, LineShown DEF LineInv, T!Room
<1>3. text \in Seq(Glyphs)
  BY <1>2 DEF Glyphs
<1>4. ch \in Glyphs
  BY DEF Glyphs
<1>5. CASE ch = T!BS /\ text # <<>>
  <2>1. /\ T!Edited(ch) = SubSeq(text, 1, Len(text) - 1)
        /\ T!Echoed(ch) = T!putch(T!putch(T!putch(scr, T!BS), T!Blank), T!BS)
    BY <1>1, <1>5, Characters DEF T!Edited, T!Echoed, T!Front, T!Controls
  <2>2. T!Echoed(ch) \in Screens /\ Shows(T!Echoed(ch), T!Edited(ch))
    BY <1>2, <1>3, <1>5, <2>1, BackShown
  <2>3. Len(text) - 1 \in 0 .. Len(text)
    BY <1>2, <1>5
  <2>4. /\ T!Edited(ch) \in Seq(TypedChars \ T!Controls)
        /\ Len(T!Edited(ch)) = Len(text) - 1
    BY <1>2, <2>1, <2>3, SubSeqPlaces, ZenonT(40)
  <2>5. QED
    BY <1>2, <2>2, <2>4
<1>6. CASE ch \notin T!Controls
  <2>1. T!Edited(ch) = Append(text, ch) /\ T!Echoed(ch) = T!putch(scr, ch)
    BY <1>1, <1>6 DEF T!Edited, T!Echoed, T!Controls
  <2>2. T!Echoed(ch) \in Screens
    BY <1>2, <1>4, <1>6, <2>1, Glyph
  <2>3. /\ T!Edited(ch) \in Seq(TypedChars \ T!Controls)
        /\ Len(T!Edited(ch)) = Len(text) + 1
    BY <1>2, <1>6, <2>1, AppendPlaces
  <2>4. ASSUME ~T!Complete(ch)
        PROVE  Shows(T!Echoed(ch), T!Edited(ch)) /\ Len(T!Edited(ch)) + 2 <= T!Room
    <3>1. Len(text) + 1 # T!Room - 1
      BY <2>3, <2>4 DEF T!Complete
    <3>2. Len(text) + 3 <= T!Room
      BY <1>2, <3>1
    <3>3. Fits(text)
      BY <1>2, <1>3, <3>2, Room DEF Fits
    <3>4. QED
      BY <1>2, <1>4, <1>6, <2>1, <2>3, <3>2, <3>3, GlyphShown
  <2>5. QED
    BY <2>2, <2>3, <2>4
<1>7. CASE ch = T!NL
  <2>1. T!Edited(ch) = text /\ T!Echoed(ch) = T!putch(scr, ch)
    BY <1>1, <1>7, Characters DEF T!Edited, T!Echoed, T!Controls
  <2>2. QED
    BY <1>2, <1>7, <2>1, Newline DEF T!Complete
<1>8. CASE ch = T!TAB \/ (ch = T!BS /\ text = <<>>)
  <2>1. T!Edited(ch) = text /\ T!Echoed(ch) = scr
    BY <1>1, <1>8, Characters DEF T!Edited, T!Echoed, T!Controls
  <2>2. QED
    BY <1>2, <2>1
<1>9. QED
  BY <1>5, <1>6, <1>7, <1>8 DEF T!Controls

LEMMA PutScreen ==
  ASSUME NEW s \in Screens, T!Put(s)
  PROVE  T!Screen' = s
<1>1. s = [cells |-> s.cells, at |-> s.at]
  BY DEF Screens
<1>2. QED
  BY <1>1 DEF T!Put, T!Screen

LEMMA EmptyLine ==
  ASSUME T!Screen' \in Screens, stage' \in {"name", "pass", "over"}, entered' = <<>>,
         stage' # "over" => Shows(T!Screen', <<>>)
  PROVE  LineInv'
<1>1. stage' # "over" => Shows(T!Screen', entered')
  OBVIOUS
<1>2. (Len(entered) + 2 <= T!Room)'
  BY Room DEF T!Room
<1>3. LineOnScreen'
  BY <1>1 DEF LineOnScreen, T!LineOnScreen, Shows, T!Screen
<1>4. QED
  BY <1>2, <1>3 DEF LineInv

LEMMA LineStarts ==
  ASSUME T!TerminalInit
  PROVE  LineInv
<1> DEFINE s == [cells |-> [c \in 1 .. T!CELLS |-> "0"], at |-> 0]
<1>1. s \in Screens
  <2>1. 0 \in 0 .. T!CELLS - 1 /\ "0" \in Glyphs
    BY Room DEF Glyphs
  <2>2. QED
    BY <2>1 DEF Screens
<1>2. PICK p : p = T!NamePrompt(s)
  OBVIOUS
<1>3. p \in Screens /\ Shows(p, <<>>)
  BY <1>1, <1>2, Printed
<1>4. /\ output = p.cells /\ at = p.at /\ stage = "name" /\ entered = <<>>
  BY <1>2 DEF T!TerminalInit
<1>5. T!Screen = p
  BY <1>3, <1>4 DEF T!Screen, Screens
<1>6. Len(entered) + 2 <= T!Room
  BY <1>4, Room DEF T!Room
<1>7. QED
  BY <1>3, <1>4, <1>5, <1>6, LineShown DEF LineInv

LEMMA LineGoesOn ==
  ASSUME LineInv, T!TerminalNext
  PROVE  LineInv'
<1>1. PICK ch \in TypedChars : T!TypeMore(ch) \/ T!NameTyped(ch) \/ T!PasswordTyped(ch)
  BY DEF T!TerminalNext
<1>2. CASE T!TypeMore(ch)
  <2>1. /\ stage # "over" /\ ~T!Complete(ch) /\ entered' = T!Edited(ch) /\ stage' = stage
        /\ T!Put(T!Echoed(ch))
    BY <1>2 DEF T!TypeMore
  <2>2. T!Screen' = T!Echoed(ch) /\ T!Echoed(ch) \in Screens
    BY <2>1, EchoShown, PutScreen
  <2>3. T!Room' = T!Room
    BY <2>1 DEF T!Room
  <2>4. Shows(T!Screen', entered')
    BY <2>1, <2>2, EchoShown
  <2>5. LineOnScreen'
    BY <2>4 DEF LineOnScreen, T!LineOnScreen, Shows, T!Screen
  <2>6. QED
    BY <2>1, <2>2, <2>3, <2>5, EchoShown DEF LineInv
<1>3. CASE T!NameTyped(ch)
  <2>1. /\ stage = "name" /\ entered' = <<>> /\ stage' = "pass"
        /\ T!Put(T!PassPrompt(T!Echoed(ch)))
    BY <1>3 DEF T!NameTyped
  <2>2. T!Echoed(ch) \in Screens
    BY <2>1, EchoShown
  <2>3. PICK s : s = T!PassPrompt(T!Echoed(ch))
    OBVIOUS
  <2>4. s \in Screens /\ Shows(s, <<>>)
    BY <2>2, <2>3, Printed
  <2>5. T!Screen' = s
    BY <2>1, <2>3, <2>4, PutScreen
  <2>6. QED
    BY <2>1, <2>4, <2>5, EmptyLine
<1>4. CASE T!PasswordTyped(ch)
  <2>1. /\ stage = "pass" /\ entered' = <<>> /\ stage' \in {"name", "over"}
    BY <1>4 DEF T!PasswordTyped
  <2>2. PICK e, m : e = T!Echoed(ch) /\ m = T!Message(e)
    OBVIOUS
  <2>3. m \in Screens /\ T!Message(m) \in Screens
        /\ T!NamePrompt(m) \in Screens /\ Shows(T!NamePrompt(m), <<>>)
    BY <2>1, <2>2, EchoShown, Printed
  <2>4. PICK s \in Screens : T!Put(s) /\ (stage' = "name" => Shows(s, <<>>))
    <3> DEFINE ok == T!UserFind(name) # -1 /\ T!UserMatch(T!UserFind(name), T!Edited(ch))
    <3>1. /\ T!Put(CASE ok -> m [] ~ok /\ stage' = "over" -> T!Message(m)
                     [] ~ok /\ stage' = "name" -> T!NamePrompt(m))
          /\ ok => stage' = "over"
      BY <1>4, <2>2 DEF T!PasswordTyped
    <3> HIDE DEF ok
    <3>2. CASE ok
      BY <2>3, <3>1, <3>2
    <3>3. CASE ~ok /\ stage' = "over"
      BY <2>3, <3>1, <3>3
    <3>4. CASE ~ok /\ stage' = "name"
      BY <2>3, <3>1, <3>4
    <3>5. QED
      BY <2>1, <3>2, <3>3, <3>4
  <2>5. T!Screen' = s
    BY <2>4, PutScreen
  <2>6. QED
    BY <2>1, <2>4, <2>5, EmptyLine
<1>5. QED
  BY <1>1, <1>2, <1>3, <1>4

LEMMA LineStays ==
  ASSUME LineInv, UNCHANGED terminalVars
  PROVE  LineInv'
BY DEF LineInv, terminalVars, T!Screen, T!Room, LineOnScreen, T!LineOnScreen

LEMMA LineInvariant == PartsSpec => []LineInv
<1>1. PartsInit => LineInv
  BY LineStarts DEF PartsInit
<1>2. LineInv /\ [PartsNext]_vars => LineInv'
  <2> SUFFICES ASSUME LineInv, [PartsNext]_vars PROVE LineInv'
    OBVIOUS
  <2>1. CASE UNCHANGED terminalVars
    BY <2>1, LineStays
  <2>2. CASE T!TerminalNext
    BY <2>2, LineGoesOn
  <2>3. QED
    BY <2>1, <2>2 DEF PartsNext, Turn, Others, vars
<1>3. QED
  BY <1>1, <1>2, PTL DEF PartsSpec

(* What gets returns is what stands on the screen behind the prompt        *)
(* (tty.c:49-86, output.c:44-112), for every size of the screen that has   *)
(* room for the line and every sequence of characters typed.               *)
THEOREM LineIsOnScreen == PartsSpec => []LineOnScreen
<1>1. LineInv => LineOnScreen
  BY DEF LineInv
<1>2. QED
  BY <1>1, LineInvariant, PTL

-----------------------------------------------------------------------------
(* The users are read from their file.                                     *)

LEMMA LeastNumber ==
  ASSUME NEW S \in SUBSET Nat, S # {}
  PROVE  \E x \in S : \A y \in S : x <= y
<1>1. IsWellFoundedOn(OpToRel(<, Nat), Nat)
  BY NatLessThanWellFounded
<1>2. PICK x \in S : \A y \in S : ~(<<y, x>> \in OpToRel(<, Nat))
  BY <1>1, WFMin
<1>3. \A y \in S : ~(y < x)
  BY <1>2 DEF OpToRel
<1>4. QED
  BY <1>3

(* One turn of the loop over the lines.                                    *)
OneLine(lines, n, g) ==
  IF n = 0 THEN <<>>
  ELSE IF T!Defines(lines[n]) THEN Append(g[n - 1], lines[n]) ELSE g[n - 1]

LEMMA LoopExists ==
  ASSUME NEW lines, NEW m \in Nat
  PROVE  \E g : g = [n \in 0 .. m |-> OneLine(lines, n, g)]
<1> DEFINE bad == {k \in Nat : ~\E g : g = [n \in 0 .. k |-> OneLine(lines, n, g)]}
<1>1. SUFFICES ASSUME bad # {} PROVE FALSE
  OBVIOUS
<1>2. PICK k \in bad : \A y \in bad : k <= y
  <2>1. bad \in SUBSET Nat
    OBVIOUS
  <2> HIDE DEF bad
  <2>2. QED
    BY <1>1, <2>1, LeastNumber
<1>3. k \in Nat /\ ~\E g : g = [n \in 0 .. k |-> OneLine(lines, n, g)]
  OBVIOUS
<1>4. CASE k = 0
  <2> DEFINE g == [n \in 0 .. 0 |-> <<>>]
  <2>1. g = [n \in 0 .. 0 |-> OneLine(lines, n, g)]
    BY DEF OneLine
  <2>2. QED
    BY <1>3, <1>4, <2>1
<1>5. CASE k # 0
  <2>1. k - 1 \in Nat /\ k - 1 \notin bad
    <3> HIDE DEF bad
    <3>1. QED
      BY <1>2, <1>3, <1>5
  <2>2. PICK g : g = [n \in 0 .. k - 1 |-> OneLine(lines, n, g)]
    BY <2>1
  <2> DEFINE h == [n \in 0 .. k |-> IF n = k THEN OneLine(lines, k, g) ELSE g[n]]
  <2>3. \A n \in 0 .. k - 1 : h[n] = g[n]
    BY <1>3
  <2>4. \A n \in 0 .. k : OneLine(lines, n, h) = OneLine(lines, n, g)
    <3>1. \A n \in 0 .. k : n # 0 => h[n - 1] = g[n - 1]
      BY <1>3, <2>3
    <3> HIDE DEF h
    <3>2. QED
      BY <3>1 DEF OneLine
  <2>5. \A n \in 0 .. k : h[n] = OneLine(lines, n, h)
    <3>1. ASSUME NEW n \in 0 .. k
          PROVE  h[n] = OneLine(lines, n, h)
      <4>1. CASE n = k
        BY <2>4, <4>1
      <4>2. CASE n # k
        <5>1. n \in 0 .. k - 1
          BY <1>3, <4>2
        <5>2. g[n] = OneLine(lines, n, g)
          BY <2>2, <5>1
        <5> HIDE DEF h
        <5>3. QED
          BY <2>3, <2>4, <5>1, <5>2
      <4>3. QED
        BY <4>1, <4>2
    <3>2. QED
      BY <3>1
  <2>6. h = [n \in 0 .. k |-> h[n]]
    OBVIOUS
  <2> HIDE DEF h
  <2>7. h = [n \in 0 .. k |-> OneLine(lines, n, h)]
    BY <2>5, <2>6
  <2>8. QED
    BY <1>3, <2>7
<1>6. QED
  BY <1>4, <1>5

Definitions == {l \in Seq(STRING) : T!Defines(l)}

LEMMA DefiningTyped ==
  ASSUME NEW lines \in Seq(Seq(STRING))
  PROVE  T!Defining(lines) \in Seq(Definitions)
<1> DEFINE found[n \in 0 .. Len(lines)] ==
             IF n = 0 THEN <<>>
             ELSE IF T!Defines(lines[n]) THEN Append(found[n - 1], lines[n]) ELSE found[n - 1]
<1>1. T!Defining(lines) = found[Len(lines)]
  BY DEF T!Defining
<1>2. PICK f : f = found
  OBVIOUS
<1>3. f = [n \in 0 .. Len(lines) |-> OneLine(lines, n, f)]
  <2>1. \E g : g = [n \in 0 .. Len(lines) |-> OneLine(lines, n, g)]
    <3>1. Len(lines) \in Nat
      OBVIOUS
    <3>2. QED
      BY <3>1, LoopExists
  <2>2. QED
    BY <1>2, <2>1 DEF OneLine
<1> HIDE DEF found
<1> DEFINE bad == {k \in 0 .. Len(lines) : f[k] \notin Seq(Definitions)}
<1>4. SUFFICES ASSUME bad # {} PROVE FALSE
  BY <1>1, <1>2
<1>5. PICK k \in bad : \A y \in bad : k <= y
  <2>1. bad \in SUBSET Nat
    OBVIOUS
  <2> HIDE DEF bad
  <2>2. QED
    BY <1>4, <2>1, LeastNumber
<1>6. /\ k \in 0 .. Len(lines) /\ f[k] \notin Seq(Definitions) /\ f[k] = OneLine(lines, k, f)
      /\ Len(lines) \in Nat
  <2>1. k \in 0 .. Len(lines) /\ f[k] \notin Seq(Definitions)
    OBVIOUS
  <2>2. \A n \in 0 .. Len(lines) : f[n] = OneLine(lines, n, f)
    <3> HIDE DEF bad
    <3>1. PICK g : g = [n \in 0 .. Len(lines) |-> OneLine(lines, n, f)]
      OBVIOUS
    <3>2. \A n \in 0 .. Len(lines) : g[n] = OneLine(lines, n, f)
      BY <3>1
    <3>3. f = g
      BY <1>3, <3>1
    <3>4. QED
      BY <3>2, <3>3
  <2>3. Len(lines) \in Nat
    OBVIOUS
  <2> HIDE DEF bad
  <2>4. QED
    BY <2>1, <2>2, <2>3
<1>7. k # 0
  BY <1>6 DEF OneLine
<1>8. f[k - 1] \in Seq(Definitions)
  <2>1. k - 1 \in 0 .. Len(lines) /\ ~(k <= k - 1)
    BY <1>6, <1>7
  <2>2. QED
    BY <1>5, <2>1
<1>9. T!Defines(lines[k]) => lines[k] \in Definitions
  BY <1>6, <1>7 DEF Definitions
<1>10. OneLine(lines, k, f) \in Seq(Definitions)
  BY <1>7, <1>8, <1>9, AppendPlaces DEF OneLine
<1>11. QED
  BY <1>6, <1>10

LEMMA CutTyped ==
  ASSUME NEW s \in Seq(STRING), NEW n \in Nat
  PROVE  /\ T!Cut(s, n) \in Seq(STRING)
         /\ Len(s) <= n => T!Cut(s, n) = s
<1>1. T!Least(Len(s), n) \in 0 .. Len(s) /\ (Len(s) <= n => T!Least(Len(s), n) = Len(s))
  BY DEF T!Least
<1>2. SubSeq(s, 1, Len(s)) = s
  OBVIOUS
<1>3. QED
  BY <1>1, <1>2, SubSeqPlaces DEF T!Cut

LEMMA NameTyped ==
  ASSUME NEW l \in Definitions
  PROVE  SubSeq(l, 1, T!First(l) - 1) \in Seq(STRING)
<1>1. T!Splits(l) \in SUBSET Nat /\ T!Splits(l) # {} /\ \A i \in T!Splits(l) : i \in 1 .. Len(l)
  BY DEF Definitions, T!Defines, T!Splits
<1>2. T!First(l) \in T!Splits(l)
  BY <1>1, LeastNumber DEF T!First
<1>3. l \in Seq(STRING) /\ T!First(l) - 1 \in 0 .. Len(l)
  BY <1>1, <1>2 DEF Definitions
<1>4. QED
  BY <1>3, SubSeqPlaces

(* What the login relies on of the table.                                  *)
UsersTyped ==
  /\ Len(users) \in Nat
  /\ \A i \in 1 .. Len(users) : users[i].Name \in Seq(STRING) /\ "VALID" \in users[i].Flags

LEMMA LoadTyped ==
  ASSUME users = T!UsersLoad
  PROVE  UsersTyped
<1>1. /\ USER_NAME_LENGTH \in Nat \ {0, 1} /\ MAX_VAR_NAME \in Nat \ {0} /\ MAX_USERS \in Nat \ {0}
      /\ MAX_CONFIG_VARS \in Nat /\ UsersIni \in Seq(Seq(STRING))
  BY PartsAssumption DEF T!TerminalAssumption
<1>2. PICK d : d = T!Defining(UsersIni)
  OBVIOUS
<1>3. d \in Seq(Definitions)
  BY <1>1, <1>2, DefiningTyped
<1>4. PICK n : n = T!Least(Len(d), MAX_CONFIG_VARS)
  OBVIOUS
<1>5. n \in Nat /\ n <= Len(d)
  BY <1>1, <1>3, <1>4 DEF T!Least
<1>6. PICK vs : vs = T!IniRead(UsersIni)
  OBVIOUS
<1>7. vs = [i \in 1 .. n |->
                [name  |-> T!Cut(SubSeq(d[i], 1, T!First(d[i]) - 1), MAX_VAR_NAME - 1),
                 value |-> T!Cut(SubSeq(d[i], T!First(d[i]) + 1, Len(d[i])), MAX_VAR_NAME - 1)]]
  BY <1>2, <1>4, <1>6 DEF T!IniRead
<1>8. Len(vs) = n /\ \A i \in 1 .. n : vs[i].name \in Seq(STRING)
  <2>1. Len(vs) = n
    BY <1>5, <1>7
  <2>2. ASSUME NEW i \in 1 .. n PROVE vs[i].name \in Seq(STRING)
    <3>1. d[i] \in Definitions
      BY <1>3, <1>5
    <3>2. MAX_VAR_NAME - 1 \in Nat
      BY <1>1
    <3>3. vs[i].name = T!Cut(SubSeq(d[i], 1, T!First(d[i]) - 1), MAX_VAR_NAME - 1)
      BY <1>7
    <3>4. QED
      BY <3>1, <3>2, <3>3, NameTyped, CutTyped
  <2>3. QED
    BY <2>1, <2>2
<1>9. PICK m : m = T!Least(n, MAX_USERS)
  OBVIOUS
<1>10. m \in Nat /\ m <= n
  BY <1>1, <1>5, <1>9 DEF T!Least
<1>11. users = [i \in 1 .. m |-> T!User(vs[i])]
  BY <1>6, <1>8, <1>9 DEF T!UsersLoad
<1>12. Len(users) = m
  BY <1>10, <1>11
<1>13. ASSUME NEW i \in 1 .. m
       PROVE  users[i].Name \in Seq(STRING) /\ "VALID" \in users[i].Flags
  <2>1. users[i] = T!User(vs[i])
    BY <1>11
  <2>2. /\ users[i].Name = T!Cut(vs[i].name, USER_NAME_LENGTH - 1)
        /\ users[i].Flags = T!Flags(vs[i].value)
    BY <2>1 DEF T!User
  <2>3. USER_NAME_LENGTH - 1 \in Nat /\ vs[i].name \in Seq(STRING)
    BY <1>1, <1>8, <1>10
  <2>4. "VALID" \in T!Flags(vs[i].value)
    BY DEF T!Flags
  <2>5. QED
    BY <2>2, <2>3, <2>4, CutTyped
<1>14. QED
  BY <1>10, <1>12, <1>13 DEF UsersTyped

-----------------------------------------------------------------------------
(* The login follows what was typed.                                       *)

(* The user whose name can be typed in full and stands for nobody else.    *)
Nameable(i) ==
  /\ Len(users[i].Name) < USER_NAME_LENGTH - 1
  /\ \A k \in 1 .. Len(users[i].Name) : users[i].Name[k] \notin T!Controls
  /\ \A j \in 1 .. i - 1 : ~T!Same(users[j].Name, users[i].Name)

(* What was typed are the first n characters of the name.                  *)
Begins(text, i, n) ==
  n <= Len(text) /\ n <= Len(users[i].Name) /\ \A k \in 1 .. n : text[k] = users[i].Name[k]

(* The name with its newline, and a word that fits behind it.              *)
Continues(text, i) ==
  LET n == Len(users[i].Name) IN
  /\ Len(text) > n /\ Begins(text, i, n) /\ text[n + 1] = T!NL
  /\ \A k \in n + 2 .. Len(text) : text[k] \notin T!Controls
  /\ Len(text) - n - 1 < PASS_LENGTH - 1

(* What is in the buffer was typed behind the first n characters.          *)
Behind(text, n) ==
  Len(entered) = Len(text) - n /\ \A k \in 1 .. Len(entered) : entered[k] = text[n + k]

Following(i) ==
  /\ Begins(typed, i, Len(typed)) => stage = "name" /\ Behind(typed, 0)
  /\ Continues(typed, i) =>
       stage = "pass" /\ name = users[i].Name /\ Behind(typed, Len(users[i].Name) + 1)

LoginInv ==
  /\ UsersTyped /\ typed \in Seq(TypedChars)
  /\ entered \in Seq(TypedChars)
  /\ \A i \in 1 .. Len(users) : Nameable(i) => Following(i)
  /\ UsersLogIn

LEMMA MiddlePlaces ==
  ASSUME NEW S, NEW q \in Seq(S), NEW a \in Nat \ {0}, NEW m \in 0 .. Len(q), a <= m + 1
  PROVE  /\ SubSeq(q, a, m) \in Seq(S) /\ Len(SubSeq(q, a, m)) = m - a + 1
         /\ \A k \in 1 .. m - a + 1 : SubSeq(q, a, m)[k] = q[a + k - 1]
OBVIOUS

LEMMA SameSequence ==
  ASSUME NEW S, NEW R, NEW q \in Seq(S), NEW r \in Seq(R), Len(q) = Len(r),
         \A k \in 1 .. Len(q) : q[k] = r[k]
  PROVE  q = r
OBVIOUS

LEMMA Lengths ==
  USER_NAME_LENGTH \in Nat \ {0, 1} /\ PASS_LENGTH \in Nat \ {0, 1}
BY PartsAssumption DEF T!TerminalAssumption

LEMMA ControlFacts ==
  T!NL \in T!Controls /\ T!BS \in T!Controls /\ T!NL # T!BS
BY DEF T!NL, T!BS, T!Controls

(* Who typed the name of a user is found as that user.                     *)
LEMMA UserFound ==
  ASSUME UsersTyped, NEW i \in 1 .. Len(users), Nameable(i)
  PROVE  T!UserFind(users[i].Name) = i - 1
<1> DEFINE n == users[i].Name
           named == {j \in 1 .. Len(users) :
                       "VALID" \in users[j].Flags
                       /\ T!Same(T!Cut(n, USER_NAME_LENGTH), T!Cut(users[j].Name, USER_NAME_LENGTH))}
<1>1. /\ Len(users) \in Nat /\ n \in Seq(STRING) /\ Len(n) \in Nat
      /\ Len(n) < USER_NAME_LENGTH - 1 /\ USER_NAME_LENGTH \in Nat \ {0, 1}
      /\ \A j \in 1 .. Len(users) : users[j].Name \in Seq(STRING) /\ "VALID" \in users[j].Flags
  BY Lengths DEF UsersTyped, Nameable
<1>2. T!Cut(n, USER_NAME_LENGTH) = n
  <2>1. PICK m : m = n
    OBVIOUS
  <2>2. m \in Seq(STRING) /\ Len(m) <= USER_NAME_LENGTH /\ USER_NAME_LENGTH \in Nat
    BY <1>1, <2>1
  <2>3. QED
    BY <2>1, <2>2, CutTyped
<1>3. i \in named
  BY <1>1, <1>2 DEF T!Same
<1>4. \A j \in named : i <= j
  <2>1. SUFFICES ASSUME NEW j \in named, j < i PROVE FALSE
    BY <1>1
  <2>2. /\ j \in 1 .. i - 1 /\ users[j].Name \in Seq(STRING)
        /\ T!Same(n, T!Cut(users[j].Name, USER_NAME_LENGTH))
    BY <1>1, <1>2, <2>1
  <2>3. PICK m, c : m = users[j].Name /\ c = T!Cut(m, USER_NAME_LENGTH)
    OBVIOUS
  <2>4. m \in Seq(STRING) /\ Len(c) = Len(n) /\ \A k \in 1 .. Len(n) : Folded(n[k]) = Folded(c[k])
    BY <2>2, <2>3 DEF T!Same
  <2>5. Len(c) = T!Least(Len(m), USER_NAME_LENGTH)
    <3>1. T!Least(Len(m), USER_NAME_LENGTH) \in 0 .. Len(m)
      BY <1>1, <2>4 DEF T!Least
    <3>2. QED
      BY <2>3, <2>4, <3>1, SubSeqPlaces DEF T!Cut
  <2>6. Len(m) <= USER_NAME_LENGTH
    BY <1>1, <2>4, <2>5 DEF T!Least
  <2>7. c = m
    BY <1>1, <2>3, <2>4, <2>6, CutTyped
  <2>8. T!Same(m, n)
    BY <2>4, <2>7 DEF T!Same
  <2>9. QED
    BY <2>2, <2>3, <2>8 DEF Nameable
<1>5. T!UserFind(n) = (CHOOSE x \in named : \A y \in named : x <= y) - 1
  BY <1>3 DEF T!UserFind
<1> HIDE DEF named, n
<1>6. (CHOOSE x \in named : \A y \in named : x <= y) = i
  <2>1. \A x \in named : x \in Nat
    BY <1>1 DEF named
  <2>2. \A x \in named : (\A y \in named : x <= y) => x = i
    BY <1>3, <1>4, <2>1
  <2>3. QED
    BY <1>3, <1>4, <2>2
<1>7. QED
  BY <1>5, <1>6 DEF n

LEMMA LoginStarts ==
  ASSUME T!TerminalInit
  PROVE  LoginInv
<1>1. /\ users = T!UsersLoad /\ stage = "name" /\ entered = <<>> /\ typed = <<>>
  BY DEF T!TerminalInit
<1>2. UsersTyped
  BY <1>1, LoadTyped
<1>3. Len(typed) = 0 /\ Len(entered) = 0 /\ typed \in Seq(TypedChars) /\ entered \in Seq(TypedChars)
  BY <1>1
<1>4. ASSUME NEW i \in 1 .. Len(users)
      PROVE  Following(i)
  <2>1. Len(users[i].Name) \in Nat
    BY <1>2 DEF UsersTyped
  <2>2. ~Continues(typed, i)
    BY <1>3, <2>1 DEF Continues
  <2>3. Behind(typed, 0)
    BY <1>3 DEF Behind
  <2>4. QED
    BY <1>1, <2>2, <2>3 DEF Following
<1>5. UsersLogIn
  <2>1. \A i \in 1 .. Len(users) : Len(users[i].Name) \in Nat
    BY <1>2 DEF UsersTyped
  <2>2. \A i \in 1 .. Len(users) : ~(Len(typed) > Len(users[i].Name) + 1)
    BY <1>3, <2>1
  <2>3. QED
    BY <2>2 DEF UsersLogIn, T!UsersLogIn
<1>6. QED
  BY <1>2, <1>3, <1>4, <1>5 DEF LoginInv

(* What was typed without the character that was typed last.               *)
LEMMA OneMore ==
  ASSUME NEW text \in Seq(TypedChars), NEW ch \in TypedChars, NEW more,
         more = Append(text, ch)
  PROVE  /\ more \in Seq(TypedChars) /\ Len(text) \in Nat /\ Len(more) = Len(text) + 1
         /\ \A k \in 1 .. Len(text) : more[k] = text[k]
         /\ more[Len(text) + 1] = ch
BY AppendPlaces

LEMMA EditedTyped ==
  ASSUME entered \in Seq(TypedChars), NEW ch \in TypedChars
  PROVE  /\ T!Edited(ch) \in Seq(TypedChars)
         /\ ch \notin T!Controls => T!Edited(ch) = Append(entered, ch)
         /\ ch = T!NL => T!Edited(ch) = entered
<1>1. CASE ch = T!BS /\ entered # <<>>
  <2>1. T!Edited(ch) = SubSeq(entered, 1, Len(entered) - 1)
    BY <1>1, ControlFacts DEF T!Edited, T!Front
  <2>2. Len(entered) - 1 \in 0 .. Len(entered)
    BY <1>1
  <2>3. QED
    BY <1>1, <2>1, <2>2, ControlFacts, SubSeqPlaces
<1>2. CASE ch \notin T!Controls
  <2>1. T!Edited(ch) = Append(entered, ch) /\ ch # T!NL
    BY <1>2, ControlFacts DEF T!Edited
  <2>2. QED
    BY <1>2, <2>1, AppendPlaces
<1>3. CASE ch \in T!Controls /\ ~(ch = T!BS /\ entered # <<>>)
  <2>1. T!Edited(ch) = entered
    BY <1>3 DEF T!Edited
  <2>2. QED
    BY <1>3, <2>1
<1>4. QED
  BY <1>1, <1>2, <1>3

(* A character of the line that is no control character and does not       *)
(* complete it joins the buffer.                                           *)
LEMMA Joins ==
  ASSUME NEW ch \in TypedChars, ch \notin T!Controls, entered \in Seq(TypedChars),
         Len(entered) + 1 # T!Room - 1,
         T!TypeMore(ch) \/ T!NameTyped(ch) \/ T!PasswordTyped(ch)
  PROVE  stage' = stage /\ name' = name /\ entered' = Append(entered, ch)
<1>1. T!Edited(ch) = Append(entered, ch) /\ Len(Append(entered, ch)) = Len(entered) + 1
  BY EditedTyped, AppendPlaces
<1>2. ~T!Complete(ch)
  BY <1>1, ControlFacts DEF T!Complete
<1>3. T!TypeMore(ch)
  BY <1>2 DEF T!NameTyped, T!PasswordTyped
<1>4. QED
  BY <1>1, <1>3 DEF T!TypeMore

(* A newline ends the line.                                                *)
LEMMA Ends ==
  ASSUME T!TypeMore(T!NL) \/ T!NameTyped(T!NL) \/ T!PasswordTyped(T!NL)
  PROVE  /\ stage = "name" => T!NameTyped(T!NL)
         /\ stage = "pass" => T!PasswordTyped(T!NL)
<1>1. T!Complete(T!NL)
  BY DEF T!Complete
<1>2. QED
  BY <1>1 DEF T!TypeMore, T!NameTyped, T!PasswordTyped

LEMMA FollowingGoesOn ==
  ASSUME LoginInv, NEW ch \in TypedChars, typed' = Append(typed, ch), users' = users,
         T!TypeMore(ch) \/ T!NameTyped(ch) \/ T!PasswordTyped(ch),
         NEW i \in 1 .. Len(users), Nameable(i)
  PROVE  Following(i)'
<1>1. PICK u, n, m, more : u = users[i].Name /\ n = Len(u) /\ m = Len(typed) /\ more = typed'
  OBVIOUS
<1>2. /\ u \in Seq(STRING) /\ n \in Nat /\ n < USER_NAME_LENGTH - 1
      /\ \A k \in 1 .. n : u[k] \notin T!Controls
      /\ USER_NAME_LENGTH \in Nat \ {0, 1} /\ PASS_LENGTH \in Nat \ {0, 1}
  BY <1>1, Lengths DEF LoginInv, UsersTyped, Nameable
<1>3. /\ m \in Nat /\ Len(more) = m + 1 /\ more \in Seq(TypedChars)
      /\ \A k \in 1 .. m : more[k] = typed[k]
      /\ more[m + 1] = ch
  BY <1>1, OneMore DEF LoginInv
<1>4. Following(i) /\ entered \in Seq(TypedChars) /\ Len(entered) \in Nat
  BY DEF LoginInv
<1>5. ASSUME Begins(more, i, m + 1)
      PROVE  stage' = "name" /\ Behind(more, 0)'
  <2>1. m + 1 <= n /\ \A k \in 1 .. m + 1 : more[k] = u[k]
    BY <1>1, <1>5 DEF Begins
  <2>2. Begins(typed, i, m)
    <3>1. m <= n /\ \A k \in 1 .. m : typed[k] = u[k]
      BY <1>2, <1>3, <2>1
    <3>2. QED
      BY <1>1, <3>1 DEF Begins
  <2>3. stage = "name" /\ Len(entered) = m /\ \A k \in 1 .. m : entered[k] = typed[k]
    <3>1. stage = "name" /\ Behind(typed, 0)
      BY <1>1, <1>4, <2>2 DEF Following
    <3>2. Len(entered) = m - 0 /\ \A k \in 1 .. Len(entered) : entered[k] = typed[0 + k]
      BY <1>1, <3>1 DEF Behind
    <3>3. QED
      BY <1>3, <3>1, <3>2
  <2>4. ch \notin T!Controls
    BY <1>2, <1>3, <2>1
  <2>5. Len(entered) + 1 # T!Room - 1
    BY <1>2, <1>3, <2>1, <2>3 DEF T!Room
  <2>6. stage' = "name" /\ entered' = Append(entered, ch)
    BY <1>4, <2>3, <2>4, <2>5, Joins
  <2>7. PICK e : e = entered'
    OBVIOUS
  <2>8. Len(e) = m + 1 /\ \A k \in 1 .. m + 1 : e[k] = more[0 + k]
    <3>1. Len(e) = m + 1 /\ e[m + 1] = ch /\ \A k \in 1 .. m : e[k] = entered[k]
      BY <1>4, <2>3, <2>6, <2>7, OneMore
    <3>2. QED
      BY <1>3, <2>3, <3>1
  <2>9. (Len(entered) = Len(more) - 0 /\ \A k \in 1 .. Len(entered) : entered[k] = more[0 + k])'
    BY <1>3, <2>7, <2>8
  <2>10. QED
    BY <2>6, <2>9 DEF Behind
<1>6. ASSUME Continues(more, i)
      PROVE  stage' = "pass" /\ name' = u /\ Behind(more, n + 1)'
  <2>1. /\ m + 1 > n /\ \A k \in 1 .. n : more[k] = u[k]
        /\ more[n + 1] = T!NL
        /\ \A k \in n + 2 .. m + 1 : more[k] \notin T!Controls
        /\ m + 1 - n - 1 < PASS_LENGTH - 1
    <3>1. /\ Len(more) > n /\ Begins(more, i, n) /\ more[n + 1] = T!NL
          /\ \A k \in n + 2 .. Len(more) : more[k] \notin T!Controls
          /\ Len(more) - n - 1 < PASS_LENGTH - 1
      BY <1>1, <1>6 DEF Continues
    <3>2. \A k \in 1 .. n : more[k] = u[k]
      BY <1>1, <3>1 DEF Begins
    <3>3. Len(more) = m + 1 /\ m \in Nat /\ n \in Nat
      BY <1>2, <1>3
    <3>4. PICK l : l = Len(more)
      OBVIOUS
    <3>5. l = m + 1 /\ l - n - 1 = m + 1 - n - 1
      BY <3>3, <3>4
    <3>6. QED
      BY <3>1, <3>2, <3>3, <3>4, <3>5
  <2>2. CASE m = n
    <3>1. ch = T!NL
      BY <1>3, <2>1, <2>2
    <3>2. Begins(typed, i, m)
      <4>1. m <= n /\ \A k \in 1 .. m : typed[k] = u[k]
        BY <1>2, <1>3, <2>1, <2>2
      <4>2. QED
        BY <1>1, <4>1 DEF Begins
    <3>3. stage = "name" /\ Len(entered) = n /\ \A k \in 1 .. n : entered[k] = u[k]
      <4>1. stage = "name" /\ Behind(typed, 0)
        BY <1>1, <1>4, <3>2 DEF Following
      <4>2. Len(entered) = m - 0 /\ \A k \in 1 .. Len(entered) : entered[k] = typed[0 + k]
        BY <1>1, <4>1 DEF Behind
      <4>3. Len(entered) = n /\ \A k \in 1 .. n : entered[k] = typed[k]
        BY <1>3, <2>2, <4>2
      <4>4. \A k \in 1 .. n : typed[k] = u[k]
        BY <1>3, <2>1, <2>2
      <4>5. QED
        BY <4>1, <4>3, <4>4
    <3>4. entered = u
      BY <1>1, <1>2, <1>4, <3>3, SameSequence
    <3>5. T!NameTyped(T!NL)
      BY <3>1, <3>3, Ends
    <3>6. name' = u /\ entered' = <<>> /\ stage' = "pass"
      BY <1>4, <3>1, <3>4, <3>5, EditedTyped DEF T!NameTyped
    <3>7. (Len(entered) = Len(more) - (n + 1))' /\ Len(entered)' = 0
      BY <1>2, <1>3, <2>2, <3>6
    <3>8. QED
      BY <3>6, <3>7 DEF Behind
  <2>3. CASE m # n
    <3>1. m > n /\ m \in Nat
      BY <1>2, <1>3, <2>1, <2>3
    <3>2. Continues(typed, i)
      <4>1. /\ \A k \in 1 .. n : typed[k] = u[k]
            /\ typed[n + 1] = T!NL
            /\ \A k \in n + 2 .. m : typed[k] \notin T!Controls
            /\ m - n - 1 < PASS_LENGTH - 1
        BY <1>2, <1>3, <2>1, <3>1
      <4>2. QED
        BY <1>1, <1>2, <3>1, <4>1 DEF Continues, Begins
    <3>3. /\ stage = "pass" /\ name = u /\ Len(entered) = m - (n + 1)
          /\ \A k \in 1 .. Len(entered) : entered[k] = typed[n + 1 + k]
      BY <1>1, <1>4, <3>2 DEF Following, Behind
    <3>4. ch \notin T!Controls
      BY <1>2, <1>3, <2>1, <3>1
    <3>5. Len(entered) + 1 # T!Room - 1
      BY <1>2, <1>3, <2>1, <3>1, <3>3 DEF T!Room
    <3>6. stage' = "pass" /\ name' = u /\ entered' = Append(entered, ch)
      BY <1>4, <3>3, <3>4, <3>5, Joins
    <3>7. PICK e : e = entered'
      OBVIOUS
    <3>8. /\ Len(e) = m - n /\ e[m - n] = ch
          /\ \A k \in 1 .. m - (n + 1) : e[k] = typed[n + 1 + k]
      <4>1. PICK q : q = entered
        OBVIOUS
      <4>2. /\ q \in Seq(TypedChars) /\ e = Append(q, ch) /\ Len(q) = m - (n + 1)
            /\ \A k \in 1 .. m - (n + 1) : q[k] = typed[n + 1 + k]
        BY <1>4, <3>3, <3>6, <3>7, <4>1
      <4>3. Len(e) = m - (n + 1) + 1 /\ e[m - (n + 1) + 1] = ch
            /\ \A k \in 1 .. m - (n + 1) : e[k] = q[k]
        BY <4>2, OneMore
      <4>4. m - (n + 1) + 1 = m - n
        BY <1>2, <3>1
      <4>5. QED
        BY <4>2, <4>3, <4>4
    <3>9. \A k \in 1 .. m - n : e[k] = more[n + 1 + k]
      <4>1. ASSUME NEW k \in 1 .. m - n
            PROVE  e[k] = more[n + 1 + k]
        <5>1. CASE k = m - n
          <6>1. n + 1 + k = m + 1
            BY <1>2, <3>1, <5>1
          <6>2. QED
            BY <1>3, <3>8, <5>1, <6>1
        <5>2. CASE k # m - n
          <6>1. k \in 1 .. m - (n + 1) /\ n + 1 + k \in 1 .. m
            BY <1>2, <3>1, <5>2
          <6>2. QED
            BY <1>3, <3>8, <6>1
        <5>3. QED
          BY <5>1, <5>2
      <4>2. QED
        BY <4>1
    <3>10. (Len(entered) = Len(more) - (n + 1)
            /\ \A k \in 1 .. Len(entered) : entered[k] = more[n + 1 + k])'
      <4>1. m + 1 - (n + 1) = m - n
        BY <1>2, <3>1
      <4>2. Len(e) = Len(more) - (n + 1) /\ \A k \in 1 .. Len(e) : e[k] = more[n + 1 + k]
        <5>1. Len(more) - (n + 1) = m - n /\ Len(e) = m - n
          <6>1. PICK l : l = Len(more)
            OBVIOUS
          <6>2. l = m + 1
            BY <1>3, <6>1
          <6>3. l - (n + 1) = m - n
            BY <1>2, <3>1, <6>2
          <6>4. QED
            BY <3>8, <6>1, <6>3
        <5>2. QED
          BY <3>9, <5>1
      <4>3. QED
        BY <3>7, <4>2
    <3>11. QED
      BY <3>6, <3>10 DEF Behind
  <2>4. QED
    BY <2>2, <2>3
<1>7. /\ (Begins(typed, i, Len(typed)))' <=> Begins(more, i, m + 1)
      /\ (Continues(typed, i))' <=> Continues(more, i)
      /\ Behind(typed, 0)' <=> Behind(more, 0)'
      /\ Behind(typed, Len(users[i].Name) + 1)' <=> Behind(more, n + 1)'
      /\ users'[i].Name = u
  BY <1>1, <1>3 DEF Begins, Continues, Behind
<1>8. QED
  BY <1>5, <1>6, <1>7 DEF Following

(* The newline behind the right password ends the login.                   *)
LEMMA PasswordAccepted ==
  ASSUME LoginInv, NEW i \in 1 .. Len(users), Nameable(i), Continues(typed, i),
         T!TypeMore(T!NL) \/ T!NameTyped(T!NL) \/ T!PasswordTyped(T!NL),
         T!NL \in TypedChars, users[i].PassHash = T!fnv1a_hash(entered)
  PROVE  stage' = "over" /\ user' = i - 1
<1>1. stage = "pass" /\ name = users[i].Name
  BY DEF LoginInv, Following
<1>2. T!PasswordTyped(T!NL)
  BY <1>1, Ends
<1>3. T!UserFind(name) = i - 1 /\ Len(users) \in Nat
  BY <1>1, UserFound DEF LoginInv, UsersTyped
<1>4. T!Edited(T!NL) = entered
  BY EditedTyped DEF LoginInv
<1>5. /\ i - 1 # -1 /\ i - 1 \in 0 .. Len(users) - 1 /\ i - 1 + 1 = i
  BY <1>3
<1>6. T!UserMatch(i - 1, entered)
  BY <1>5 DEF T!UserMatch
<1>7. QED
  BY <1>2, <1>3, <1>4, <1>5, <1>6 DEF T!PasswordTyped

LEMMA LoginGoesOn ==
  ASSUME LoginInv, T!TerminalNext
  PROVE  LoginInv'
<1>1. PICK ch \in TypedChars :
        /\ typed' = Append(typed, ch)
        /\ T!TypeMore(ch) \/ T!NameTyped(ch) \/ T!PasswordTyped(ch)
  BY DEF T!TerminalNext
<1>2. users' = users
  BY <1>1 DEF T!TypeMore, T!NameTyped, T!PasswordTyped
<1>3. PICK m, more : m = Len(typed) /\ more = typed'
  OBVIOUS
<1>4. /\ m \in Nat /\ Len(more) = m + 1 /\ more \in Seq(TypedChars)
      /\ \A k \in 1 .. m : more[k] = typed[k]
      /\ more[m + 1] = ch
  BY <1>1, <1>3, OneMore DEF LoginInv
<1>5. UsersTyped'
  BY <1>2 DEF LoginInv, UsersTyped
<1>6. entered' \in Seq(TypedChars)
  <2>1. T!Edited(ch) \in Seq(TypedChars) /\ <<>> \in Seq(TypedChars)
    BY EditedTyped DEF LoginInv
  <2>2. QED
    BY <1>1, <2>1 DEF T!TypeMore, T!NameTyped, T!PasswordTyped
<1>7. ASSUME NEW i \in 1 .. Len(users'), Nameable(i)'
      PROVE  Following(i)'
  <2>1. i \in 1 .. Len(users) /\ Nameable(i)
    BY <1>2, <1>7 DEF Nameable
  <2>2. QED
    BY <1>1, <1>2, <2>1, FollowingGoesOn
<1>8. UsersLogIn'
  <2>1. ASSUME NEW i \in 1 .. Len(users), NEW u, NEW n, u = users[i].Name, n = Len(u),
               n < USER_NAME_LENGTH - 1, \A k \in 1 .. n : u[k] \notin T!Controls,
               \A j \in 1 .. i - 1 : ~T!Same(users[j].Name, u),
               m + 1 > n + 1, more[m + 1] = T!NL,
               SubSeq(more, 1, n + 1) = Append(u, T!NL),
               NEW word, word = SubSeq(more, n + 2, m), Len(word) < PASS_LENGTH - 1,
               \A k \in 1 .. Len(word) : word[k] \notin T!Controls,
               users[i].PassHash = T!fnv1a_hash(word)
        PROVE  stage' = "over" /\ user' = i - 1
    <3>1. u \in Seq(STRING) /\ n \in Nat /\ Nameable(i)
      BY <2>1, SMTT(25) DEF LoginInv, UsersTyped, Nameable
    <3>2. /\ \A k \in 1 .. n : typed[k] = u[k]
          /\ typed[n + 1] = T!NL
      <4>1. n + 1 \in 0 .. Len(more)
        BY <1>4, <2>1, <3>1
      <4>2. \A k \in 1 .. n + 1 : Append(u, T!NL)[k] = more[k]
        <5>1. PICK q : q = SubSeq(more, 1, n + 1)
          OBVIOUS
        <5>2. \A k \in 1 .. n + 1 : q[k] = more[k]
          BY <1>4, <4>1, <5>1, SubSeqPlaces
        <5>3. q = Append(u, T!NL)
          BY <2>1, <5>1
        <5>4. QED
          BY <5>2, <5>3
      <4>3. /\ \A k \in 1 .. n : Append(u, T!NL)[k] = u[k]
            /\ Append(u, T!NL)[n + 1] = T!NL
        BY <2>1, <3>1
      <4>4. /\ n + 1 \in 1 .. n + 1 /\ n + 1 \in 1 .. m
            /\ \A k \in 1 .. n : k \in 1 .. n + 1 /\ k \in 1 .. m
        BY <1>4, <2>1, <3>1
      <4>5. QED
        BY <1>4, <4>2, <4>3, <4>4
    <3>3. /\ word \in Seq(TypedChars) /\ Len(word) = m - n - 1
          /\ \A k \in 1 .. m - n - 1 : word[k] = typed[n + 1 + k]
      <4>1. n + 2 \in 1 .. m + 1 /\ m \in 0 .. Len(more) /\ n + 2 <= m + 1
        BY <1>4, <2>1, <3>1
      <4>2. /\ word \in Seq(TypedChars) /\ Len(word) = m - (n + 2) + 1
            /\ \A k \in 1 .. m - (n + 2) + 1 : word[k] = more[n + 2 + k - 1]
        <5>1. PICK a : a = n + 2
          OBVIOUS
        <5>2. a \in Nat \ {0} /\ a <= m + 1 /\ m \in 0 .. Len(more) /\ more \in Seq(TypedChars)
          BY <1>4, <3>1, <4>1, <5>1
        <5>3. /\ SubSeq(more, a, m) \in Seq(TypedChars) /\ Len(SubSeq(more, a, m)) = m - a + 1
              /\ \A k \in 1 .. m - a + 1 : SubSeq(more, a, m)[k] = more[a + k - 1]
          BY <5>2, MiddlePlaces
        <5>4. word = SubSeq(more, a, m)
          BY <2>1, <5>1
        <5>5. QED
          BY <5>1, <5>3, <5>4
      <4>3. /\ m - (n + 2) + 1 = m - n - 1
            /\ \A k \in 1 .. m - n - 1 : n + 2 + k - 1 = n + 1 + k /\ n + 1 + k \in 1 .. m
        BY <1>4, <2>1, <3>1
      <4>4. QED
        BY <1>4, <4>2, <4>3
    <3>4. Continues(typed, i)
      <4>1. \A k \in n + 2 .. m : typed[k] \notin T!Controls
        <5>1. ASSUME NEW k \in n + 2 .. m
              PROVE  typed[k] \notin T!Controls
          <6>1. PICK j : j = k - n - 1
            OBVIOUS
          <6>2. j \in 1 .. m - n - 1 /\ n + 1 + j = k
            <7>1. m \in Nat /\ n \in Nat /\ k \in n + 2 .. m
              BY <1>4, <3>1
            <7>2. QED
              BY <6>1, <7>1
          <6>3. word[j] = typed[k] /\ j \in 1 .. Len(word)
            BY <3>3, <6>2
          <6>4. QED
            BY <2>1, <6>3
        <5>2. QED
          BY <5>1
      <4>2. m > n /\ m - n - 1 < PASS_LENGTH - 1
        <5>1. m + 1 > n + 1 /\ Len(word) < PASS_LENGTH - 1 /\ Len(word) = m - n - 1
          BY <2>1, <3>3
        <5>2. QED
          BY <1>4, <3>1, <5>1
      <4>3. Begins(typed, i, n)
        <5>1. n <= m
          BY <1>4, <3>1, <4>2
        <5>2. QED
          BY <1>3, <2>1, <3>1, <3>2, <5>1 DEF Begins
      <4>4. QED
        BY <1>3, <2>1, <3>2, <4>1, <4>2, <4>3 DEF Continues
    <3>5. entered = word
      <4>1. Behind(typed, n + 1) /\ entered \in Seq(TypedChars)
        BY <2>1, <3>1, <3>4 DEF LoginInv, Following
      <4>2. /\ Len(entered) = m - (n + 1)
            /\ \A k \in 1 .. Len(entered) : entered[k] = typed[n + 1 + k]
        BY <1>3, <4>1 DEF Behind
      <4>3. m - (n + 1) = m - n - 1
        BY <1>4, <3>1
      <4>4. Len(entered) = Len(word) /\ \A k \in 1 .. Len(entered) : entered[k] = word[k]
        BY <3>3, <4>2, <4>3
      <4>5. QED
        BY <3>3, <4>1, <4>4, SameSequence
    <3>6. QED
      BY <1>1, <1>4, <2>1, <3>1, <3>4, <3>5, PasswordAccepted
  <2>2. SUFFICES ASSUME NEW i \in 1 .. Len(users)
                 PROVE  LET u == users[i]
                            word == SubSeq(more, Len(u.Name) + 2, Len(more) - 1)
                        IN  /\ Len(u.Name) < USER_NAME_LENGTH - 1
                            /\ \A k \in 1 .. Len(u.Name) : u.Name[k] \notin T!Controls
                            /\ \A j \in 1 .. i - 1 : ~T!Same(users[j].Name, u.Name)
                            /\ Len(more) > Len(u.Name) + 1 /\ more[Len(more)] = T!NL
                            /\ SubSeq(more, 1, Len(u.Name) + 1) = Append(u.Name, T!NL)
                            /\ Len(word) < PASS_LENGTH - 1
                            /\ \A k \in 1 .. Len(word) : word[k] \notin T!Controls
                            /\ u.PassHash = T!fnv1a_hash(word)
                            => stage' = "over" /\ user' = i - 1
    BY <1>2, <1>3 DEF UsersLogIn, T!UsersLogIn, T!Last
  <2>3. Len(more) = m + 1 /\ Len(more) - 1 = m
    BY <1>4
  <2>4. PICK u, n, word : u = users[i].Name /\ n = Len(u) /\ word = SubSeq(more, n + 2, m)
    OBVIOUS
  <2>5. QED
    BY <2>1, <2>3, <2>4
<1>9. QED
  BY <1>2, <1>3, <1>4, <1>5, <1>6, <1>7, <1>8 DEF LoginInv

LEMMA LoginStays ==
  ASSUME LoginInv, UNCHANGED terminalVars
  PROVE  LoginInv'
<1>1. /\ users' = users /\ stage' = stage /\ entered' = entered /\ name' = name
      /\ user' = user /\ typed' = typed
  BY DEF terminalVars
<1>2. UsersTyped'
  BY <1>1 DEF LoginInv, UsersTyped
<1>3. ASSUME NEW i \in 1 .. Len(users'), Nameable(i)'
      PROVE  Following(i)'
  <2>1. i \in 1 .. Len(users) /\ Nameable(i)
    BY <1>1, <1>3 DEF Nameable
  <2>2. Following(i)
    BY <2>1 DEF LoginInv
  <2>3. QED
    BY <1>1, <2>2 DEF Following, Begins, Continues, Behind
<1>4. UsersLogIn'
  <2>1. UsersLogIn
    BY DEF LoginInv
  <2>2. QED
    BY <1>1, <2>1 DEF UsersLogIn, T!UsersLogIn
<1>5. QED
  BY <1>1, <1>2, <1>3, <1>4 DEF LoginInv

LEMMA LoginInvariant == PartsSpec => []LoginInv
<1>1. PartsInit => LoginInv
  BY LoginStarts DEF PartsInit
<1>2. LoginInv /\ [PartsNext]_vars => LoginInv'
  <2> SUFFICES ASSUME LoginInv, [PartsNext]_vars PROVE LoginInv'
    OBVIOUS
  <2>1. CASE UNCHANGED terminalVars
    BY <2>1, LoginStays
  <2>2. CASE T!TerminalNext
    BY <2>2, LoginGoesOn
  <2>3. QED
    BY <2>1, <2>2 DEF PartsNext, Turn, Others, vars
<1>3. QED
  BY <1>1, <1>2, PTL DEF PartsSpec

(* Who types the name and the password of a user, each with its newline,   *)
(* is logged in as that user (user/main.c:92-138, tty.c:49-86), whatever   *)
(* the table of users, the hash and the lengths are.                       *)
THEOREM NamedUserLogsIn == PartsSpec => []UsersLogIn
<1>1. LoginInv => UsersLogIn
  BY DEF LoginInv
<1>2. QED
  BY <1>1, LoginInvariant, PTL

-----------------------------------------------------------------------------
(* Saving, restoring and drawing on a surface.                             *)

Pixels == D!Windows \cup {D!Blank, D!Junk, D!Cursor}
Bare  == Pixels \ {D!Cursor}

Points == Int \X Int
Extents == Nat \X Nat

LEMMA Geometry ==
  /\ DisplayW \in Nat \ {0} /\ DisplayH \in Nat \ {0} /\ MaxMoved \in Nat
  /\ Len(Order) \in Nat /\ CursorSize \in Extents
  /\ \A i \in 1 .. Len(Order) : Order[i] \in D!Windows
  /\ \A w \in D!Windows : w # D!Cursor /\ Sizes[w] \in Extents
BY PartsAssumption DEF D!DesktopAssumption, D!Windows, Extents

(* Clipping leaves the cells whose pixel the surface has.                  *)
LEMMA Clipping ==
  ASSUME NEW spot \in Points, NEW size \in Extents, NEW c \in D!Cells
  PROVE  /\ c \in D!OnDisplay(D!At(spot, size)) <=> D!Pixel(D!At(spot, size), c) \in D!Local(size)
         /\ c \in D!Committed(D!At(spot, size)) <=> c \in D!OnDisplay(D!At(spot, size))
<1> DEFINE s == D!At(spot, size)
<1>1. /\ s.x \in Int /\ s.y \in Int /\ s.w = size[1] /\ s.h = size[2]
      /\ size[1] \in Nat /\ size[2] \in Nat
  BY DEF D!At, Points, Extents
<1>2. PICK x \in 0 .. DisplayW - 1, y \in 0 .. DisplayH - 1 : c = <<x, y>>
  BY DEF D!Cells
<1>3. ASSUME NEW a \in Int, NEW n \in Nat, NEW room \in Nat \ {0}, NEW v \in 0 .. room - 1
      PROVE  /\ v \in D!Extent(a, n, room) <=> v - a \in 0 .. n - 1
             /\ v \in D!Larger(a, 0) .. D!Smaller(a + n, room) - 1 <=> v - a \in 0 .. n - 1
  BY <1>3 DEF D!Extent, D!Larger, D!Smaller
<1>4. DisplayW \in Nat \ {0} /\ DisplayH \in Nat \ {0}
  BY Geometry
<1> HIDE DEF s
<1>5. /\ x \in D!Extent(s.x, s.w, DisplayW) <=> x - s.x \in 0 .. size[1] - 1
      /\ x \in D!Larger(s.x, 0) .. D!Smaller(s.x + s.w, DisplayW) - 1 <=> x - s.x \in 0 .. size[1] - 1
  BY <1>1, <1>3, <1>4
<1>6. /\ y \in D!Extent(s.y, s.h, DisplayH) <=> y - s.y \in 0 .. size[2] - 1
      /\ y \in D!Larger(s.y, 0) .. D!Smaller(s.y + s.h, DisplayH) - 1 <=> y - s.y \in 0 .. size[2] - 1
  BY <1>1, <1>3, <1>4
<1>7. D!Pixel(s, c) = <<x - s.x, y - s.y>>
  BY <1>2 DEF D!Pixel
<1>8. /\ c \in D!OnDisplay(s) <=> D!Pixel(s, c) \in D!Local(size)
      /\ c \in D!Committed(s) <=> c \in D!OnDisplay(s)
  BY <1>2, <1>5, <1>6, <1>7 DEF D!OnDisplay, D!Committed, D!Local
<1>9. QED
  BY <1>8 DEF s

LEMMA SavedFacts ==
  ASSUME NEW fb \in [D!Cells -> Bare], NEW spot \in Points, NEW size \in Extents,
         NEW buffer \in [D!Local(size) -> Bare]
  PROVE  /\ D!SaveBackground(fb, D!At(spot, size), buffer) \in [D!Local(size) -> Bare]
         /\ \A c \in D!Cells : c \in D!OnDisplay(D!At(spot, size)) =>
              D!SaveBackground(fb, D!At(spot, size), buffer)[D!Pixel(D!At(spot, size), c)] = fb[c]
<1> DEFINE s == D!At(spot, size)
<1> DEFINE cell(p) == <<s.x + p[1], s.y + p[2]>>
<1>1. s.x \in Int /\ s.y \in Int
  BY DEF D!At, Points
<1>2. D!SaveBackground(fb, s, buffer)
        = [p \in D!Local(size) |-> IF cell(p) \in D!OnDisplay(s) THEN fb[cell(p)] ELSE buffer[p]]
  BY DEF D!SaveBackground
<1>3. D!OnDisplay(s) \subseteq D!Cells
  <2>1. \A a \in Int, n \in Nat, room \in Nat \ {0} : D!Extent(a, n, room) \subseteq 0 .. room - 1
    BY DEF D!Extent, D!Larger, D!Smaller
  <2>2. s.w \in Nat /\ s.h \in Nat
    BY DEF D!At, Extents
  <2> HIDE DEF s
  <2>3. QED
    BY <1>1, <2>1, <2>2, Geometry DEF D!OnDisplay, D!Cells
<1>4. \A c \in D!Cells : cell(D!Pixel(s, c)) = c
  <2> TAKE c \in D!Cells
  <2>1. PICK x \in 0 .. DisplayW - 1, y \in 0 .. DisplayH - 1 : c = <<x, y>>
    BY DEF D!Cells
  <2>2. DisplayW \in Nat /\ DisplayH \in Nat
    BY Geometry
  <2> HIDE DEF s
  <2>3. s.x + (x - s.x) = x /\ s.y + (y - s.y) = y
    BY <1>1, <2>1, <2>2
  <2>4. QED
    BY <2>1, <2>3 DEF D!Pixel
<1>5. \A c \in D!Cells : c \in D!OnDisplay(s) => D!Pixel(s, c) \in D!Local(size)
  BY Clipping
<1> HIDE DEF s, cell
<1>6. /\ D!SaveBackground(fb, s, buffer) \in [D!Local(size) -> Bare]
      /\ \A c \in D!Cells : c \in D!OnDisplay(s) =>
            D!SaveBackground(fb, s, buffer)[D!Pixel(s, c)] = fb[c]
  BY <1>2, <1>3, <1>4, <1>5
<1>7. QED
  BY <1>6 DEF s

LEMMA RestoredFacts ==
  ASSUME NEW fb \in [D!Cells -> Pixels], NEW spot \in Points, NEW size \in Extents,
         NEW buffer \in [D!Local(size) -> Bare]
  PROVE  /\ D!RestoreBackground(fb, D!At(spot, size), buffer) \in [D!Cells -> Pixels]
         /\ \A c \in D!Cells :
              D!RestoreBackground(fb, D!At(spot, size), buffer)[c]
                = IF c \in D!OnDisplay(D!At(spot, size))
                  THEN buffer[D!Pixel(D!At(spot, size), c)] ELSE fb[c]
         /\ \A c \in D!Cells : c \in D!OnDisplay(D!At(spot, size)) =>
              buffer[D!Pixel(D!At(spot, size), c)] \in Bare
<1>1. \A c \in D!Cells : c \in D!OnDisplay(D!At(spot, size)) =>
                            D!Pixel(D!At(spot, size), c) \in D!Local(size)
  BY Clipping
<1>2. \A c \in D!Cells : c \in D!OnDisplay(D!At(spot, size)) =>
              buffer[D!Pixel(D!At(spot, size), c)] \in Bare
  BY <1>1
<1>3. QED
  BY <1>2 DEF D!RestoreBackground, Bare

LEMMA BlittedFacts ==
  ASSUME NEW fb \in [D!Cells -> Bare], NEW s, NEW opaque, NEW what \in Pixels
  PROVE  /\ D!GDI2BlitSurface(fb, s, opaque, what) \in [D!Cells -> Pixels]
         /\ \A c \in D!Cells :
              D!GDI2BlitSurface(fb, s, opaque, what)[c]
                = IF c \in D!OnDisplay(s) /\ D!Pixel(s, c) \in opaque THEN what ELSE fb[c]
BY DEF D!GDI2BlitSurface, Bare

LEMMA CommittedFacts ==
  ASSUME NEW fb \in [D!Cells -> Pixels], NEW scr \in [D!Cells -> Pixels],
         NEW spot \in Points, NEW size \in Extents
  PROVE  /\ D!GDI2PartialCommit(scr, fb, D!At(spot, size)) \in [D!Cells -> Pixels]
         /\ \A c \in D!Cells :
              D!GDI2PartialCommit(scr, fb, D!At(spot, size))[c]
                = IF c \in D!OnDisplay(D!At(spot, size)) THEN fb[c] ELSE scr[c]
<1>1. \A c \in D!Cells : c \in D!Committed(D!At(spot, size)) <=> c \in D!OnDisplay(D!At(spot, size))
  BY Clipping
<1>2. QED
  BY <1>1 DEF D!GDI2PartialCommit

(* A commit of any part of the display takes over pixels only.             *)
LEMMA CommittedKeeps ==
  ASSUME NEW fb \in [D!Cells -> Pixels], NEW scr \in [D!Cells -> Pixels], NEW s
  PROVE  /\ D!GDI2PartialCommit(scr, fb, s) \in [D!Cells -> Pixels]
         /\ \A c \in D!Cells : scr[c] = fb[c] => D!GDI2PartialCommit(scr, fb, s)[c] = fb[c]
BY DEF D!GDI2PartialCommit

(* What was saved under a surface comes back from under it.                *)
LEMMA SavedComesBack ==
  ASSUME NEW fb \in [D!Cells -> Bare], NEW spot \in Points, NEW size \in Extents,
         NEW buffer \in [D!Local(size) -> Bare], NEW opaque, NEW what \in Pixels
  PROVE  D!RestoreBackground(D!GDI2BlitSurface(fb, D!At(spot, size), opaque, what),
                             D!At(spot, size),
                             D!SaveBackground(fb, D!At(spot, size), buffer)) = fb
<1> DEFINE s == D!At(spot, size)
<1> DEFINE blit == D!GDI2BlitSurface(fb, s, opaque, what)
<1> DEFINE save == D!SaveBackground(fb, s, buffer)
<1>1. /\ blit \in [D!Cells -> Pixels]
      /\ \A c \in D!Cells : c \notin D!OnDisplay(s) => blit[c] = fb[c]
  BY BlittedFacts
<1>2. /\ save \in [D!Local(size) -> Bare]
      /\ \A c \in D!Cells : c \in D!OnDisplay(s) => save[D!Pixel(s, c)] = fb[c]
  BY SavedFacts
<1> HIDE DEF blit, save
<1>3. \A c \in D!Cells : D!RestoreBackground(blit, s, save)[c]
                           = IF c \in D!OnDisplay(s) THEN save[D!Pixel(s, c)] ELSE blit[c]
  BY <1>1, <1>2, RestoredFacts
<1>4. D!RestoreBackground(blit, s, save) \in [D!Cells -> Pixels]
  BY <1>1, <1>2, RestoredFacts
<1>5. \A c \in D!Cells : D!RestoreBackground(blit, s, save)[c] = fb[c]
  BY <1>1, <1>2, <1>3
<1>6. D!RestoreBackground(blit, s, save) = fb
  BY <1>4, <1>5
<1>7. QED
  BY <1>6 DEF blit, save

-----------------------------------------------------------------------------
(* The window manager's inductive invariant.                               *)

(* A way of changing the picture is under way: the cursor is off.          *)
CursorOff == loop \in {"clear", "place"}

(* The picture without the cursor.                                         *)
Below ==
  IF CursorOff THEN framebuffer
  ELSE D!RestoreBackground(framebuffer, D!MouseSurface, mouseSave)

ScreenTyped ==
  /\ front \in [D!Cells -> Pixels] /\ framebuffer \in [D!Cells -> Pixels]
  /\ behind = [w \in D!Windows |-> behind[w]]
  /\ \A w \in D!Windows : behind[w] \in [D!Local(Sizes[w]) -> Bare]
  /\ mouseSave \in [D!Local(CursorSize) -> Bare]

ListTyped ==
  /\ head \in 1 .. Len(Order) + 1 /\ linked \in BOOLEAN
  /\ linked => head <= Len(Order)
  /\ D!Registered \subseteq dirty \cup painted
  /\ obj \in {0} \cup (head .. Len(Order) + 1)
  /\ loop \in {"draw", "clear", "place", "mouse", "button"}

PointerTyped ==
  /\ surface \in [D!Windows -> Points] /\ mouseAt \in Points
  /\ mx \in 0 .. DisplayW - 1 /\ my \in 0 .. DisplayH - 1
  /\ hovered = D!NotHovered \/ \E w \in D!Registered, x, y \in Int : hovered = <<w, x, y>>
  /\ D!Moving => old \in Points /\ hovered # D!NotHovered /\ CursorOff

(* No cursor is in the picture below it, and once a window has been drawn  *)
(* the cursor is shown whenever the loop is round.                         *)
CursorApart ==
  /\ Below \in [D!Cells -> Bare]
  /\ ~CursorOff =>
       LET shown == D!GDI2BlitSurface(Below, D!MouseSurface, D!CursorPixels, D!Cursor) IN
       /\ framebuffer \in {Below, shown}
       /\ painted # {} => framebuffer = shown

Covers(i, c) == D!Pixel(D!WindowSurface(Order[i]), c) \in D!Drawn(Sizes[Order[i]])

(* The windows before this number are down.                                *)
Laid ==
  CASE loop = "place" -> D!Obj - 1
    [] loop = "clear" -> 0
    [] loop \in {"draw", "mouse", "button"} -> Len(Order)

Layered ==
  dirty = {} =>
    \A c \in D!Cells, i \in head .. Laid :
      Covers(i, c) /\ (\A j \in i + 1 .. Laid : ~Covers(j, c)) => Below[c] = Order[i]

(* What the screen does not show yet will be committed with the cursor or  *)
(* with a window that is yet to be put down.                               *)
Uncommitted ==
  \A c \in D!Cells : front[c] # framebuffer[c] =>
    /\ CursorOff
    /\ \/ c \in D!OnDisplay(D!MouseSurface)
       \/ /\ ~D!Moving
          /\ \E i \in (IF loop = "place" THEN D!Obj ELSE head) .. Len(Order) :
               c \in D!OnDisplay(D!WindowSurface(Order[i]))

DesktopInv ==
  /\ ScreenTyped /\ ListTyped /\ PointerTyped
  /\ CursorApart /\ Layered /\ Uncommitted

-----------------------------------------------------------------------------
(* The steps. *)

(* Where the windows and the cursor are.                                   *)
LEMMA Surfaces ==
  ASSUME DesktopInv
  PROVE  /\ D!MouseSurface = D!At(mouseAt, CursorSize) /\ mouseAt \in Points
         /\ \A w \in D!Windows :
              /\ D!WindowSurface(w) = D!At(surface[w], Sizes[w])
              /\ surface[w] \in Points /\ Sizes[w] \in Extents
              /\ behind[w] \in [D!Local(Sizes[w]) -> Bare]
         /\ \A i \in head .. Len(Order) : i \in 1 .. Len(Order) /\ Order[i] \in D!Windows
         /\ D!Registered \subseteq D!Windows
<1>1. D!MouseSurface = D!At(mouseAt, CursorSize) /\ mouseAt \in Points
  BY DEF DesktopInv, PointerTyped, D!MouseSurface
<1>2. \A w \in D!Windows :
        /\ D!WindowSurface(w) = D!At(surface[w], Sizes[w])
        /\ surface[w] \in Points /\ Sizes[w] \in Extents
        /\ behind[w] \in [D!Local(Sizes[w]) -> Bare]
  BY Geometry DEF DesktopInv, PointerTyped, ScreenTyped, D!WindowSurface
<1>3. /\ \A i \in head .. Len(Order) : i \in 1 .. Len(Order) /\ Order[i] \in D!Windows
      /\ D!Registered \subseteq D!Windows
  BY Geometry DEF DesktopInv, ListTyped, D!Registered
<1>4. QED
  BY <1>1, <1>2, <1>3

LEMMA PixelKinds ==
  /\ Bare \subseteq Pixels /\ D!Cursor \in Pixels /\ D!Cursor \notin Bare
  /\ D!Windows \subseteq Bare
BY Geometry DEF Bare, Pixels

(* Taking the cursor away leaves the picture below it, and the screen      *)
(* behind where the cursor was.                                            *)
LEMMA CursorTaken ==
  ASSUME DesktopInv, ~CursorOff,
         framebuffer' = D!RestoreBackground(framebuffer, D!MouseSurface, mouseSave)
  PROVE  /\ framebuffer' = Below /\ Below \in [D!Cells -> Bare]
         /\ \A c \in D!Cells : front[c] # framebuffer'[c] => c \in D!OnDisplay(D!MouseSurface)
<1>1. framebuffer' = Below
  BY DEF Below
<1>2. framebuffer \in [D!Cells -> Pixels] /\ mouseSave \in [D!Local(CursorSize) -> Bare]
      /\ CursorSize \in Extents
  BY Geometry DEF DesktopInv, ScreenTyped
<1>3. \A c \in D!Cells : c \notin D!OnDisplay(D!MouseSurface) => framebuffer'[c] = framebuffer[c]
  BY <1>2, Surfaces, RestoredFacts
<1>4. \A c \in D!Cells : front[c] = framebuffer[c]
  BY DEF DesktopInv, Uncommitted
<1>5. QED
  BY <1>1, <1>3, <1>4 DEF DesktopInv, CursorApart

(* Showing it over a picture that is committed elsewhere.                  *)
LEMMA CursorShown ==
  ASSUME NEW fb \in [D!Cells -> Bare], NEW scr \in [D!Cells -> Pixels], NEW spot \in Points,
         mouseSave \in [D!Local(CursorSize) -> Bare],
         \A c \in D!Cells : scr[c] # fb[c] => c \in D!OnDisplay(D!At(spot, CursorSize)),
         D!ShowCursor(scr, fb, D!At(spot, CursorSize))
  PROVE  /\ mouseSave' \in [D!Local(CursorSize) -> Bare]
         /\ framebuffer' \in [D!Cells -> Pixels] /\ front' = framebuffer'
         /\ framebuffer' = D!GDI2BlitSurface(fb, D!At(spot, CursorSize), D!CursorPixels, D!Cursor)
         /\ D!RestoreBackground(framebuffer', D!At(spot, CursorSize), mouseSave') = fb
<1> DEFINE s == D!At(spot, CursorSize)
<1>1. CursorSize \in Extents
  BY Geometry
<1>2. /\ mouseSave' = D!SaveBackground(fb, s, mouseSave)
      /\ framebuffer' = D!GDI2BlitSurface(fb, s, D!CursorPixels, D!Cursor)
      /\ front' = D!GDI2PartialCommit(scr, framebuffer', s)
  BY DEF D!ShowCursor
<1>3. mouseSave' \in [D!Local(CursorSize) -> Bare]
  BY <1>1, <1>2, SavedFacts
<1>4. /\ framebuffer' \in [D!Cells -> Pixels]
      /\ \A c \in D!Cells : c \notin D!OnDisplay(s) => framebuffer'[c] = fb[c]
  BY <1>2, BlittedFacts, PixelKinds
<1>5. D!RestoreBackground(framebuffer', s, mouseSave') = fb
  BY <1>1, <1>2, SavedComesBack, PixelKinds
<1>6. /\ front' \in [D!Cells -> Pixels]
      /\ \A c \in D!Cells : front'[c] = IF c \in D!OnDisplay(s) THEN framebuffer'[c] ELSE scr[c]
  BY <1>1, <1>2, <1>4, CommittedFacts
<1>7. \A c \in D!Cells : front'[c] = framebuffer'[c]
  BY <1>4, <1>6
<1>8. front' = framebuffer'
  BY <1>4, <1>6, <1>7
<1>9. QED
  BY <1>2, <1>3, <1>4, <1>5, <1>8

(* kmain's steps: a window more is to be drawn.                            *)
LEMMA RegisteringKeeps ==
  ASSUME DesktopInv, D!Register \/ D!MarkDirty
  PROVE  DesktopInv'
<1>1. UNCHANGED <<front, framebuffer, behind, mouseSave, surface, mouseAt, mx, my, middle,
                  hovered, painted, loop, obj, old, movedMouse>>
  BY DEF D!Register, D!MarkDirty, D!processVars
<1>2. /\ head \in 1 .. Len(Order) + 1 /\ Len(Order) \in Nat
      /\ obj \in {0} \cup (head .. Len(Order) + 1)
      /\ loop \in {"draw", "clear", "place", "mouse", "button"}
  BY Geometry DEF DesktopInv, ListTyped
<1>3. /\ head' \in 1 .. Len(Order) + 1 /\ head' <= head /\ linked' \in BOOLEAN
      /\ linked' => head' <= Len(Order)
      /\ Order[head'] \in dirty'
      /\ \A i \in head' .. Len(Order) : i = head' \/ i \in head .. Len(Order)
      /\ dirty \subseteq dirty'
  <2>1. CASE D!Register
    BY <1>2, <2>1 DEF D!Register
  <2>2. CASE D!MarkDirty
    <3>1. head' = head /\ dirty' = dirty \cup {Order[head]}
      BY <2>2 DEF D!MarkDirty
    <3>2. head <= Len(Order)
      BY <2>2 DEF D!MarkDirty, DesktopInv, ListTyped
    <3>3. linked' \in BOOLEAN /\ (linked' => head' <= Len(Order))
      BY <2>2 DEF D!MarkDirty
    <3>4. /\ head' \in 1 .. Len(Order) + 1 /\ head' <= head /\ Order[head'] \in dirty'
          /\ \A i \in head' .. Len(Order) : i = head' \/ i \in head .. Len(Order)
          /\ dirty \subseteq dirty'
      BY <1>2, <3>1, <3>2
    <3>5. QED
      BY <3>3, <3>4
  <2>3. QED
    BY <2>1, <2>2
<1>4. D!Registered' \subseteq dirty' \cup painted' /\ D!Registered \subseteq D!Registered'
  BY <1>1, <1>2, <1>3 DEF D!Registered, DesktopInv, ListTyped
<1>5. ListTyped'
  BY <1>1, <1>2, <1>3, <1>4 DEF ListTyped
<1>6. ScreenTyped'
  BY <1>1 DEF DesktopInv, ScreenTyped
<1>7. PointerTyped'
  BY <1>1, <1>4 DEF DesktopInv, PointerTyped, D!Moving, D!NoMove, D!NotHovered, CursorOff
<1>8. Below' = Below /\ CursorOff' = CursorOff
  BY <1>1 DEF Below, CursorOff, D!RestoreBackground, D!MouseSurface, D!At, D!OnDisplay, D!Extent, D!Pixel
<1>9. CursorApart'
  BY <1>1, <1>8 DEF DesktopInv, CursorApart, D!MouseSurface
<1>10. Layered'
  BY <1>3 DEF Layered
<1>11. Uncommitted'
  <2> SUFFICES ASSUME NEW c \in D!Cells, front[c] # framebuffer[c],
                      c \notin D!OnDisplay(D!MouseSurface)
               PROVE  /\ CursorOff /\ ~D!Moving
                      /\ \E i \in (IF loop = "place" THEN D!Obj' ELSE head') .. Len(Order) :
                            c \in D!OnDisplay(D!WindowSurface(Order[i]))
    BY <1>1, <1>8 DEF DesktopInv, Uncommitted, D!MouseSurface, D!WindowSurface, D!Moving, D!NoMove
  <2>1. /\ CursorOff /\ ~D!Moving
        /\ \E i \in (IF loop = "place" THEN D!Obj ELSE head) .. Len(Order) :
              c \in D!OnDisplay(D!WindowSurface(Order[i]))
    BY DEF DesktopInv, Uncommitted
  <2>2. D!Obj' <= D!Obj /\ D!Obj' \in Nat /\ D!Obj \in Nat
    BY <1>1, <1>2, <1>3 DEF D!Obj
  <2>3. QED
    BY <1>2, <1>3, <2>1, <2>2
<1>12. QED
  BY <1>5, <1>6, <1>7, <1>9, <1>10, <1>11 DEF DesktopInv

(* A step that leaves the picture and the list alone, between two parts of *)
(* the loop.                                                               *)
LEMMA ResumingKeeps ==
  ASSUME DesktopInv, ~CursorOff, ~CursorOff', obj' = obj, old' = old,
         loop' \in {"draw", "mouse", "button"},
         UNCHANGED <<front, framebuffer, behind, mouseSave, surface, mouseAt, head, linked,
                     dirty, painted>>,
         PointerTyped'
  PROVE  DesktopInv'
<1>1. Below' = Below
  BY DEF Below, D!RestoreBackground, D!MouseSurface, D!At, D!OnDisplay, D!Extent, D!Pixel
<1>2. ScreenTyped'
  BY DEF DesktopInv, ScreenTyped
<1>3. ListTyped'
  BY DEF DesktopInv, ListTyped, D!Registered
<1>4. CursorApart'
  BY <1>1 DEF DesktopInv, CursorApart, D!MouseSurface
<1>5. Laid' = Len(Order) /\ Laid = Len(Order)
  <2>1. loop \in {"draw", "mouse", "button"}
    BY DEF DesktopInv, ListTyped, CursorOff
  <2>2. QED
    BY <2>1 DEF Laid
<1>6. \A i, c : Covers(i, c)' <=> Covers(i, c)
  BY DEF Covers, D!WindowSurface
<1>7. Layered'
  BY <1>1, <1>5, <1>6 DEF DesktopInv, Layered
<1>8. Uncommitted'
  BY DEF DesktopInv, Uncommitted
<1>9. QED
  BY <1>2, <1>3, <1>4, <1>7, <1>8 DEF DesktopInv

(* Taking the cursor away before the loops over the list.                  *)
LEMMA TakingKeeps ==
  ASSUME DesktopInv, ~CursorOff, loop' = "clear", obj' = obj, head' = head, linked' = linked,
         UNCHANGED <<front, behind, mouseSave, surface, mouseAt>>,
         framebuffer' = D!RestoreBackground(framebuffer, D!MouseSurface, mouseSave),
         D!Registered' \subseteq dirty' \cup painted', PointerTyped'
  PROVE  DesktopInv'
<1>1. /\ framebuffer' = Below /\ Below \in [D!Cells -> Bare]
      /\ \A c \in D!Cells : front[c] # framebuffer'[c] => c \in D!OnDisplay(D!MouseSurface)
  BY CursorTaken
<1>2. ScreenTyped'
  BY <1>1, PixelKinds DEF DesktopInv, ScreenTyped
<1>3. ListTyped'
  BY DEF DesktopInv, ListTyped
<1>4. CursorOff' /\ Below' = framebuffer'
  BY DEF CursorOff, Below
<1>5. CursorApart'
  BY <1>1, <1>4 DEF CursorApart
<1>6. Layered'
  <2>1. head' \in Nat \ {0} /\ Laid' = 0
    BY Geometry DEF DesktopInv, ListTyped, Laid
  <2>2. QED
    BY <2>1 DEF Layered
<1>7. Uncommitted'
  BY <1>1, <1>4 DEF Uncommitted, D!MouseSurface
<1>8. QED
  BY <1>2, <1>3, <1>5, <1>6, <1>7 DEF DesktopInv

LEMMA DrawKeeps ==
  ASSUME DesktopInv, D!Draw
  PROVE  DesktopInv'
<1>1. /\ loop = "draw" /\ dirty' = {} /\ painted' = painted \cup dirty
      /\ UNCHANGED <<front, behind, mouseSave, obj, old, surface, mouseAt, mx, my, middle,
                     hovered, movedMouse, head, linked>>
  BY DEF D!Draw, D!pointerVars, D!kmainVars
<1>2. ~CursorOff
  BY <1>1 DEF CursorOff
<1>3. D!Registered' = D!Registered /\ D!Registered' \subseteq dirty' \cup painted'
  BY <1>1 DEF D!Registered, DesktopInv, ListTyped
<1>4. PointerTyped'
  BY <1>1, <1>2, <1>3 DEF DesktopInv, PointerTyped, D!Moving, D!NoMove, D!NotHovered
<1>5. CASE dirty = {} /\ loop' = "mouse" /\ UNCHANGED framebuffer
  <2>1. ~CursorOff' /\ painted' = painted
    BY <1>1, <1>5 DEF CursorOff
  <2>2. QED
    BY <1>1, <1>2, <1>4, <1>5, <2>1, ResumingKeeps
<1>6. CASE /\ dirty # {} /\ loop' = "clear"
           /\ framebuffer' = D!RestoreBackground(framebuffer, D!MouseSurface, mouseSave)
  BY <1>1, <1>2, <1>3, <1>4, <1>6, TakingKeeps
<1>7. QED
  BY <1>5, <1>6 DEF D!Draw

LEMMA DropKeeps ==
  ASSUME DesktopInv, D!Drop
  PROVE  DesktopInv'
<1>1. /\ loop = "button" /\ hovered # D!NotHovered
      /\ framebuffer' = D!RestoreBackground(framebuffer, D!MouseSurface, mouseSave)
      /\ old' = surface[hovered[1]] /\ loop' = "clear"
      /\ UNCHANGED <<front, behind, mouseSave, dirty, painted, obj, surface, mouseAt, mx, my,
                     middle, hovered, movedMouse, head, linked>>
  BY DEF D!Drop, D!pointerVars, D!kmainVars
<1>2. ~CursorOff /\ CursorOff'
  BY <1>1 DEF CursorOff
<1>3. D!Registered' = D!Registered
  BY <1>1 DEF D!Registered
<1>4. old' \in Points
  <2>1. PICK w \in D!Registered, x \in Int, y \in Int : hovered = <<w, x, y>>
    BY <1>1 DEF DesktopInv, PointerTyped
  <2>2. hovered[1] = w /\ w \in D!Windows
    BY <2>1, Surfaces
  <2>3. QED
    BY <1>1, <2>2, Surfaces
<1>5. PointerTyped'
  BY <1>1, <1>2, <1>3, <1>4 DEF DesktopInv, PointerTyped, D!NotHovered
<1>6. D!Registered' \subseteq dirty' \cup painted'
  BY <1>1, <1>3 DEF DesktopInv, ListTyped
<1>7. QED
  BY <1>1, <1>2, <1>5, <1>6, TakingKeeps

LEMMA PickUpKeeps ==
  ASSUME DesktopInv, D!PickUp \/ D!NoButton
  PROVE  DesktopInv'
<1>1. /\ loop = "button" /\ loop' = "draw"
      /\ UNCHANGED <<front, framebuffer, behind, mouseSave, surface, mouseAt, mx, my, middle,
                     dirty, painted, obj, old, movedMouse, head, linked>>
      /\ \/ hovered' = hovered \/ hovered' = D!NotHovered
         \/ \E w \in D!Under : hovered' = <<w, mx - surface[w][1], my - surface[w][2]>>
  BY DEF D!PickUp, D!NoButton, D!pointerVars, D!kmainVars
<1>2. ~CursorOff /\ ~CursorOff'
  BY <1>1 DEF CursorOff
<1>3. D!Registered' = D!Registered
  BY <1>1 DEF D!Registered
<1>4. hovered' = D!NotHovered \/ \E w \in D!Registered, x, y \in Int : hovered' = <<w, x, y>>
  <2>1. ASSUME NEW w \in D!Under, hovered' = <<w, mx - surface[w][1], my - surface[w][2]>>
        PROVE  \E v \in D!Registered, x, y \in Int : hovered' = <<v, x, y>>
    <3>1. w \in D!Registered /\ surface[w] \in Points
      BY Surfaces DEF D!Under
    <3>2. mx - surface[w][1] \in Int /\ my - surface[w][2] \in Int
      BY <3>1 DEF DesktopInv, PointerTyped, Points
    <3>3. QED
      BY <2>1, <3>1, <3>2
  <2>2. QED
    BY <1>1, <2>1 DEF DesktopInv, PointerTyped
<1>5. ~D!Moving
  BY <1>2 DEF DesktopInv, PointerTyped
<1>6. PointerTyped'
  BY <1>1, <1>3, <1>4, <1>5 DEF DesktopInv, PointerTyped, D!Moving, D!NoMove, D!NotHovered
<1>7. QED
  BY <1>1, <1>2, <1>6, ResumingKeeps

(* A turn of the first loop. *)
LEMMA TakeAwayKeeps ==
  ASSUME DesktopInv, D!TakeAway
  PROVE  DesktopInv'
<1> DEFINE w == Order[D!Obj]
<1> DEFINE s == D!At(surface[w], Sizes[w])
<1>1. /\ loop = "clear" /\ loop' = loop /\ D!Obj <= Len(Order) /\ obj' = D!Obj + 1
      /\ framebuffer' = D!RestoreBackground(framebuffer, D!WindowSurface(w), behind[w])
      /\ front' = IF D!Moving THEN D!GDI2PartialCommit(front, framebuffer', D!WindowSurface(w))
                  ELSE front
      /\ UNCHANGED <<behind, mouseSave, dirty, painted, old, surface, mouseAt, mx, my, middle,
                     hovered, movedMouse, head, linked>>
  BY DEF D!TakeAway, D!pointerVars, D!kmainVars
<1>2. D!Obj \in head .. Len(Order) /\ head \in 1 .. Len(Order) + 1 /\ Len(Order) \in Nat
  BY <1>1, Geometry DEF DesktopInv, ListTyped, D!Obj
<1>3. /\ w \in D!Windows /\ D!WindowSurface(w) = s
      /\ surface[w] \in Points /\ Sizes[w] \in Extents /\ behind[w] \in [D!Local(Sizes[w]) -> Bare]
  BY <1>2, Surfaces
<1>4. CursorOff /\ CursorOff' /\ Below = framebuffer /\ Below' = framebuffer'
  BY <1>1 DEF CursorOff, Below
<1>5. framebuffer \in [D!Cells -> Bare] /\ framebuffer \in [D!Cells -> Pixels]
      /\ front \in [D!Cells -> Pixels]
  BY <1>4 DEF DesktopInv, CursorApart, ScreenTyped
<1> HIDE DEF w, s
<1>6. /\ framebuffer' \in [D!Cells -> Pixels]
      /\ \A c \in D!Cells : framebuffer'[c] \in Bare
      /\ \A c \in D!Cells : c \notin D!OnDisplay(s) => framebuffer'[c] = framebuffer[c]
  <2>1. /\ framebuffer' \in [D!Cells -> Pixels]
        /\ \A c \in D!Cells : framebuffer'[c] = IF c \in D!OnDisplay(s) THEN behind[w][D!Pixel(s, c)]
                                                ELSE framebuffer[c]
        /\ \A c \in D!Cells : c \in D!OnDisplay(s) => behind[w][D!Pixel(s, c)] \in Bare
    BY <1>1, <1>3, <1>5, RestoredFacts DEF s
  <2>2. QED
    BY <1>5, <2>1
<1>7. framebuffer' \in [D!Cells -> Bare]
  BY <1>6
<1>8. /\ front' \in [D!Cells -> Pixels]
      /\ D!Moving => \A c \in D!Cells : c \in D!OnDisplay(s) => front'[c] = framebuffer'[c]
      /\ \A c \in D!Cells : c \notin D!OnDisplay(s) => front'[c] = front[c]
  <2>1. CASE D!Moving
    <3>1. /\ front' \in [D!Cells -> Pixels]
          /\ \A c \in D!Cells : front'[c] = IF c \in D!OnDisplay(s) THEN framebuffer'[c] ELSE front[c]
      BY <1>1, <1>3, <1>5, <1>6, <2>1, CommittedFacts DEF s
    <3>2. QED
      BY <3>1
  <2>2. CASE ~D!Moving
    BY <1>1, <1>5, <2>2
  <2>3. QED
    BY <2>1, <2>2
<1>9. ScreenTyped'
  BY <1>1, <1>6, <1>8 DEF DesktopInv, ScreenTyped
<1>10. ListTyped'
  <2>1. D!Registered' = D!Registered
    BY <1>1 DEF D!Registered
  <2>2. obj' \in head .. Len(Order) + 1
    BY <1>1, <1>2
  <2>3. QED
    BY <1>1, <2>1, <2>2 DEF DesktopInv, ListTyped
<1>11. PointerTyped'
  BY <1>1, <1>4 DEF DesktopInv, PointerTyped, D!Moving, D!NoMove, D!NotHovered, D!Registered
<1>12. CursorApart'
  BY <1>4, <1>7 DEF CursorApart
<1>13. Layered'
  <2>1. Laid' = 0 /\ head' \in Nat \ {0}
    BY <1>1, <1>2 DEF Laid
  <2>2. QED
    BY <2>1 DEF Layered
<1>14. Uncommitted'
  <2> SUFFICES ASSUME NEW c \in D!Cells, front'[c] # framebuffer'[c],
                      c \notin D!OnDisplay(D!MouseSurface)
               PROVE  ~D!Moving /\ \E i \in head .. Len(Order) :
                                     c \in D!OnDisplay(D!WindowSurface(Order[i]))
    BY <1>1, <1>4 DEF Uncommitted, D!MouseSurface, D!WindowSurface, D!Moving, D!NoMove
  <2>1. CASE c \in D!OnDisplay(s)
    <3>1. ~D!Moving
      BY <1>8, <2>1
    <3>2. c \in D!OnDisplay(D!WindowSurface(Order[D!Obj]))
      BY <1>3, <2>1 DEF w
    <3>3. QED
      BY <1>2, <3>1, <3>2
  <2>2. CASE c \notin D!OnDisplay(s)
    <3>1. front[c] # framebuffer[c]
      BY <1>6, <1>8, <2>2
    <3>2. QED
      BY <1>1, <3>1 DEF DesktopInv, Uncommitted
  <2>3. QED
    BY <2>1, <2>2
<1>15. QED
  BY <1>9, <1>10, <1>11, <1>12, <1>13, <1>14 DEF DesktopInv

(* The first loop ends; a window that is moved is somewhere else from here.*)
LEMMA TakenAwayKeeps ==
  ASSUME DesktopInv, D!TakenAway
  PROVE  DesktopInv'
<1>1. /\ loop = "clear" /\ D!Obj > Len(Order) /\ obj' = 0 /\ loop' = "place"
      /\ surface' = IF D!Moving THEN [surface EXCEPT ![hovered[1]] = D!Target] ELSE surface
      /\ UNCHANGED <<front, framebuffer, behind, mouseSave, mouseAt, mx, my, middle, hovered,
                     dirty, painted, old, movedMouse, head, linked>>
  BY DEF D!TakenAway, D!kmainVars
<1>2. CursorOff /\ CursorOff' /\ Below' = Below
  BY <1>1 DEF CursorOff, Below
<1>3. head \in 1 .. Len(Order) + 1 /\ Len(Order) \in Nat /\ D!Obj' = head
  BY <1>1, Geometry DEF DesktopInv, ListTyped, D!Obj
<1>4. surface' \in [D!Windows -> Points]
  <2>1. CASE D!Moving
    <3>1. PICK v \in D!Registered, x \in Int, y \in Int : hovered = <<v, x, y>>
      BY <2>1 DEF DesktopInv, PointerTyped
    <3>2. mx \in Int /\ my \in Int /\ surface \in [D!Windows -> Points]
      BY DEF DesktopInv, PointerTyped
    <3>3. D!Target = <<mx - x, my - y>> /\ mx - x \in Int /\ my - y \in Int
      BY <3>1, <3>2 DEF D!Target
    <3>4. D!Target \in Points
      BY <3>3 DEF Points
    <3>5. QED
      BY <1>1, <2>1, <3>2, <3>4
  <2>2. CASE ~D!Moving
    BY <1>1, <2>2 DEF DesktopInv, PointerTyped
  <2>3. QED
    BY <2>1, <2>2
<1>5. ScreenTyped'
  BY <1>1 DEF DesktopInv, ScreenTyped
<1>6. ListTyped'
  BY <1>1 DEF DesktopInv, ListTyped, D!Registered
<1>7. PointerTyped'
  BY <1>1, <1>2, <1>4 DEF DesktopInv, PointerTyped, D!Moving, D!NoMove, D!NotHovered, D!Registered
<1>8. CursorApart'
  BY <1>2 DEF DesktopInv, CursorApart
<1>9. Layered'
  <2>1. Laid' = head - 1 /\ head' = head
    BY <1>1, <1>3 DEF Laid
  <2>2. QED
    BY <1>3, <2>1 DEF Layered
<1>10. Uncommitted'
  <2> SUFFICES ASSUME NEW c \in D!Cells, front[c] # framebuffer[c],
                      c \notin D!OnDisplay(D!MouseSurface)
               PROVE  ~D!Moving /\ \E i \in head .. Len(Order) :
                                     c \in D!OnDisplay(D!WindowSurface(Order[i])')
    BY <1>1, <1>2, <1>3 DEF Uncommitted, D!MouseSurface, D!Moving, D!NoMove
  <2>1. ~D!Moving /\ \E i \in head .. Len(Order) : c \in D!OnDisplay(D!WindowSurface(Order[i]))
    BY <1>1 DEF DesktopInv, Uncommitted
  <2>2. surface' = surface
    BY <1>1, <2>1
  <2>3. QED
    BY <2>1, <2>2 DEF D!WindowSurface
<1>11. QED
  BY <1>5, <1>6, <1>7, <1>8, <1>9, <1>10 DEF DesktopInv

(* A turn of the second loop: the window hides what is below it.           *)
LEMMA PutDownKeeps ==
  ASSUME DesktopInv, D!PutDown
  PROVE  DesktopInv'
<1> DEFINE w == Order[D!Obj]
<1> DEFINE s == D!At(surface[w], Sizes[w])
<1>1. /\ loop = "place" /\ loop' = loop /\ D!Obj <= Len(Order) /\ obj' = D!Obj + 1
      /\ behind' = [behind EXCEPT ![w] = D!SaveBackground(framebuffer, D!WindowSurface(w), behind[w])]
      /\ framebuffer' = D!GDI2BlitSurface(framebuffer, D!WindowSurface(w), D!Image(w), w)
      /\ front' = D!GDI2PartialCommit(front, framebuffer', D!WindowSurface(w))
      /\ UNCHANGED <<mouseSave, dirty, painted, old, surface, mouseAt, mx, my, middle,
                     hovered, movedMouse, head, linked>>
  BY DEF D!PutDown, D!pointerVars, D!kmainVars
<1>2. /\ D!Obj \in head .. Len(Order) /\ head \in 1 .. Len(Order) + 1 /\ Len(Order) \in Nat
      /\ D!Obj' = D!Obj + 1
  BY <1>1, Geometry DEF DesktopInv, ListTyped, D!Obj
<1>3. /\ w \in D!Windows /\ D!WindowSurface(w) = s
      /\ surface[w] \in Points /\ Sizes[w] \in Extents /\ behind[w] \in [D!Local(Sizes[w]) -> Bare]
  BY <1>2, Surfaces
<1>4. CursorOff /\ CursorOff' /\ Below = framebuffer /\ Below' = framebuffer'
  BY <1>1 DEF CursorOff, Below
<1>5. framebuffer \in [D!Cells -> Bare] /\ front \in [D!Cells -> Pixels]
  BY <1>4 DEF DesktopInv, CursorApart, ScreenTyped
<1> DEFINE what == D!SaveBackground(framebuffer, s, behind[w])
<1>6. what \in [D!Local(Sizes[w]) -> Bare]
  BY <1>3, <1>5, SavedFacts
<1> HIDE DEF w, s, what
<1>7. /\ framebuffer' \in [D!Cells -> Pixels]
      /\ \A c \in D!Cells : framebuffer'[c]
           = IF c \in D!OnDisplay(s) /\ D!Pixel(s, c) \in D!Image(w) THEN w ELSE framebuffer[c]
  BY <1>1, <1>3, <1>5, BlittedFacts, PixelKinds
<1>8. framebuffer' \in [D!Cells -> Bare]
  BY <1>3, <1>5, <1>7, PixelKinds
<1>9. /\ front' \in [D!Cells -> Pixels]
      /\ \A c \in D!Cells : front'[c] = IF c \in D!OnDisplay(s) THEN framebuffer'[c] ELSE front[c]
  BY <1>1, <1>3, <1>5, <1>7, CommittedFacts DEF s
<1>10. ScreenTyped'
  <2>1. behind = [v \in D!Windows |-> behind[v]] /\ behind' = [behind EXCEPT ![w] = what]
    BY <1>1, <1>3 DEF DesktopInv, ScreenTyped, what
  <2>2. /\ behind' = [v \in D!Windows |-> behind'[v]] /\ behind'[w] = what
        /\ \A v \in D!Windows : v # w => behind'[v] = behind[v]
    BY <1>3, <2>1
  <2>3. \A v \in D!Windows : behind'[v] \in [D!Local(Sizes[v]) -> Bare]
    BY <1>6, <2>2 DEF DesktopInv, ScreenTyped
  <2>4. mouseSave' \in [D!Local(CursorSize) -> Bare]
    BY <1>1 DEF DesktopInv, ScreenTyped
  <2>5. QED
    BY <1>7, <1>9, <2>2, <2>3, <2>4 DEF ScreenTyped
<1>11. ListTyped'
  <2>1. D!Registered' = D!Registered
    BY <1>1 DEF D!Registered
  <2>2. obj' \in head .. Len(Order) + 1
    BY <1>1, <1>2
  <2>3. QED
    BY <1>1, <2>1, <2>2 DEF DesktopInv, ListTyped
<1>12. PointerTyped'
  BY <1>1, <1>4 DEF DesktopInv, PointerTyped, D!Moving, D!NoMove, D!NotHovered, D!Registered
<1>13. CursorApart'
  BY <1>4, <1>8 DEF CursorApart
<1>14. Layered'
  <2>1. Laid = D!Obj - 1 /\ Laid' = D!Obj
    BY <1>1, <1>2 DEF Laid
  <2>2. \A i, c : Covers(i, c)' <=> Covers(i, c)
    BY <1>1 DEF Covers, D!WindowSurface
  <2> SUFFICES ASSUME dirty = {}, NEW c \in D!Cells, NEW i \in head .. D!Obj, Covers(i, c),
                      \A j \in i + 1 .. D!Obj : ~Covers(j, c)
               PROVE  framebuffer'[c] = Order[i]
    BY <1>1, <1>4, <2>1, <2>2 DEF Layered
  <2>3. D!Image(w) = D!Drawn(Sizes[w])
    <3>1. w \in D!Registered
      BY <1>2 DEF w, D!Registered
    <3>2. w \in painted
      BY <3>1 DEF DesktopInv, ListTyped
    <3>3. QED
      BY <3>2 DEF D!Image
  <2>4. Covers(D!Obj, c) <=> D!Pixel(s, c) \in D!Image(w)
    BY <1>3, <2>3 DEF Covers, w
  <2>5. CASE i = D!Obj
    <3>1. D!Pixel(s, c) \in D!Local(Sizes[w])
      BY <2>3, <2>4, <2>5 DEF D!Drawn
    <3>2. c \in D!OnDisplay(s)
      BY <1>3, <3>1, Clipping DEF s
    <3>3. QED
      BY <1>7, <2>4, <2>5, <3>2 DEF w
  <2>6. CASE i # D!Obj
    <3>1. i \in head .. D!Obj - 1 /\ D!Obj \in i + 1 .. D!Obj
          /\ \A j \in i + 1 .. D!Obj - 1 : j \in i + 1 .. D!Obj
      BY <1>2, <2>6
    <3>2. framebuffer[c] = Order[i]
      BY <1>4, <2>1, <3>1 DEF DesktopInv, Layered
    <3>3. D!Pixel(s, c) \notin D!Image(w)
      BY <2>4, <3>1
    <3>4. QED
      BY <1>7, <3>2, <3>3
  <2>7. QED
    BY <2>5, <2>6
<1>15. Uncommitted'
  <2> SUFFICES ASSUME NEW c \in D!Cells, front'[c] # framebuffer'[c],
                      c \notin D!OnDisplay(D!MouseSurface)
               PROVE  ~D!Moving /\ \E i \in D!Obj + 1 .. Len(Order) :
                                     c \in D!OnDisplay(D!WindowSurface(Order[i]))
    BY <1>1, <1>2, <1>4 DEF Uncommitted, D!MouseSurface, D!WindowSurface, D!Moving, D!NoMove
  <2>1. c \notin D!OnDisplay(s) /\ front[c] # framebuffer[c]
    BY <1>7, <1>9
  <2>2. PICK i \in D!Obj .. Len(Order) : ~D!Moving /\ c \in D!OnDisplay(D!WindowSurface(Order[i]))
    BY <1>1, <2>1 DEF DesktopInv, Uncommitted
  <2>3. i # D!Obj
    BY <1>3, <2>1, <2>2 DEF w
  <2>4. i \in D!Obj + 1 .. Len(Order)
    BY <1>2, <2>2, <2>3
  <2>5. QED
    BY <2>2, <2>4
<1>16. QED
  BY <1>10, <1>11, <1>12, <1>13, <1>14, <1>15 DEF DesktopInv

(* What is on the screen when the cursor has just been put down.           *)
LEMMA ShownKeeps ==
  ASSUME DesktopInv, ~CursorOff', loop' \in {"draw", "mouse", "button"},
         NEW fb \in [D!Cells -> Bare], NEW scr \in [D!Cells -> Pixels],
         \A c \in D!Cells : scr[c] # fb[c] => c \in D!OnDisplay(D!At(mouseAt', CursorSize)),
         D!ShowCursor(scr, fb, D!At(mouseAt', CursorSize)),
         mouseAt' \in Points, behind' = behind, surface' = surface,
         head' = head, linked' = linked, dirty' = dirty, painted' = painted, obj' = 0 \/ obj' = obj,
         Laid = Len(Order), fb = Below, PointerTyped'
  PROVE  DesktopInv'
<1> DEFINE s == D!At(mouseAt', CursorSize)
<1>1. /\ mouseSave' \in [D!Local(CursorSize) -> Bare]
      /\ framebuffer' \in [D!Cells -> Pixels] /\ front' = framebuffer'
      /\ framebuffer' = D!GDI2BlitSurface(fb, s, D!CursorPixels, D!Cursor)
      /\ D!RestoreBackground(framebuffer', s, mouseSave') = fb
  <2>1. mouseSave \in [D!Local(CursorSize) -> Bare]
    BY DEF DesktopInv, ScreenTyped
  <2>2. QED
    BY <2>1, CursorShown
<1>2. D!MouseSurface' = s
  BY DEF D!MouseSurface, D!At
<1>3. Below' = fb
  <2>1. Below' = D!RestoreBackground(framebuffer', s, mouseSave')
    BY <1>2 DEF Below, D!RestoreBackground, D!OnDisplay, D!Extent, D!Pixel
  <2>2. QED
    BY <1>1, <2>1
<1>4. ScreenTyped'
  BY <1>1 DEF DesktopInv, ScreenTyped
<1>5. ListTyped'
  BY DEF DesktopInv, ListTyped, D!Registered
<1>6. CursorApart'
  <2>1. framebuffer' = D!GDI2BlitSurface(Below, D!MouseSurface, D!CursorPixels, D!Cursor)'
    BY <1>1, <1>2, <1>3 DEF D!GDI2BlitSurface, D!OnDisplay, D!Extent, D!Pixel
  <2>2. QED
    BY <1>3, <2>1 DEF CursorApart
<1>7. Layered'
  <2>1. Laid' = Len(Order)
    BY DEF Laid
  <2>2. \A i, c : Covers(i, c)' <=> Covers(i, c)
    BY DEF Covers, D!WindowSurface
  <2>3. QED
    BY <1>3, <2>1, <2>2 DEF DesktopInv, Layered
<1>8. Uncommitted'
  BY <1>1 DEF Uncommitted
<1>9. QED
  BY <1>4, <1>5, <1>6, <1>7, <1>8 DEF DesktopInv

LEMMA AllDownKeeps ==
  ASSUME DesktopInv, D!AllDown
  PROVE  DesktopInv'
<1> DEFINE scr == IF D!Moving
                  THEN D!GDI2PartialCommit(front, framebuffer, D!UnionSurface(hovered[1]))
                  ELSE front
<1>1. /\ loop = "place" /\ D!Obj > Len(Order) /\ obj' = 0
      /\ D!ShowCursor(scr, framebuffer, D!MouseSurface)
      /\ loop' = (IF D!Moving THEN "draw" ELSE "mouse") /\ old' = D!NoMove
      /\ hovered' = IF D!Moving THEN D!NotHovered ELSE hovered
      /\ UNCHANGED <<behind, surface, mouseAt, mx, my, middle, dirty, painted, movedMouse,
                     head, linked>>
  BY DEF D!AllDown, D!kmainVars
<1>2. CursorOff /\ ~CursorOff' /\ Below = framebuffer /\ loop' \in {"draw", "mouse", "button"}
  BY <1>1 DEF CursorOff, Below
<1>3. framebuffer \in [D!Cells -> Bare] /\ framebuffer \in [D!Cells -> Pixels]
      /\ front \in [D!Cells -> Pixels]
  BY <1>2 DEF DesktopInv, CursorApart, ScreenTyped
<1>4. D!MouseSurface = D!At(mouseAt', CursorSize) /\ mouseAt' \in Points
  BY <1>1, Surfaces
<1>5. Laid = Len(Order)
  <2>1. head \in 1 .. Len(Order) + 1 /\ D!Obj \in head .. Len(Order) + 1 /\ Len(Order) \in Nat
    BY Geometry DEF DesktopInv, ListTyped, D!Obj
  <2>2. D!Obj - 1 = Len(Order)
    BY <1>1, <2>1
  <2>3. QED
    BY <1>1, <2>2 DEF Laid
<1>6. /\ scr \in [D!Cells -> Pixels]
      /\ \A c \in D!Cells : front[c] = framebuffer[c] => scr[c] = framebuffer[c]
  BY <1>3, CommittedKeeps
<1>7. \A c \in D!Cells : front[c] # framebuffer[c] => c \in D!OnDisplay(D!MouseSurface)
  <2> SUFFICES ASSUME NEW c \in D!Cells, front[c] # framebuffer[c],
                      c \notin D!OnDisplay(D!MouseSurface)
               PROVE  FALSE
    OBVIOUS
  <2>1. PICK i \in D!Obj .. Len(Order) : c \in D!OnDisplay(D!WindowSurface(Order[i]))
    BY <1>1 DEF DesktopInv, Uncommitted
  <2>2. D!Obj \in Int /\ Len(Order) \in Int
    BY Geometry DEF DesktopInv, ListTyped, D!Obj
  <2>3. QED
    BY <1>1, <2>1, <2>2
<1>8. PointerTyped'
  <2>1. D!Registered' = D!Registered
    BY <1>1 DEF D!Registered
  <2>2. ~D!Moving'
    BY <1>1 DEF D!Moving, D!NoMove
  <2>3. QED
    BY <1>1, <2>1, <2>2 DEF DesktopInv, PointerTyped, D!NotHovered
<1> HIDE DEF scr
<1>9. \A c \in D!Cells : scr[c] # framebuffer[c] => c \in D!OnDisplay(D!At(mouseAt', CursorSize))
  BY <1>4, <1>6, <1>7
<1>10. D!ShowCursor(scr, framebuffer, D!At(mouseAt', CursorSize))
  BY <1>1, <1>4
<1>11. QED
  BY <1>1, <1>2, <1>3, <1>4, <1>5, <1>6, <1>8, <1>9, <1>10, ShownKeeps

(* The cursor follows the mouse.                                           *)
LEMMA MoveMouseKeeps ==
  ASSUME DesktopInv, D!MoveMouse
  PROVE  DesktopInv'
<1>1. PICK x \in 0 .. DisplayW - 1, y \in 0 .. DisplayH - 1 :
        /\ mx' = x /\ my' = y /\ D!FollowMouse(x, y)
  BY DEF D!MoveMouse
<1>2. /\ loop = "mouse" /\ loop' = "button" /\ mouseAt' = <<x, y>>
      /\ UNCHANGED <<behind, surface, hovered, dirty, painted, obj, old, head, linked>>
  BY <1>1 DEF D!MoveMouse, D!FollowMouse, D!kmainVars
<1>3. ~CursorOff /\ ~CursorOff'
  BY <1>2 DEF CursorOff
<1>4. <<x, y>> \in Points
  BY Geometry DEF Points
<1>5. PointerTyped'
  <2>1. D!Registered' = D!Registered
    BY <1>2 DEF D!Registered
  <2>2. ~D!Moving' /\ ~D!Moving
    BY <1>2, <1>3 DEF DesktopInv, PointerTyped, D!Moving, D!NoMove
  <2>3. QED
    BY <1>1, <1>2, <1>4, <2>1, <2>2 DEF DesktopInv, PointerTyped, D!NotHovered
<1>6. CASE mouseAt = <<x, y>>
  <2>1. UNCHANGED <<front, framebuffer, mouseSave>>
    BY <1>1, <1>6 DEF D!FollowMouse
  <2>2. QED
    BY <1>2, <1>3, <1>5, <1>6, <2>1, ResumingKeeps
<1>7. CASE mouseAt # <<x, y>>
  <2> DEFINE fb == D!RestoreBackground(framebuffer, D!MouseSurface, mouseSave)
  <2> DEFINE scr == D!GDI2PartialCommit(front, fb, D!MouseSurface)
  <2>1. D!ShowCursor(scr, fb, D!At(mouseAt', CursorSize))
    BY <1>1, <1>2, <1>7 DEF D!FollowMouse
  <2>2. fb = Below /\ fb \in [D!Cells -> Bare]
    BY <1>3 DEF Below, DesktopInv, CursorApart
  <2>3. /\ framebuffer \in [D!Cells -> Pixels] /\ mouseSave \in [D!Local(CursorSize) -> Bare]
        /\ CursorSize \in Extents /\ front \in [D!Cells -> Pixels]
    BY Geometry DEF DesktopInv, ScreenTyped
  <2>4. \A c \in D!Cells : c \notin D!OnDisplay(D!MouseSurface) => fb[c] = framebuffer[c]
    BY <2>3, Surfaces, RestoredFacts
  <2>5. \A c \in D!Cells : front[c] = framebuffer[c]
    BY <1>3 DEF DesktopInv, Uncommitted
  <2> HIDE DEF fb
  <2>6. fb \in [D!Cells -> Pixels]
    BY <2>2, PixelKinds
  <2>7. /\ scr \in [D!Cells -> Pixels]
        /\ \A c \in D!Cells : scr[c] = IF c \in D!OnDisplay(D!MouseSurface) THEN fb[c] ELSE front[c]
    BY <2>3, <2>6, Surfaces, CommittedFacts
  <2> HIDE DEF scr
  <2>8. \A c \in D!Cells : scr[c] = fb[c]
    BY <2>4, <2>5, <2>7
  <2>9. Laid = Len(Order)
    BY <1>2 DEF Laid
  <2>10. QED
    BY <1>2, <1>3, <1>4, <1>5, <2>1, <2>2, <2>7, <2>8, <2>9, ShownKeeps
<1>8. QED
  BY <1>6, <1>7

LEMMA DesktopInvariant == PartsSpec => []DesktopInv
<1>1. PartsInit => DesktopInv
  <2> SUFFICES ASSUME PartsInit PROVE DesktopInv
    OBVIOUS
  <2> DEFINE blank == [c \in D!Cells |-> D!Blank]
  <2> DEFINE junk == [p \in D!Local(CursorSize) |-> D!Junk]
  <2>1. /\ framebuffer = blank /\ front = blank
        /\ surface = [w \in D!Windows |-> <<0, 0>>]
        /\ behind = [w \in D!Windows |-> [p \in D!Local(Sizes[w]) |-> D!Junk]]
        /\ mouseAt = <<0, 0>> /\ mx = 0 /\ my = 0
        /\ mouseSave = D!SaveBackground(blank, D!MouseSurface, junk)
        /\ head = Len(Order) + 1 /\ linked = FALSE /\ dirty = {} /\ painted = {}
        /\ loop = "draw" /\ obj = 0 /\ old = D!NoMove /\ hovered = D!NotHovered
    BY DEF PartsInit, D!DesktopInit
  <2>2. D!Blank \in Bare /\ D!Junk \in Bare
    BY DEF Bare, Pixels, D!Blank, D!Junk, D!Cursor
  <2>3. blank \in [D!Cells -> Bare] /\ junk \in [D!Local(CursorSize) -> Bare]
    BY <2>2
  <2>4. D!MouseSurface = D!At(mouseAt, CursorSize) /\ mouseAt \in Points /\ CursorSize \in Extents
    BY <2>1, Geometry DEF D!MouseSurface, Points
  <2> HIDE DEF blank, junk
  <2>5. /\ mouseSave \in [D!Local(CursorSize) -> Bare]
        /\ \A c \in D!Cells : c \in D!OnDisplay(D!MouseSurface) =>
             mouseSave[D!Pixel(D!MouseSurface, c)] = framebuffer[c]
    BY <2>1, <2>3, <2>4, SavedFacts
  <2>6. framebuffer \in [D!Cells -> Pixels] /\ framebuffer \in [D!Cells -> Bare]
    BY <2>1, <2>3, PixelKinds
  <2>7. ScreenTyped
    <3>1. \A w \in D!Windows : behind[w] \in [D!Local(Sizes[w]) -> Bare]
      BY <2>1, <2>2
    <3>2. QED
      BY <2>1, <2>5, <2>6, <3>1 DEF ScreenTyped
  <2>8. ListTyped
    <3>1. D!Registered = {} /\ head \in 1 .. Len(Order) + 1
      BY <2>1, Geometry DEF D!Registered
    <3>2. linked \in BOOLEAN /\ (linked => head <= Len(Order))
      BY <2>1
    <3>3. QED
      BY <2>1, <3>1, <3>2 DEF ListTyped
  <2>9. PointerTyped
    BY <2>1, <2>4, Geometry DEF PointerTyped, Points, D!Moving
  <2>10. ~CursorOff
    BY <2>1 DEF CursorOff
  <2>11. Below = framebuffer
    <3>1. /\ Below \in [D!Cells -> Pixels]
          /\ \A c \in D!Cells : Below[c] = IF c \in D!OnDisplay(D!MouseSurface)
                                           THEN mouseSave[D!Pixel(D!MouseSurface, c)]
                                           ELSE framebuffer[c]
      BY <2>4, <2>5, <2>6, <2>10, RestoredFacts DEF Below
    <3>2. \A c \in D!Cells : Below[c] = framebuffer[c]
      BY <2>5, <3>1
    <3>3. QED
      BY <2>6, <3>1, <3>2
  <2>12. CursorApart
    BY <2>1, <2>6, <2>11 DEF CursorApart
  <2>13. Layered
    <3>1. Laid = Len(Order) /\ Len(Order) \in Nat
      BY <2>1, Geometry DEF Laid
    <3>2. QED
      BY <2>1, <3>1 DEF Layered
  <2>14. Uncommitted
    BY <2>1 DEF Uncommitted
  <2>15. QED
    BY <2>7, <2>8, <2>9, <2>12, <2>13, <2>14 DEF DesktopInv
<1>2. DesktopInv /\ [PartsNext]_vars => DesktopInv'
  <2> SUFFICES ASSUME DesktopInv, [PartsNext]_vars PROVE DesktopInv'
    OBVIOUS
  <2>1. CASE UNCHANGED desktopVars
    <3>1. UNCHANGED <<front, framebuffer, behind, mouseSave, surface, mouseAt, mx, my, middle,
                      hovered, head, linked, dirty, painted, loop, obj, old, movedMouse>>
      BY <2>1 DEF desktopVars
    <3>2. /\ Below' = Below /\ CursorOff' = CursorOff /\ D!MouseSurface' = D!MouseSurface
          /\ Laid' = Laid /\ D!Obj' = D!Obj /\ D!Registered' = D!Registered
      BY <3>1 DEF Below, CursorOff, D!RestoreBackground, D!MouseSurface, D!At, D!OnDisplay,
                  D!Extent, D!Pixel, Laid, D!Obj, D!Registered
    <3>3. ScreenTyped' /\ ListTyped'
      BY <3>1, <3>2 DEF DesktopInv, ScreenTyped, ListTyped
    <3>4. PointerTyped'
      BY <3>1, <3>2 DEF DesktopInv, PointerTyped, D!Moving, D!NoMove, D!NotHovered
    <3>5. CursorApart'
      BY <3>1, <3>2 DEF DesktopInv, CursorApart
    <3>6. Layered'
      <4>1. \A i, c : Covers(i, c)' <=> Covers(i, c)
        BY <3>1 DEF Covers, D!WindowSurface
      <4>2. QED
        BY <3>1, <3>2, <4>1 DEF DesktopInv, Layered
    <3>7. Uncommitted'
      BY <3>1, <3>2 DEF DesktopInv, Uncommitted, D!Moving, D!NoMove, D!WindowSurface
    <3>8. QED
      BY <3>3, <3>4, <3>5, <3>6, <3>7 DEF DesktopInv
  <2>2. [D!DesktopNext]_desktopVars
    BY DEF PartsNext, Turn, Others, vars
  <2>3. QED
    BY <2>1, <2>2, RegisteringKeeps, DrawKeeps, TakeAwayKeeps, TakenAwayKeeps, PutDownKeeps,
       AllDownKeeps, MoveMouseKeeps, PickUpKeeps, DropKeeps DEF D!DesktopNext
<1>3. QED
  BY <1>1, <1>2, PTL DEF PartsSpec

(* Whenever the picture is complete the screen shows it: no cursor left    *)
(* behind, the windows in their order and the cursor above them, for every *)
(* number and size of windows and every move of the mouse (wm.c:219-266).  *)
THEOREM ScreenIsDesktop == PartsSpec => []ScreenShowsDesktop
<1>1. DesktopInv => D!FrontUpToDate
  <2> SUFFICES ASSUME DesktopInv, D!Complete PROVE front = framebuffer
    BY DEF D!FrontUpToDate
  <2>1. \A c \in D!Cells : front[c] = framebuffer[c]
    BY DEF DesktopInv, Uncommitted, CursorOff, D!Complete
  <2>2. QED
    BY <2>1 DEF DesktopInv, ScreenTyped
<1>2. DesktopInv => D!Composed
  <2> SUFFICES ASSUME DesktopInv, D!Complete, NEW c \in D!Cells
               PROVE  LET covers == {i \in head .. Len(Order) : Covers(i, c)}
                      IN
                      /\ framebuffer[c] = D!Cursor => D!Pixel(D!MouseSurface, c) \in D!CursorPixels
                      /\ dirty = {} /\ D!Registered # {} =>
                           /\ D!Pixel(D!MouseSurface, c) \in D!CursorPixels
                                => framebuffer[c] = D!Cursor
                           /\ framebuffer[c] # D!Cursor /\ covers # {} =>
                                framebuffer[c] = Order[CHOOSE i \in covers :
                                                         \A j \in covers : j <= i]
    BY DEF D!Composed, Covers
  <2> DEFINE covers == {i \in head .. Len(Order) : Covers(i, c)}
  <2> DEFINE shown == D!GDI2BlitSurface(Below, D!MouseSurface, D!CursorPixels, D!Cursor)
  <2> DEFINE top == CHOOSE i \in covers : \A j \in covers : j <= i
  <2>1. ~CursorOff /\ Below \in [D!Cells -> Bare]
    BY DEF DesktopInv, CursorApart, CursorOff, D!Complete
  <2>2. framebuffer \in {Below, shown} /\ (painted # {} => framebuffer = shown)
    BY <2>1 DEF DesktopInv, CursorApart
  <2>3. shown[c] = IF c \in D!OnDisplay(D!MouseSurface) /\ D!Pixel(D!MouseSurface, c) \in D!CursorPixels
                   THEN D!Cursor ELSE Below[c]
    BY <2>1, BlittedFacts, PixelKinds
  <2>4. Below[c] # D!Cursor
    BY <2>1, PixelKinds
  <2>5. D!Pixel(D!MouseSurface, c) \in D!CursorPixels => c \in D!OnDisplay(D!MouseSurface)
    <3>1. D!CursorPixels \subseteq D!Local(CursorSize)
      BY DEF D!CursorPixels
    <3>2. QED
      BY <3>1, Surfaces, Geometry, Clipping
  <2>6. dirty = {} /\ D!Registered # {} => painted # {}
    BY DEF DesktopInv, ListTyped
  <2>7. ASSUME dirty = {}, covers # {} PROVE Below[c] = Order[top]
    <3>1. Laid = Len(Order) /\ head \in 1 .. Len(Order) + 1 /\ Len(Order) \in Nat
      BY Geometry DEF Laid, D!Complete, DesktopInv, ListTyped
    <3>2. top \in covers /\ \A j \in covers : j <= top
      <4> DEFINE below == {Len(Order) - i : i \in covers}
      <4>1. below \in SUBSET Nat /\ below # {}
        BY <2>7, <3>1
      <4>2. PICK k \in below : \A n \in below : k <= n
        BY <4>1, LeastNumber
      <4>3. PICK i \in covers : k = Len(Order) - i
        OBVIOUS
      <4>4. \A j \in covers : j <= i
        <5> TAKE j \in covers
        <5>1. k <= Len(Order) - j
          BY <4>2
        <5>2. QED
          BY <3>1, <4>3, <5>1
      <4>5. QED
        BY <4>3, <4>4
    <3>3. \A j \in top + 1 .. Laid : ~Covers(j, c)
      BY <3>1, <3>2
    <3>4. top \in head .. Laid /\ Covers(top, c)
      BY <3>1, <3>2
    <3> HIDE DEF top
    <3>5. QED
      BY <2>7, <3>3, <3>4 DEF DesktopInv, Layered
  <2> HIDE DEF shown, top, covers
  <2>8. /\ framebuffer[c] = D!Cursor => D!Pixel(D!MouseSurface, c) \in D!CursorPixels
        /\ dirty = {} /\ D!Registered # {} =>
             /\ D!Pixel(D!MouseSurface, c) \in D!CursorPixels => framebuffer[c] = D!Cursor
             /\ framebuffer[c] # D!Cursor /\ covers # {} => framebuffer[c] = Order[top]
    BY <2>2, <2>3, <2>4, <2>5, <2>6, <2>7
  <2>9. QED
    BY <2>8 DEF covers, top
<1>3. DesktopInv => ScreenShowsDesktop
  BY <1>1, <1>2 DEF ScreenShowsDesktop
<1>4. QED
  BY <1>3, DesktopInvariant, PTL
=============================================================================
