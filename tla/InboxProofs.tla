---------------------------- MODULE InboxProofs ----------------------------
(***************************************************************************)
(* Proofs about Inbox for every number of slots, ring size, message size   *)
(* limit and set of sizes: the rings are bounded FIFO queues.              *)
(***************************************************************************)
EXTENDS Inbox, SequenceTheorems, TLAPS

N == MAX_PENDING_MESSAGES

(* The entry after entry t, and the one d further on.                      *)
Turn(t)     == IF t + 1 < N THEN t + 1 ELSE 0
Ahead(t, d) == (t + d) % N

Consistent(box) ==
  /\ box.count <= N
  /\ box.head = Ahead(box.tail, box.count)

(* Going round the ring.                                                   *)
LEMMA AheadFacts ==
  ASSUME NEW t \in 0 .. N - 1
  PROVE  /\ Ahead(t, 0) = t
         /\ \A d \in 0 .. N : Ahead(t, d) \in 0 .. N - 1
         /\ \A d, e \in 0 .. N - 1 : Ahead(t, d) = Ahead(t, e) => d = e
         /\ \A d \in 0 .. N - 1 : Ahead(t, d + 1) = Turn(Ahead(t, d))
         /\ \A d \in 0 .. N - 1 : Ahead(t, d + 1) = Ahead(Turn(t), d)
         /\ Turn(t) \in 0 .. N - 1
<1>1. N \in Nat \ {0}
  BY InboxAssumption DEF N
<1>2. ASSUME NEW u \in 0 .. N - 1, NEW d \in 0 .. N
      PROVE  Ahead(u, d) = IF u + d < N THEN u + d ELSE u + d - N
  BY <1>1, <1>2 DEF Ahead
<1>3. Turn(t) \in 0 .. N - 1
  BY <1>1 DEF Turn
<1>4. \A d \in 0 .. N : Ahead(t, d) \in 0 .. N - 1
  BY <1>1, <1>2
<1>5. \A d, e \in 0 .. N - 1 : Ahead(t, d) = Ahead(t, e) => d = e
  BY <1>1, <1>2
<1>6. \A d \in 0 .. N - 1 : Ahead(t, d + 1) = Turn(Ahead(t, d))
  BY <1>1, <1>2 DEF Turn
<1>7. \A d \in 0 .. N - 1 : Ahead(t, d + 1) = Ahead(Turn(t), d)
  BY <1>1, <1>2, <1>3 DEF Turn
<1>8. Ahead(t, 0) = t
  BY <1>1, <1>2
<1>9. QED
  BY <1>3, <1>4, <1>5, <1>6, <1>7, <1>8

(* One-byte counting is exact up to a full ring.                           *)
LEMMA ByteFacts ==
  /\ \A n \in 0 .. N : Byte(n) = n
  /\ \A k \in 0 .. N - 1 : After(k) = Turn(k)
<1>1. N \in Nat \ {0} /\ ByteSize \in Nat /\ N < ByteSize
  BY InboxAssumption DEF N
<1>2. \A n \in 0 .. N : Byte(n) = n
  BY <1>1 DEF Byte
<1>3. ASSUME NEW k \in 0 .. N - 1
      PROVE  After(k) = Turn(k)
  <2>1. (k + 1) % N = Turn(k)
    BY <1>1, <1>3 DEF Turn
  <2>2. Turn(k) \in 0 .. N
    BY <1>1, <1>3 DEF Turn
  <2>3. QED
    BY <1>2, <2>1, <2>2 DEF After, N
<1>4. QED
  BY <1>2, <1>3

(* What it is to be a consistent ring.                                     *)
LEMMA RingFacts ==
  ASSUME NEW box \in Ring, Consistent(box)
  PROVE  /\ N \in Nat \ {0} /\ ByteSize \in Nat /\ N < ByteSize
         /\ Entries = 0 .. N - 1
         /\ box.messages \in [Entries -> Message]
         /\ box.tail \in 0 .. N - 1 /\ box.head \in 0 .. N - 1
         /\ box.count \in 0 .. N
BY InboxAssumption DEF N, Ring, Entries, Consistent

(* The queue in a ring.                                                    *)
LEMMA QueuedFacts ==
  ASSUME NEW box \in Ring, Consistent(box)
  PROVE  /\ Queued(box) \in Seq(Message)
         /\ Len(Queued(box)) = box.count
         /\ \A k \in 1 .. box.count :
              Queued(box)[k] = box.messages[Ahead(box.tail, k - 1)]
<1>1. /\ N \in Nat /\ box.count \in 0 .. N /\ box.tail \in 0 .. N - 1
      /\ Entries = 0 .. N - 1 /\ box.messages \in [Entries -> Message]
  BY RingFacts
<1>2. ASSUME NEW k \in 1 .. box.count
      PROVE  /\ Ahead(box.tail, k - 1) \in Entries
             /\ (box.tail + k - 1) % N = Ahead(box.tail, k - 1)
  <2>1. k - 1 \in 0 .. N /\ box.tail + k - 1 = box.tail + (k - 1)
    BY <1>1, <1>2
  <2>2. QED
    BY <1>1, <2>1, AheadFacts DEF Ahead
<1>3. Queued(box) = [k \in 1 .. box.count |-> box.messages[Ahead(box.tail, k - 1)]]
  BY <1>2 DEF Queued, N
<1>4. Queued(box) \in [1 .. box.count -> Message]
  BY <1>1, <1>2, <1>3
<1>5. Queued(box) \in Seq(Message)
  BY <1>1, <1>4, SeqDef
<1>6. Len(Queued(box)) = box.count
  BY <1>1, <1>3, <1>5, LenProperties
<1>7. QED
  BY <1>3, <1>5, <1>6

(* Enqueueing into a ring that is not full appends.                        *)
LEMMA EnqueueFacts ==
  ASSUME NEW box \in Ring, Consistent(box), box.count < N, NEW msg \in Message
  PROVE  /\ ipcEnqueueMessage(box, msg) \in Ring
         /\ Consistent(ipcEnqueueMessage(box, msg))
         /\ Queued(ipcEnqueueMessage(box, msg)) = Append(Queued(box), msg)
<1> DEFINE new == ipcEnqueueMessage(box, msg)
<1>1. /\ N \in Nat \ {0} /\ ByteSize \in Nat /\ N < ByteSize
      /\ Entries = 0 .. N - 1 /\ box.messages \in [Entries -> Message]
      /\ box.tail \in 0 .. N - 1 /\ box.head \in 0 .. N - 1
      /\ box.count \in 0 .. N
  BY RingFacts
<1>2. box.count \in 0 .. N - 1 /\ box.count + 1 \in 0 .. N
  BY <1>1
<1>3. new = [messages |-> [box.messages EXCEPT ![box.head] = msg],
             head |-> Turn(box.head), tail |-> box.tail, count |-> box.count + 1]
  <2>1. After(box.head) = Turn(box.head) /\ Byte(box.count + 1) = box.count + 1
    BY <1>1, <1>2, ByteFacts
  <2>2. ~ipcIsQueueFull(box)
    BY <1>1, <1>2 DEF ipcIsQueueFull, N
  <2>3. QED
    BY <2>1, <2>2, Zenon DEF ipcEnqueueMessage
<1>4. new \in Ring
  <2>1. Turn(box.head) \in Entries
    BY <1>1, AheadFacts
  <2>2. box.count + 1 \in 0 .. ByteSize - 1
    BY <1>1, <1>2
  <2>3. [box.messages EXCEPT ![box.head] = msg] \in [Entries -> Message]
    BY <1>1
  <2>4. QED
    BY <1>1, <1>3, <2>1, <2>2, <2>3 DEF Ring
<1>5. Consistent(new)
  <2>1. Ahead(box.tail, box.count + 1) = Turn(Ahead(box.tail, box.count))
    BY <1>1, <1>2, AheadFacts
  <2>2. QED
    BY <1>2, <1>3, <2>1 DEF Consistent
<1>6. /\ Append(Queued(box), msg) \in Seq(Message)
      /\ Len(Append(Queued(box), msg)) = box.count + 1
      /\ \A k \in 1 .. box.count : Append(Queued(box), msg)[k] = Queued(box)[k]
      /\ Append(Queued(box), msg)[box.count + 1] = msg
  BY QueuedFacts, AppendProperties
<1>7. /\ Queued(new) \in Seq(Message) /\ Len(Queued(new)) = new.count
      /\ \A k \in 1 .. new.count :
           Queued(new)[k] = new.messages[Ahead(new.tail, k - 1)]
  <2> HIDE DEF new
  <2>1. QED
    BY <1>4, <1>5, QueuedFacts
<1>8. ASSUME NEW k \in 1 .. box.count + 1
      PROVE  Queued(new)[k] = Append(Queued(box), msg)[k]
  <2>1. k - 1 \in 0 .. N - 1 /\ k - 1 \in 0 .. N
    BY <1>1, <1>2, <1>8
  <2>2. Ahead(box.tail, k - 1) \in Entries
    BY <1>1, <2>1, AheadFacts
  <2>6. Queued(new)[k] = [box.messages EXCEPT ![box.head] = msg]
                           [Ahead(box.tail, k - 1)]
    BY <1>3, <1>7, <1>8
  <2>3. CASE k = box.count + 1
    <3>1. k - 1 = box.count
      BY <1>2, <2>3
    <3>2. Ahead(box.tail, k - 1) = box.head
      BY <3>1 DEF Consistent
    <3>3. QED
      BY <1>1, <1>6, <2>3, <2>6, <3>2
  <2>4. CASE k \in 1 .. box.count
    <3>1. k - 1 # box.count
      BY <1>2, <2>4
    <3>2. Ahead(box.tail, k - 1) # box.head
      <4>1. \A d, e \in 0 .. N - 1 : Ahead(box.tail, d) = Ahead(box.tail, e) => d = e
        BY <1>1, AheadFacts
      <4>2. QED
        BY <1>2, <2>1, <3>1, <4>1 DEF Consistent
    <3>3. Queued(box)[k] = box.messages[Ahead(box.tail, k - 1)]
      BY <2>4, QueuedFacts
    <3>4. QED
      BY <1>1, <1>6, <2>2, <2>4, <2>6, <3>2, <3>3
  <2>5. k = box.count + 1 \/ k \in 1 .. box.count
    BY <1>1, <1>8
  <2>7. QED
    BY <2>3, <2>4, <2>5
<1>9. Queued(new) = Append(Queued(box), msg)
  <2>1. new.count = box.count + 1
    BY <1>3
  <2>2. QED
    BY <1>6, <1>7, <1>8, <2>1, SeqEqual
<1>10. QED
  BY <1>4, <1>5, <1>9

(* Dequeueing from a ring that is not empty takes the head off.            *)
LEMMA DequeueFacts ==
  ASSUME NEW box \in Ring, Consistent(box), box.count # 0
  PROVE  /\ ipcDequeueMessage(box) \in Ring
         /\ Consistent(ipcDequeueMessage(box))
         /\ Queued(box) # << >>
         /\ Queued(ipcDequeueMessage(box)) = Tail(Queued(box))
         /\ Oldest(box) = Head(Queued(box)) /\ Oldest(box) \in Message
<1> DEFINE new == ipcDequeueMessage(box)
<1>1. /\ N \in Nat \ {0} /\ ByteSize \in Nat /\ N < ByteSize
      /\ Entries = 0 .. N - 1 /\ box.messages \in [Entries -> Message]
      /\ box.tail \in 0 .. N - 1 /\ box.head \in 0 .. N - 1
      /\ box.count \in 0 .. N
  BY RingFacts
<1>2. box.count \in 1 .. N /\ box.count - 1 \in 0 .. N - 1 /\ box.count - 1 \in 0 .. N
  BY <1>1
<1>3. new = [messages |-> box.messages, head |-> box.head,
             tail |-> Turn(box.tail), count |-> box.count - 1]
  <2>1. After(box.tail) = Turn(box.tail) /\ Byte(box.count - 1) = box.count - 1
    BY <1>1, <1>2, ByteFacts
  <2>2. QED
    BY <2>1, Zenon DEF ipcDequeueMessage
<1>4. new \in Ring
  <2>1. Turn(box.tail) \in Entries
    BY <1>1, AheadFacts
  <2>2. box.count - 1 \in 0 .. ByteSize - 1
    BY <1>1, <1>2
  <2>3. QED
    BY <1>1, <1>3, <2>1, <2>2 DEF Ring
<1>5. Consistent(new)
  <2>1. Ahead(box.tail, (box.count - 1) + 1) = Ahead(Turn(box.tail), box.count - 1)
    BY <1>1, <1>2, AheadFacts
  <2>2. (box.count - 1) + 1 = box.count
    BY <1>1
  <2>3. QED
    BY <1>2, <1>3, <2>1, <2>2 DEF Consistent
<1>6. /\ Queued(box) \in Seq(Message) /\ Len(Queued(box)) = box.count
      /\ \A k \in 1 .. box.count :
           Queued(box)[k] = box.messages[Ahead(box.tail, k - 1)]
  BY QueuedFacts
<1>7. Queued(box) # << >>
  BY <1>1, <1>6, EmptySeq
<1>8. /\ Head(Queued(box)) = Queued(box)[1]
      /\ Tail(Queued(box)) \in Seq(Message)
      /\ Len(Tail(Queued(box))) = box.count - 1
      /\ \A k \in 1 .. box.count - 1 : Tail(Queued(box))[k] = Queued(box)[k + 1]
  BY <1>6, <1>7, HeadTailProperties
<1>9. /\ Queued(new) \in Seq(Message) /\ Len(Queued(new)) = new.count
      /\ \A k \in 1 .. new.count :
           Queued(new)[k] = new.messages[Ahead(new.tail, k - 1)]
  <2> HIDE DEF new
  <2>1. QED
    BY <1>4, <1>5, QueuedFacts
<1>10. ASSUME NEW k \in 1 .. box.count - 1
       PROVE  Queued(new)[k] = Tail(Queued(box))[k]
  <2>1. /\ k - 1 \in 0 .. N - 1 /\ (k - 1) + 1 = k /\ (k + 1) - 1 = k
        /\ k + 1 \in 1 .. box.count
    BY <1>1, <1>2, <1>10
  <2>2. Queued(new)[k] = box.messages[Ahead(Turn(box.tail), k - 1)]
    BY <1>3, <1>9, <1>10
  <2>3. Queued(box)[k + 1] = box.messages[Ahead(box.tail, k)]
    BY <1>6, <2>1
  <2>4. Ahead(Turn(box.tail), k - 1) = Ahead(box.tail, k)
    <3>1. \A d \in 0 .. N - 1 : Ahead(box.tail, d + 1) = Ahead(Turn(box.tail), d)
      BY <1>1, AheadFacts
    <3>2. QED
      BY <2>1, <3>1
  <2>5. QED
    BY <1>8, <1>10, <2>2, <2>3, <2>4
<1>11. Queued(new) = Tail(Queued(box))
  <2>1. new.count = box.count - 1
    BY <1>3
  <2>2. QED
    BY <1>8, <1>9, <1>10, <2>1, SeqEqual
<1>12. Oldest(box) = Head(Queued(box)) /\ Oldest(box) \in Message
  <2>1. 1 \in 1 .. box.count /\ 1 - 1 = 0
    BY <1>2
  <2>2. Queued(box)[1] = box.messages[Ahead(box.tail, 0)]
    BY <1>6, <2>1
  <2>3. QED
    BY <1>1, <1>8, <2>2, AheadFacts DEF Oldest
<1>13. QED
  BY <1>4, <1>5, <1>7, <1>11, <1>12

-----------------------------------------------------------------------------
(* The inductive invariant: types, and every ring consistent.  The types   *)
(* alone are not inductive: only consistency keeps the count in a byte.    *)
InboxInv == TypeOK /\ \A q \in Slots : Consistent(inbox[q])

LEMMA EmptyFacts == EmptyInbox \in Ring /\ Consistent(EmptyInbox)
<1>1. N \in Nat \ {0} /\ ByteSize \in Nat /\ N < ByteSize /\ Entries = 0 .. N - 1
  BY InboxAssumption DEF N, Entries
<1>2. Zeroed \in Message
  BY InboxAssumption DEF Zeroed, Message, Slots
<1>3. 0 \in Entries /\ 0 \in 0 .. ByteSize - 1
  BY <1>1
<1>4. EmptyInbox \in Ring
  BY <1>2, <1>3 DEF EmptyInbox, Ring
<1>5. Ahead(0, 0) = 0
  BY <1>1, AheadFacts
<1>6. QED
  BY <1>1, <1>4, <1>5 DEF Consistent, EmptyInbox

LEMMA InitInv == Init => InboxInv
<1> SUFFICES ASSUME Init PROVE InboxInv
  OBVIOUS
<1>1. 0 \in Slots
  BY InboxAssumption DEF Slots
<1>2. QED
  BY <1>1, EmptyFacts DEF Init, InboxInv, TypeOK, Slots, KERNEL

(* A SEND that is accepted. *)
Accepted(q, size) ==
  q < MAX_PROCS /\ valid[q] /\ size <= MAX_MSG_SIZE /\ ~ipcIsQueueFull(inbox[q])

LEMMA SendInv ==
  ASSUME InboxInv, NEW p \in Callers, NEW q \in Targets, NEW size \in Sizes,
         Send(p, q, size)
  PROVE  InboxInv'
<1>1. /\ p \in Slots /\ size \in Nat
      /\ answer' \in [by : Slots, value : Int, copied : Nat]
      /\ valid' = valid /\ current' = current
  BY InboxAssumption DEF Send, Returns, Callers
<1>2. CASE Accepted(q, size)
  <2>1. /\ inbox' = [inbox EXCEPT ![q] =
                       ipcEnqueueMessage(@, [sender |-> p, size |-> size])]
    BY <1>2 DEF Send, Accepted
  <2>2. q \in Slots
    BY <1>2, InboxAssumption DEF Accepted, Targets, Slots
  <2>3. [sender |-> p, size |-> size] \in Message
    BY <1>1 DEF Message
  <2>4. /\ inbox[q] \in Ring /\ Consistent(inbox[q]) /\ inbox[q].count < N
    BY <1>2, <2>2, RingFacts DEF InboxInv, TypeOK, Accepted, ipcIsQueueFull, N
  <2>5. /\ inbox'[q] \in Ring /\ Consistent(inbox'[q])
        /\ \A r \in Slots : r # q => inbox'[r] = inbox[r]
        /\ inbox' \in [Slots -> Ring]
    BY <2>1, <2>2, <2>3, <2>4, EnqueueFacts DEF InboxInv, TypeOK
  <2>6. QED
    BY <1>1, <2>5 DEF InboxInv, TypeOK
<1>3. CASE ~Accepted(q, size)
  <2>1. inbox' = inbox
    BY <1>3 DEF Send, Accepted
  <2>2. QED
    BY <1>1, <2>1 DEF InboxInv, TypeOK
<1>4. QED
  BY <1>2, <1>3

LEMMA FetchInv ==
  ASSUME InboxInv, NEW p \in Callers, NEW room \in Rooms, Fetch(p, room)
  PROVE  InboxInv'
<1>1. /\ p \in Slots /\ room \in Nat /\ valid' = valid /\ current' = current
      /\ inbox[p] \in Ring /\ Consistent(inbox[p])
  BY InboxAssumption DEF Fetch, Callers, InboxInv, TypeOK
<1>2. CASE ipcIsQueueEmpty(inbox[p])
  <2>1. inbox' = inbox /\ answer' = [by |-> p, value |-> -1, copied |-> 0]
    BY <1>2 DEF Fetch, Returns
  <2>2. QED
    BY <1>1, <2>1 DEF InboxInv, TypeOK
<1>3. CASE ~ipcIsQueueEmpty(inbox[p])
  <2>1. /\ inbox' = [inbox EXCEPT ![p] = ipcDequeueMessage(@)]
        /\ answer' = [by |-> p, value |-> Oldest(inbox[p]).sender,
                      copied |-> Lesser(Oldest(inbox[p]).size, room)]
    BY <1>3 DEF Fetch, Returns
  <2>2. /\ ipcDequeueMessage(inbox[p]) \in Ring
        /\ Consistent(ipcDequeueMessage(inbox[p]))
        /\ Oldest(inbox[p]) \in Message
    BY <1>1, <1>3, DequeueFacts DEF ipcIsQueueEmpty
  <2>3. /\ Oldest(inbox[p]).sender \in Int /\ Oldest(inbox[p]).size \in Nat
    BY <2>2, InboxAssumption DEF Message, Slots
  <2>4. answer' \in [by : Slots, value : Int, copied : Nat]
    BY <1>1, <2>1, <2>3 DEF Lesser
  <2>5. /\ inbox' \in [Slots -> Ring]
        /\ \A r \in Slots : Consistent(inbox'[r])
    BY <1>1, <2>1, <2>2 DEF InboxInv, TypeOK
  <2>6. QED
    BY <1>1, <2>4, <2>5 DEF InboxInv, TypeOK
<1>4. QED
  BY <1>2, <1>3

LEMMA UnreadInv ==
  ASSUME InboxInv, NEW p \in Callers, NEW sender \in Slots \cup {Any},
         Unread(p, sender)
  PROVE  InboxInv'
<1>1. /\ valid' = valid /\ current' = current /\ inbox' = inbox
      /\ answer'.value \in {0, 1}
      /\ answer' = [by |-> p, value |-> answer'.value, copied |-> 0]
  BY DEF Unread, Returns
<1>2. p \in Slots
  BY DEF Callers
<1>3. answer' \in [by : Slots, value : Int, copied : Nat]
  BY <1>1, <1>2
<1>4. QED
  BY <1>1, <1>3 DEF InboxInv, TypeOK

LEMMA SlotInv ==
  ASSUME InboxInv, NEW q \in Slots, Switch(q) \/ Kill(q) \/ Reap(q) \/ Create(q)
  PROVE  InboxInv'
<1>0. CASE Switch(q)
  BY <1>0 DEF Switch, InboxInv, TypeOK
<1>1. CASE Kill(q)
  BY <1>1 DEF Kill, InboxInv, TypeOK
<1>2. CASE Reap(q)
  BY <1>2, EmptyFacts DEF Reap, InboxInv, TypeOK
<1>3. CASE Create(q)
  BY <1>3, EmptyFacts DEF Create, InboxInv, TypeOK
<1>4. QED
  BY <1>0, <1>1, <1>2, <1>3

LEMMA StepInv == InboxInv /\ [Next]_vars => InboxInv'
<1> SUFFICES ASSUME InboxInv, [Next]_vars PROVE InboxInv'
  OBVIOUS
<1>1. ASSUME NEW p \in Callers, NEW q \in Targets, NEW size \in Sizes,
             Send(p, q, size)
      PROVE  InboxInv'
  BY <1>1, SendInv
<1>2. ASSUME NEW p \in Callers, NEW room \in Rooms, Fetch(p, room)
      PROVE  InboxInv'
  BY <1>2, FetchInv
<1>3. ASSUME NEW p \in Callers, NEW sender \in Slots \cup {Any}, Unread(p, sender)
      PROVE  InboxInv'
  BY <1>3, UnreadInv
<1>4. ASSUME NEW q \in Slots, Switch(q) \/ Kill(q) \/ Reap(q) \/ Create(q)
      PROVE  InboxInv'
  BY <1>4, SlotInv
<1>5. CASE UNCHANGED vars
  BY <1>5 DEF vars, InboxInv, TypeOK
<1>6. QED
  BY <1>1, <1>2, <1>3, <1>4, <1>5 DEF Next

LEMMA InvHolds == Spec => []InboxInv
<1>1. QED
  BY InitInv, StepInv, PTL DEF Spec

(* SEND, FETCH and UNREAD, on any number of rings of any size, keep every  *)
(* index inside its ring and every field in its type.                      *)
THEOREM InboxTyped == Spec => []TypeOK
<1>1. InboxInv => TypeOK
  BY DEF InboxInv
<1>2. QED
  BY <1>1, InvHolds, PTL

(* In isr/system.c a ring's head, tail and one-byte count never disagree.  *)
THEOREM RingsConsistent == Spec => []RingConsistent
<1>1. InboxInv => RingConsistent
  BY DEF InboxInv, RingConsistent, Consistent, Ahead, N
<1>2. QED
  BY <1>1, InvHolds, PTL
-----------------------------------------------------------------------------
(* The refinement.  The queue a slot stands for: *)
queue == [q \in Slots |-> Queued(inbox[q])]

LEMMA QueueFacts ==
  ASSUME InboxInv, NEW q \in Slots
  PROVE  /\ queue[q] = Queued(inbox[q])
         /\ inbox[q] \in Ring /\ Consistent(inbox[q])
         /\ queue[q] \in Seq(Message)
         /\ Len(queue[q]) = inbox[q].count
         /\ inbox[q].count \in 0 .. N
         /\ \A k \in 1 .. inbox[q].count :
              queue[q][k] = inbox[q].messages[Ahead(inbox[q].tail, k - 1)]
<1>1. inbox[q] \in Ring /\ Consistent(inbox[q])
  BY DEF InboxInv, TypeOK
<1>2. queue[q] = Queued(inbox[q])
  BY DEF queue
<1>3. QED
  BY <1>1, <1>2, QueuedFacts, RingFacts

LEMMA EmptyQueue == Queued(EmptyInbox) = << >>
<1>1. Queued(EmptyInbox) \in Seq(Message) /\ Len(Queued(EmptyInbox)) = 0
  BY EmptyFacts, QueuedFacts DEF EmptyInbox
<1>2. QED
  BY <1>1, EmptySeq

LEMMA RefineInit == Init => Promise!Init
<1> SUFFICES ASSUME Init PROVE Promise!Init
  OBVIOUS
<1>1. \A q \in Slots : Queued(inbox[q]) = << >>
  BY EmptyQueue DEF Init
<1>2. QED
  BY <1>1 DEF Init, Promise!Init

LEMMA SendRefines ==
  ASSUME InboxInv, NEW p \in Callers, NEW q \in Targets, NEW size \in Sizes,
         Send(p, q, size)
  PROVE  Promise!Send(p, q, size)
<1>1. /\ MAX_PROCS \in Nat /\ size \in Nat /\ MAX_MSG_SIZE \in Nat /\ p \in Slots
      /\ q \in Slots <=> q < MAX_PROCS
  BY InboxAssumption DEF Callers, Targets, Slots
<1>2. /\ q \in Slots => valid[q] \in BOOLEAN
      /\ q \in Slots => (ipcIsQueueFull(inbox[q]) <=> ~(Len(queue[q]) < N))
  BY QueueFacts, InboxAssumption DEF InboxInv, TypeOK, ipcIsQueueFull, N
<1>3. CASE Accepted(q, size)
  <2>1. /\ q \in Slots
        /\ inbox' = [inbox EXCEPT ![q] =
                       ipcEnqueueMessage(@, [sender |-> p, size |-> size])]
        /\ answer' = [by |-> p, value |-> 0, copied |-> 0]
        /\ valid' = valid
    BY <1>1, <1>3 DEF Send, Accepted, Returns
  <2>2. Promise!Verdict(q, size) = 0
    BY <1>1, <1>2, <1>3, <2>1 DEF Promise!Verdict, Accepted, queue, N
  <2>3. Queued(inbox[q]) \in Seq(Message) /\ inbox[q].count < N
    BY <1>2, <1>3, <2>1, QueueFacts DEF Accepted
  <2>4. [sender |-> p, size |-> size] \in Message
    BY <1>1 DEF Message
  <2>5. Queued(inbox'[q]) = Append(Queued(inbox[q]), [sender |-> p, size |-> size])
    <3>1. inbox'[q] = ipcEnqueueMessage(inbox[q], [sender |-> p, size |-> size])
      BY <2>1 DEF InboxInv, TypeOK
    <3>2. QED
      BY <2>1, <2>3, <2>4, <3>1, QueueFacts, EnqueueFacts
  <2>6. \A r \in Slots : r # q => inbox'[r] = inbox[r]
    BY <2>1 DEF InboxInv, TypeOK
  <2>7. [r \in Slots |-> Queued(inbox'[r])] =
          [[r \in Slots |-> Queued(inbox[r])] EXCEPT ![q] =
             Append(@, Promise!Message(p, size))]
    <3>1. [sender |-> p, size |-> size] = Promise!Message(p, size)
      BY DEF Promise!Message
    <3>2. \A r \in Slots :
            Queued(inbox'[r]) = IF r = q
                                  THEN Append(Queued(inbox[q]), Promise!Message(p, size))
                                  ELSE Queued(inbox[r])
      BY <2>5, <2>6, <3>1
    <3>3. QED
      BY <2>1, <3>2
  <2>8. QED
    BY <2>1, <2>2, <2>7 DEF Promise!Send
<1>4. CASE ~Accepted(q, size)
  <2>1. /\ inbox' = inbox /\ valid' = valid
        /\ answer' = [by |-> p,
                      value |-> IF q >= MAX_PROCS THEN -1
                                ELSE IF ~valid[q] THEN -1
                                ELSE IF size > MAX_MSG_SIZE THEN -2
                                ELSE -4,
                      copied |-> 0]
    BY <1>4 DEF Send, Accepted, Returns
  <2>2. Promise!Verdict(q, size) = IF q >= MAX_PROCS THEN -1
                                   ELSE IF ~valid[q] THEN -1
                                   ELSE IF size > MAX_MSG_SIZE THEN -2
                                   ELSE -4
    <3>1. q \in Int
      BY InboxAssumption DEF Targets
    <3>2. CASE q \notin Slots
      BY <1>1, <3>1, <3>2 DEF Promise!Verdict
    <3>3. CASE q \in Slots /\ ~valid[q]
      BY <1>1, <3>1, <3>3 DEF Promise!Verdict
    <3>4. CASE q \in Slots /\ valid[q] /\ size > MAX_MSG_SIZE
      BY <1>1, <3>1, <3>4 DEF Promise!Verdict
    <3>5. CASE q \in Slots /\ valid[q] /\ ~(size > MAX_MSG_SIZE)
      <4>1. ~(Len(queue[q]) < N) /\ size <= MAX_MSG_SIZE
        BY <1>1, <1>2, <1>4, <3>5 DEF Accepted
      <4>2. QED
        BY <1>1, <3>1, <3>5, <4>1 DEF Promise!Verdict, queue, N
    <3>6. QED
      BY <3>2, <3>3, <3>4, <3>5
  <2>3. Promise!Verdict(q, size) # 0
    BY <2>2
  <2>4. QED
    BY <2>1, <2>2, <2>3 DEF Promise!Send
<1>5. QED
  BY <1>3, <1>4

LEMMA FetchRefines ==
  ASSUME InboxInv, NEW p \in Callers, NEW room \in Rooms, Fetch(p, room)
  PROVE  Promise!Fetch(p, room)
<1>1. /\ p \in Slots /\ valid' = valid
      /\ inbox[p] \in Ring /\ Consistent(inbox[p])
  BY QueueFacts DEF Fetch, Callers
<1>2. CASE ipcIsQueueEmpty(inbox[p])
  <2>1. /\ inbox' = inbox
        /\ answer' = [by |-> p, value |-> -1, copied |-> 0]
    BY <1>2 DEF Fetch, Returns
  <2>2. Queued(inbox[p]) = << >>
    BY <1>1, <1>2, QueueFacts, EmptySeq DEF ipcIsQueueEmpty
  <2>3. QED
    BY <1>1, <2>1, <2>2 DEF Promise!Fetch
<1>3. CASE ~ipcIsQueueEmpty(inbox[p])
  <2>1. /\ inbox' = [inbox EXCEPT ![p] = ipcDequeueMessage(@)]
        /\ answer' = [by |-> p, value |-> Oldest(inbox[p]).sender,
                      copied |-> Lesser(Oldest(inbox[p]).size, room)]
    BY <1>3 DEF Fetch, Returns
  <2>2. /\ Queued(inbox[p]) # << >>
        /\ Queued(ipcDequeueMessage(inbox[p])) = Tail(Queued(inbox[p]))
        /\ Oldest(inbox[p]) = Head(Queued(inbox[p]))
    BY <1>1, <1>3, DequeueFacts DEF ipcIsQueueEmpty
  <2>3. \A r \in Slots : inbox'[r] = IF r = p THEN ipcDequeueMessage(inbox[p])
                                              ELSE inbox[r]
    BY <1>1, <2>1 DEF InboxInv, TypeOK
  <2>4. [r \in Slots |-> Queued(inbox'[r])] =
          [[r \in Slots |-> Queued(inbox[r])] EXCEPT ![p] = Tail(@)]
    BY <1>1, <2>2, <2>3
  <2>5. QED
    BY <1>1, <2>1, <2>2, <2>4 DEF Promise!Fetch, Promise!Lesser, Lesser
<1>4. QED
  BY <1>2, <1>3

LEMMA UnreadRefines ==
  ASSUME InboxInv, NEW p \in Callers, NEW sender \in Slots \cup {Any},
         Unread(p, sender)
  PROVE  Promise!Unread(p, sender)
<1> DEFINE Waiting ==
      \E i \in 0 .. inbox[p].count - 1 :
        sender \in {Any, inbox[p].messages[(inbox[p].tail + i) % N].sender}
<1>1. /\ p \in Slots /\ N \in Nat
      /\ inbox[p].count \in 0 .. N
      /\ Len(queue[p]) = inbox[p].count
      /\ \A k \in 1 .. inbox[p].count :
           queue[p][k] = inbox[p].messages[(inbox[p].tail + (k - 1)) % N]
  BY QueueFacts, InboxAssumption DEF Callers, Ahead, N
<1>2. Waiting <=> \E k \in 1 .. Len(queue[p]) : sender \in {Any, queue[p][k].sender}
  <2>1. ASSUME NEW i \in 0 .. inbox[p].count - 1
        PROVE  i + 1 \in 1 .. inbox[p].count /\ (i + 1) - 1 = i
    BY <1>1, <2>1
  <2>2. ASSUME NEW k \in 1 .. inbox[p].count
        PROVE  k - 1 \in 0 .. inbox[p].count - 1
    BY <1>1, <2>2
  <2>3. QED
    BY <1>1, <2>1, <2>2
<1>3. /\ valid' = valid /\ inbox' = inbox
      /\ answer' = [by |-> p, value |-> IF Waiting THEN 1 ELSE 0, copied |-> 0]
  BY DEF Unread, Returns, N
<1>4. QED
  BY <1>1, <1>2, <1>3 DEF Promise!Unread, queue

LEMMA SlotRefines ==
  ASSUME InboxInv, NEW q \in Slots, Kill(q) \/ Reap(q) \/ Create(q)
  PROVE  Promise!Begin(q) \/ Promise!End(q) \/ Promise!Drop(q)
<1>1. CASE Kill(q)
  BY <1>1 DEF Kill, Promise!End
<1>2. ASSUME inbox' = [inbox EXCEPT ![q] = EmptyInbox]
      PROVE  [r \in Slots |-> Queued(inbox'[r])] =
               [[r \in Slots |-> Queued(inbox[r])] EXCEPT ![q] = << >>]
  <2>1. \A r \in Slots : inbox'[r] = IF r = q THEN EmptyInbox ELSE inbox[r]
    BY <1>2 DEF InboxInv, TypeOK
  <2>2. QED
    BY <2>1, EmptyQueue
<1>3. CASE Reap(q)
  BY <1>2, <1>3 DEF Reap, Promise!Drop
<1>4. CASE Create(q)
  BY <1>2, <1>4 DEF Create, Promise!Begin
<1>5. QED
  BY <1>1, <1>3, <1>4

LEMMA RefineStep ==
  InboxInv /\ [Next]_vars =>
    [Promise!Next]_<<[q \in Slots |-> Queued(inbox[q])], valid, answer>>
<1> DEFINE Seen == <<[q \in Slots |-> Queued(inbox[q])], valid, answer>>
<1> SUFFICES ASSUME InboxInv, [Next]_vars PROVE [Promise!Next]_Seen
  OBVIOUS
<1>1. ASSUME NEW p \in Callers, NEW q \in Targets, NEW size \in Sizes,
             Send(p, q, size)
      PROVE  Promise!Next
  <2>1. answer'.by = p /\ valid' = valid
    BY <1>1 DEF Send, Returns
  <2>2. Promise!Send(p, q, size)
    BY <1>1, SendRefines
  <2>3. QED
    BY <2>1, <2>2 DEF Promise!Next, Promise!Call
<1>2. ASSUME NEW p \in Callers, NEW room \in Rooms, Fetch(p, room)
      PROVE  Promise!Next
  <2>1. answer'.by = p /\ valid' = valid
    BY <1>2 DEF Fetch, Returns
  <2>2. Promise!Fetch(p, room)
    BY <1>2, FetchRefines
  <2>3. QED
    BY <2>1, <2>2 DEF Promise!Next, Promise!Call
<1>3. ASSUME NEW p \in Callers, NEW sender \in Slots \cup {Any}, Unread(p, sender)
      PROVE  Promise!Next
  <2>1. answer'.by = p /\ valid' = valid
    BY <1>3 DEF Unread, Returns
  <2>2. Promise!Unread(p, sender)
    BY <1>3, UnreadRefines
  <2>3. QED
    BY <2>1, <2>2 DEF Promise!Next, Promise!Call
<1>4. ASSUME NEW q \in Slots, Kill(q) \/ Reap(q) \/ Create(q)
      PROVE  Promise!Next
  BY <1>4, SlotRefines DEF Promise!Next
<1>5. CASE UNCHANGED vars
  BY <1>5 DEF vars
<1>6. ASSUME NEW q \in Slots, Switch(q)
      PROVE  UNCHANGED Seen
  BY <1>6 DEF Switch
<1>7. QED
  BY <1>1, <1>2, <1>3, <1>4, <1>5, <1>6 DEF Next

(* The rings of isr/system.c are bounded FIFO queues: a message is         *)
(* delivered once, in order, to the process it was sent to or to nobody.   *)
THEOREM InboxIsMailbox == Spec => IsMailbox
<1>1. QED
  BY RefineInit, RefineStep, InvHolds, PTL DEF Spec, IsMailbox, Promise!Spec
=============================================================================
