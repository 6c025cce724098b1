-------------------------------- MODULE Inbox --------------------------------
(***************************************************************************)
(* The message inboxes of DekOS processes (isr/system.c, SEND, FETCH and   *)
(* UNREAD): a ring of MAX_PENDING_MESSAGES entries in each process slot,   *)
(* with one-byte indices and a one-byte count, and what creation, death    *)
(* and reaping of a process do to the inbox of its slot                    *)
(* (programs/scheduler.c, arch/x86/init.c).                                *)
(*                                                                         *)
(* A message is its sender and its size; its bytes travel with it.  A call *)
(* runs with interrupts off, and it is the current process that makes it:  *)
(* nothing asks whether that process is valid.  One that has killed itself *)
(* (KILL_PROCESS of its own pid returns to it) goes on sending and         *)
(* fetching until the next switch, after which it never runs again.        *)
(* `answer' is what the last call returned and  *)
(* how many bytes it copied to its caller, and where.                      *)
(***************************************************************************)
EXTENDS Integers

CONSTANTS
  MAX_PROCS,             \* process slots
  MAX_PENDING_MESSAGES,  \* entries of a ring
  MAX_MSG_SIZE,          \* bytes of an entry
  ByteSize,              \* 256: head, tail and count are uint8_t
  Sizes,                 \* bound: sizes of messages sent
  Rooms                  \* bound: sizes of buffers fetched into

ASSUME InboxAssumption ==
  /\ MAX_PROCS \in Nat /\ MAX_PROCS >= 3
  /\ MAX_PENDING_MESSAGES \in Nat \ {0}
  /\ ByteSize \in Nat /\ MAX_PENDING_MESSAGES < ByteSize
  /\ MAX_MSG_SIZE \in Nat
  /\ Sizes \subseteq Nat /\ Rooms \subseteq Nat

VARIABLES
  valid,    \* processes[].valid
  current,  \* current_pid.num
  inbox,    \* processes[].inbox
  answer    \* what the last call returned

vars == <<valid, current, inbox, answer>>

Slots   == 0 .. MAX_PROCS - 1
Targets == 0 .. MAX_PROCS     \* pids a sender may name: one is out of range
Any     == -1                 \* UNREAD's (size_t)-1
KERNEL  == 0
Callers == Slots \ {KERNEL}      \* the kernel makes no system calls

Entries == 0 .. MAX_PENDING_MESSAGES - 1
Message == [sender : Slots, size : Nat]
Zeroed  == [sender |-> 0, size |-> 0]

Ring == [messages : [Entries -> Message],
         head : Entries, tail : Entries, count : 0 .. ByteSize - 1]

EmptyInbox == [messages |-> [k \in Entries |-> Zeroed],
               head |-> 0, tail |-> 0, count |-> 0]

Lesser(m, n) == IF m < n THEN m ELSE n

Byte(n) == n % ByteSize
(* Mutant of After: no wrapping at the end of the ring. *)
AfterNoWrap(k) == Byte(k + 1)

After(k) == Byte((k + 1) % MAX_PENDING_MESSAGES)

(* Slot 0 is the kernel's, 1 the shell's, 2 the window manager's. *)
Init ==
  /\ valid = [i \in Slots |-> i <= 2]
  /\ current = KERNEL
  /\ inbox = [i \in Slots |-> EmptyInbox]
  /\ answer = [by |-> 0, value |-> 0, copied |-> 0]

-----------------------------------------------------------------------------
(* Mutant of ipcIsQueueFull: one entry too many. *)
FullTooLate(box) == box.count > MAX_PENDING_MESSAGES

ipcIsQueueFull(box)  == box.count >= MAX_PENDING_MESSAGES
ipcIsQueueEmpty(box) == box.count = 0

ipcEnqueueMessage(box, msg) ==
  IF ipcIsQueueFull(box)
    THEN box
    ELSE [messages |-> [box.messages EXCEPT ![box.head] = msg],
          head     |-> After(box.head),
          tail     |-> box.tail,
          count    |-> Byte(box.count + 1)]

(* ipcDequeueMessage: the message, and the inbox without it. *)
Oldest(box)            == box.messages[box.tail]
ipcDequeueMessage(box) ==
  [messages |-> box.messages,
   head     |-> box.head,
   tail     |-> After(box.tail),
   count    |-> Byte(box.count - 1)]

Returns(p, value, copied) ==
  answer' = [by |-> p, value |-> value, copied |-> copied]

(* The next process is loaded, at a tick or by YIELD: a valid one.  Which   *)
(* of them is the scheduler's business.                                    *)
Switch(p) ==
  /\ valid[p]
  /\ current' = p
  /\ UNCHANGED <<valid, inbox, answer>>

(* SEND.  Its own test for a full ring precedes ipcEnqueueMessage's. *)
Send(p, q, size) ==
  LET refused == Returns(p, IF q >= MAX_PROCS THEN -1
                            ELSE IF ~valid[q] THEN -1
                            ELSE IF size > MAX_MSG_SIZE THEN -2
                            ELSE -4, 0)
      accepted == q < MAX_PROCS /\ valid[q] /\ size <= MAX_MSG_SIZE
                  /\ ~ipcIsQueueFull(inbox[q])
  IN
  /\ p = current
  /\ IF accepted
       THEN /\ inbox' = [inbox EXCEPT ![q] =
                           ipcEnqueueMessage(@, [sender |-> p, size |-> size])]
            /\ Returns(p, 0, 0)
       ELSE refused /\ UNCHANGED inbox
  /\ UNCHANGED <<valid, current>>

(* FETCH into a buffer of `room' bytes.  What does not fit is dropped. *)
Fetch(p, room) ==
  /\ p = current
  /\ IF ipcIsQueueEmpty(inbox[p])
       THEN Returns(p, -1, 0) /\ UNCHANGED inbox
       ELSE /\ Returns(p, Oldest(inbox[p]).sender,
                       Lesser(Oldest(inbox[p]).size, room))
            /\ inbox' = [inbox EXCEPT ![p] = ipcDequeueMessage(@)]
  /\ UNCHANGED <<valid, current>>

(* UNREAD of a sender or of any.  The entries' read flag is never set. *)
Unread(p, sender) ==
  LET box == inbox[p]
      waiting == \E i \in 0 .. box.count - 1 :
                   LET index == (box.tail + i) % MAX_PENDING_MESSAGES
                   IN  sender \in {Any, box.messages[index].sender}
  IN
  /\ p = current
  /\ Returns(p, IF waiting THEN 1 ELSE 0, 0)
  /\ UNCHANGED <<valid, current, inbox>>

(* schedKillProcess and EXIT leave the inbox as it is, and the current     *)
(* process current, were it q itself.                                      *)
Kill(q) ==
  /\ q # KERNEL
  /\ valid' = [valid EXCEPT ![q] = FALSE]
  /\ UNCHANGED <<current, inbox, answer>>

(* deleteTask, in the kernel's loop, zeroes the slot. *)
Reap(q) ==
  /\ current = KERNEL /\ ~valid[q]
  /\ inbox' = [inbox EXCEPT ![q] = EmptyInbox]
  /\ UNCHANGED <<valid, current, answer>>

(* Mutant of Create: the slot is not zeroed. *)
CreateOverOld(q) ==
  /\ ~valid[q]
  /\ \A j \in Slots : ~valid[j] => q <= j
  /\ valid' = [valid EXCEPT ![q] = TRUE]
  /\ UNCHANGED <<current, inbox, answer>>

(* schedCreateProcess zeroes the first slot that is not valid. *)
Create(q) ==
  /\ ~valid[q]
  /\ \A j \in Slots : ~valid[j] => q <= j
  /\ valid' = [valid EXCEPT ![q] = TRUE]
  /\ inbox' = [inbox EXCEPT ![q] = EmptyInbox]
  /\ UNCHANGED <<current, answer>>

Next ==
  \/ \E p \in Callers, q \in Targets, size \in Sizes : Send(p, q, size)
  \/ \E p \in Callers, room \in Rooms : Fetch(p, room)
  \/ \E p \in Callers, sender \in Slots \cup {Any} : Unread(p, sender)
  \/ \E q \in Slots : Switch(q) \/ Kill(q) \/ Reap(q) \/ Create(q)

Spec == Init /\ [][Next]_vars

-----------------------------------------------------------------------------
(* Properties.                                                             *)

(* Every variable has its type: the indices stay inside the ring. *)
TypeOK ==
  /\ valid \in [Slots -> BOOLEAN]
  /\ current \in Slots
  /\ inbox \in [Slots -> Ring]
  /\ answer \in [by : Slots, value : Int, copied : Nat]

(* Head, tail and count agree, one-byte arithmetic included: a full ring   *)
(* is not taken for an empty one, and a count never exceeds the ring.      *)
RingConsistent ==
  \A q \in Slots :
    /\ inbox[q].count <= MAX_PENDING_MESSAGES
    /\ inbox[q].head = (inbox[q].tail + inbox[q].count) % MAX_PENDING_MESSAGES

(* The messages in a ring, oldest first. *)
Queued(box) ==
  [k \in 1 .. box.count |-> box.messages[(box.tail + k - 1) % MAX_PENDING_MESSAGES]]

Promise == INSTANCE Mailbox WITH
  queue    <- [q \in Slots |-> Queued(inbox[q])],
  Capacity <- MAX_PENDING_MESSAGES,
  MaxSize  <- MAX_MSG_SIZE

(* The rings are bounded FIFO queues: messages arrive once, in order, and  *)
(* only at the process they were sent to, never at the next process in its *)
(* slot, and SEND, FETCH and UNREAD answer accordingly.                    *)
IsMailbox == Promise!Spec
=============================================================================
