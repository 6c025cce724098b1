------------------------------- MODULE Mailbox -------------------------------
(***************************************************************************)
(* What SEND, FETCH and UNREAD promise: each slot has a bounded queue of   *)
(* messages; a message is delivered once, in the order of sending, to the  *)
(* process it was sent to or to nobody, and the answers say what happened. *)
(* Who calls is not asked: the slot a call comes from may be dead, and what *)
(* it fetches then was sent to the process that died there.                *)
(***************************************************************************)
EXTENDS Sequences, Integers

CONSTANTS
  Slots,     \* process slots
  Callers,   \* those whose processes make system calls
  Targets,   \* pids a message may be sent to
  Capacity,  \* messages a queue holds
  MaxSize,   \* bytes a message holds
  Sizes,     \* sizes of messages sent
  Rooms,     \* sizes of buffers fetched into
  Any        \* any sender

VARIABLES queue, valid, answer

Message(p, size) == [sender |-> p, size |-> size]

Lesser(m, n) == IF m < n THEN m ELSE n

Init ==
  /\ queue = [q \in Slots |-> << >>]
  /\ valid \in [Slots -> BOOLEAN]
  /\ answer = [by |-> 0, value |-> 0, copied |-> 0]

(* Why a message to q is refused, 0 when it is not. *)
Verdict(q, size) ==
  CASE q \notin Slots                              -> -1
    [] q \in Slots /\ ~valid[q]                    -> -1
    [] q \in Slots /\ valid[q] /\ size > MaxSize   -> -2
    [] q \in Slots /\ valid[q] /\ size <= MaxSize  ->
         IF Len(queue[q]) < Capacity THEN 0 ELSE -4

Send(p, q, size) ==
  /\ answer' = [by |-> p, value |-> Verdict(q, size), copied |-> 0]
  /\ queue' = IF Verdict(q, size) = 0
                THEN [queue EXCEPT ![q] = Append(@, Message(p, size))]
                ELSE queue

Fetch(p, room) ==
  /\ IF queue[p] = << >>
       THEN /\ UNCHANGED queue
            /\ answer' = [by |-> p, value |-> -1, copied |-> 0]
       ELSE /\ queue' = [queue EXCEPT ![p] = Tail(@)]
            /\ answer' = [by |-> p, value |-> Head(queue[p]).sender,
                          copied |-> Lesser(Head(queue[p]).size, room)]

Unread(p, sender) ==
  /\ LET waiting == \E k \in 1 .. Len(queue[p]) :
                      sender \in {Any, queue[p][k].sender}
     IN  answer' = [by |-> p, value |-> IF waiting THEN 1 ELSE 0, copied |-> 0]
  /\ UNCHANGED queue

(* A call from slot p: the answer is p's, and nobody begins or ends by it. *)
Call(p) ==
  /\ answer'.by = p /\ UNCHANGED valid
  /\ \/ \E q \in Targets, size \in Sizes : Send(p, q, size)
     \/ \E room \in Rooms : Fetch(p, room)
     \/ \E sender \in Slots \cup {Any} : Unread(p, sender)

(* A process begins with nothing in its queue. *)
Begin(q) ==
  /\ ~valid[q]
  /\ valid' = [valid EXCEPT ![q] = TRUE]
  /\ queue' = [queue EXCEPT ![q] = << >>]
  /\ UNCHANGED answer

(* Nobody waits on what is left in the queue of a dead process.  Nothing   *)
(* is added to it.                                                         *)
End(q) ==
  /\ valid' = [valid EXCEPT ![q] = FALSE]
  /\ UNCHANGED <<queue, answer>>

Drop(q) ==
  /\ ~valid[q]
  /\ queue' = [queue EXCEPT ![q] = << >>]
  /\ UNCHANGED <<valid, answer>>

Next ==
  \/ \E p \in Callers : Call(p)
  \/ \E q \in Slots : Begin(q) \/ End(q) \/ Drop(q)

Spec == Init /\ [][Next]_<<queue, valid, answer>>
=============================================================================
