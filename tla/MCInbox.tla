------------------------------ MODULE MCInbox ------------------------------
(* The sizes the runs of Inbox use. *)
EXTENDS Inbox

(* At and above the size of an entry. *)
EdgeSizes == {MAX_MSG_SIZE, MAX_MSG_SIZE + 1}

(* Too small a buffer and one large enough. *)
EdgeRooms == {MAX_MSG_SIZE - 1, MAX_MSG_SIZE}
=============================================================================
