------------------------------- MODULE Store -------------------------------
(***************************************************************************)
(* What a volume promises to those who write files on it: a write takes    *)
(* effect in one step or not at all, wherever it fails and wherever the    *)
(* power goes.  The one liberty: a write under a name that is taken may    *)
(* be answered with success and yet leave the old file in place.           *)
(***************************************************************************)
CONSTANTS
  Places,    \* directory and name
  Contents,  \* what can be written
  Nothing    \* no file

VARIABLES
  files,    \* what is read at each place
  pending,  \* the write in progress, if any: <<place, content>>
  result    \* the last answer

vars == <<files, pending, result>>

Answers == {"ok", "no_space", "dir_full"}

Init ==
  /\ files \in [Places -> Contents \cup {Nothing}]
  /\ pending = {}
  /\ result = "ok"

Ask(p, v) ==
  /\ pending = {}
  /\ pending' = {<<p, v>>}
  /\ UNCHANGED <<files, result>>

Fail ==
  /\ pending # {}
  /\ pending' = {}
  /\ result' \in Answers \ {"ok"}
  /\ UNCHANGED files

Complete ==
  /\ pending # {}
  /\ pending' = {}
  /\ result' = "ok"
  /\ \E write \in pending :
       \/ files' = [files EXCEPT ![write[1]] = write[2]]
       \/ files[write[1]] # Nothing /\ UNCHANGED files

(* A write of nothing is refused before it begins. *)
Refuse == result' = "no_space" /\ UNCHANGED <<files, pending>>

PowerOff == pending' = {} /\ UNCHANGED <<files, result>>

Next ==
  \/ \E p \in Places, v \in Contents : Ask(p, v)
  \/ Fail \/ Complete \/ Refuse \/ PowerOff

Spec == Init /\ [][Next]_vars
=============================================================================
