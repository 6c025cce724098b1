------------------------------ MODULE MCSched ------------------------------
(* The sets of system calls the runs of Sched let programs make. *)
EXTENDS Sched

(* Everything. *)
AllCalls == CallNames

(* Programs that neither yield to a pid nor kill their own pid. *)
Disciplined == CallNames \ {"YIELD_TO", "KILL_SELF"}

(* Directed yields alone. *)
OnlyYieldTo == {"YIELD_TO"}
=============================================================================
