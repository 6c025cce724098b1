------------------------------- MODULE MCPool -------------------------------
(* The instances of Pool that the runs check. *)
EXTENDS Pool

(* The window manager and a program. *)
TwoPids == {1, 2}

(* What RNEW creates, and DLOAD. *)
RawAndLibrary == {RAW, LIBRARY}
=============================================================================
