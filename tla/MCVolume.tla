------------------------------ MODULE MCVolume ------------------------------
(* A volume of seven clusters, two of them directories of three slots, two *)
(* slots and three table entries to a sector: two files of two clusters    *)
(* fill it, three files a directory.                                       *)
EXTENDS Volume
=============================================================================
