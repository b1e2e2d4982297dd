------------------------------ MODULE MCCleaner ------------------------------
(***************************************************************************)
(* A file of one chunk, or of two at a smaller chunk size.                 *)
(***************************************************************************)
EXTENDS Cleaner

TwoSizes == {[i \in Files |-> 1], [i \in Files |-> 2]}
=============================================================================
