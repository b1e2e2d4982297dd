------------------------------ MODULE MCSender -------------------------------
(***************************************************************************)
(* Small instances of Sender.                                              *)
(***************************************************************************)
EXTENDS Sender

CONSTANTS a, b    \* two files; in turn b is a ledger dump, or a's .gz

NoStem == [n \in {} |-> n]
BStem == [n \in {b} |-> a]

NoDirs == <<>>
OneDir == <<Names>>
TwoDirs == <<Names \ {b}, Names \cap {b}>>
DebugB == <<Names \cap {b}>>
=============================================================================
