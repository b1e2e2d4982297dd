---------------------------- MODULE MCReassembler ----------------------------
(***************************************************************************)
(* Small instances of Reassembler.  File contents are model values; sizes  *)
(* are chosen so that a file has a short tail chunk, exactly full chunks,  *)
(* one chunk or none.                                                      *)
(***************************************************************************)
EXTENDS Reassembler

CONSTANTS a, b

\* Every source is a file of its own.
OwnId   == [s \in Sources |-> s]
OwnPath == [s \in Sources |-> s]

\* a: 3 chunks of 2 or 2 of 3, with a short tail either way; b: one chunk.
TwoSizes == [s \in Sources |-> IF s = a THEN 5 ELSE 1]
\* a: a full chunk and a short tail; b: the empty file.
TailAndEmpty == [s \in Sources |-> IF s = a THEN 3 ELSE 0]
Three == [s \in Sources |-> 3]

BeforeFinalize == {"extend", "write", "truncate", "mark"}
Anywhere == PCs \ {"recv"}
=============================================================================
