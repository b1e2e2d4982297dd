------------------------------- MODULE Holding -------------------------------
(***************************************************************************)
(* The holding directory as the cleaner, the reconciler and a status       *)
(* request see it: for every assembly its chunk count, whether its name is *)
(* known and which chunks are in.  They read it while the receiver writes  *)
(* it, so what they may rely on is how it can change.                      *)
(***************************************************************************)
EXTENDS Integers

CONSTANTS
  Files,          \* file ids
  Counts          \* [Files -> chunk counts a file can be announced with]

VARIABLE holding  \* id -> [num, named, bits], for the assemblies under way

vars == holding

Assembly(n, named) == [num |-> n, named |-> named, bits |-> {}]

Whole(m) == m.named /\ 0 .. m.num - 1 \subseteq m.bits

Init == holding = [i \in {} |-> {}]

\* A packet of a file that is not under way: a chunk, or its name.
Open(i, n, named) ==
  /\ i \notin DOMAIN holding
  /\ holding' = [j \in DOMAIN holding \cup {i} |->
                   IF j = i THEN Assembly(n, named) ELSE holding[j]]

LearnName(i) ==
  /\ i \in DOMAIN holding
  /\ holding' = [holding EXCEPT ![i].named = TRUE]

LearnChunk(i, c) ==
  /\ i \in DOMAIN holding
  /\ c \in 0 .. holding[i].num - 1
  /\ holding' = [holding EXCEPT ![i].bits = @ \cup {c}]

\* The file has been moved to the final directory.
Leave(i) ==
  /\ i \in DOMAIN holding
  /\ Whole(holding[i])
  /\ holding' = [j \in DOMAIN holding \ {i} |-> holding[j]]

Next ==
  \E i \in Files :
    \/ \E n \in Counts[i], named \in BOOLEAN : Open(i, n, named)
    \/ LearnName(i)
    \/ \E n \in Counts[i] : \E c \in 0 .. n - 1 : LearnChunk(i, c)
    \/ Leave(i)

Spec == Init /\ [][Next]_vars
=============================================================================
