---------------------------- MODULE FileDelivery -----------------------------
(***************************************************************************)
(* What the ground station promises to whoever reads final_dir, without a  *)
(* word about packets, bitmaps or sidecars: pieces of a file are collected *)
(* out of sight in any order, what was collected is kept, and the file     *)
(* appears under its name in one step, whole.                              *)
(***************************************************************************)
CONSTANTS
  Files,
  Name,           \* [Files -> names], what a file is delivered as
  Image           \* [Files -> file image], a function from offsets to bytes

VARIABLES
  known,          \* file -> offsets collected so far, for the files under way
  shelf           \* name -> file image, what a reader finds

vars == <<known, shelf>>

Put(dir, n, x) == [j \in DOMAIN dir \cup {n} |-> IF j = n THEN x ELSE dir[j]]
Remove(dir, n) == [j \in DOMAIN dir \ {n} |-> dir[j]]

Init ==
  /\ known = [f \in {} |-> {}]
  /\ shelf = [n \in {} |-> {}]

\* Something of f is heard of for the first time (again, if f was delivered).
Open(f) ==
  /\ f \notin DOMAIN known
  /\ known' = Put(known, f, {})
  /\ UNCHANGED shelf

\* More of f is collected; nothing collected is given up.
Collect(f) ==
  /\ f \in DOMAIN known
  /\ \E offsets \in SUBSET DOMAIN Image[f] :
       known' = [known EXCEPT ![f] = @ \cup offsets]
  /\ UNCHANGED shelf

\* All of f is there: it replaces what has its name.
Deliver(f) ==
  /\ f \in DOMAIN known
  /\ known[f] = DOMAIN Image[f]
  /\ known' = Remove(known, f)
  /\ shelf' = Put(shelf, Name[f], Image[f])

Next == \E f \in Files : Open(f) \/ Collect(f) \/ Deliver(f)

Spec == Init /\ [][Next]_vars
=============================================================================
