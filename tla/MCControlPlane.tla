--------------------------- MODULE MCControlPlane ----------------------------
(***************************************************************************)
(* Two clients, and messages that are accepted, rejected, and rejected     *)
(* after they have changed the link.                                       *)
(***************************************************************************)
EXTENDS ControlPlane, MCLinkSettings

FewMessages ==
  {With("active_link", 2), With("chunk_size", 3),
   [With("active_link", 2) EXCEPT !.chunk_size = 9]}

Other == [active_link |-> 1, chunk_size |-> 3, links |-> Only1]
TwoAndOne == [c \in Clients |-> IF c = 1 THEN 2 ELSE 1]

FewFiles == {Start, Other, Dangling}
=============================================================================
