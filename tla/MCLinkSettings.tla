--------------------------- MODULE MCLinkSettings ----------------------------
(***************************************************************************)
(* Two links, 1 and 2; chunk sizes 2 and 3 are legal, 9 is not.            *)
(***************************************************************************)
EXTENDS LinkSettings

Link(ip, port, kbps) == [ip |-> ip, port |-> port, kbps |-> kbps]

Both == [k \in {1, 2} |-> IF k = 1 THEN Link(11, 21, 31) ELSE Link(12, 22, 32)]
Only1 == [k \in {1} |-> Link(11, 21, 33)]

Start    == [active_link |-> 1, chunk_size |-> 2, links |-> Both]
Retuned  == [active_link |-> 2, chunk_size |-> 3, links |-> Both]
Dangling == [active_link |-> 2, chunk_size |-> 2, links |-> Only1]

ValidFiles == {Start, Retuned}

With(f, x) == [NoOverride EXCEPT ![f] = x]

Messages ==
  {With("active_link", 2), With("active_link", 1), With("chunk_size", 3),
   With("chunk_size", 9), With("max_kbps", 30), With("link_ip", 10),
   With("link_port", 20),
   [With("active_link", 2) EXCEPT !.chunk_size = 9]}
=============================================================================
