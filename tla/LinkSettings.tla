---------------------------- MODULE LinkSettings -----------------------------
(***************************************************************************)
(* What the sender's packets are made with and where they go: the config   *)
(* file, the thread that reloads it, the overrides poked in over the       *)
(* control socket, and the rate the limiter was last given.                *)
(***************************************************************************)
EXTENDS Integers, FiniteSets

CONSTANTS
  Configs,        \* contents an operator may give the config file
  InitialConfig,  \* the one the daemon starts with
  Overrides,      \* LinkOverride messages
  Keys,           \* link names, numbered in the BTreeMap's order
  ChunkSizes,     \* MIN_CHUNK_SIZE ..= MAX_CHUNK_SIZE
  None

Fields == {"active_link", "chunk_size", "max_kbps", "link_ip", "link_port"}

\* Config::validate, of the parts the sender uses.
Valid(c) ==
  /\ c.active_link \in DOMAIN c.links
  /\ c.chunk_size \in ChunkSizes

ASSUME LinkSettingsAssumption ==
  /\ Keys \subseteq Nat
  /\ None \notin Nat
  /\ \A c \in Configs : /\ DOMAIN c.links \subseteq Keys /\ IsFiniteSet(DOMAIN c.links)
                        /\ \A k \in DOMAIN c.links : c.links[k].kbps \in Nat
  /\ InitialConfig \in Configs /\ Valid(InitialConfig)
  /\ \A o \in Overrides : DOMAIN o = Fields /\ o.max_kbps \in Nat \cup {None}

VARIABLES
  file,           \* the config file on disk
  events,         \* it has changed and the watch thread has not seen it yet
  watching,       \* the watch thread is alive
  cfg,            \* LiveConfig.inner
  ov,             \* the override_* fields of SenderRuntime
  rate,           \* kbps of the rate limiter
  out             \* where, and at which kbps, the last packet went

vars == <<file, events, watching, cfg, ov, rate, out>>

NoOverride == [f \in Fields |-> None]

Init ==
  /\ file = InitialConfig
  /\ events = FALSE
  /\ watching = TRUE
  /\ cfg = InitialConfig
  /\ ov = NoOverride
  /\ rate = InitialConfig.links[InitialConfig.active_link].kbps
  /\ out = None
-----------------------------------------------------------------------------
\* Option::unwrap_or
Or(x, default) == IF x = None THEN default ELSE x

CurrentChunkSize(c, o) == Or(o.chunk_size, c.chunk_size)

\* links.get(&key), or else links.values().next(): the least key's.
LinkOf(c, key) ==
  IF key \in DOMAIN c.links THEN c.links[key]
  ELSE c.links[CHOOSE k \in DOMAIN c.links : \A j \in DOMAIN c.links : k <= j]

\* current_link
CurrentLink(c, o) ==
  LET key  == Or(o.active_link, c.active_link)
      link == LinkOf(c, key)
  IN  [key |-> key, ip |-> Or(o.link_ip, link.ip),
       port |-> Or(o.link_port, link.port), kbps |-> Or(o.max_kbps, link.kbps)]
-----------------------------------------------------------------------------
(* apply_override, by where it returns.                                    *)

KnownLink(o) == o.active_link = None \/ o.active_link \in DOMAIN cfg.links
GoodChunkSize(o) == o.chunk_size = None \/ o.chunk_size \in ChunkSizes

RejectLink(o) ==
  /\ ~KnownLink(o)
  /\ UNCHANGED <<file, events, watching, cfg, ov, rate, out>>

RejectChunkSize(o) ==
  /\ KnownLink(o) /\ ~GoodChunkSize(o)
  /\ ov' = [ov EXCEPT !.active_link = Or(o.active_link, @)]
  /\ UNCHANGED <<file, events, watching, cfg, rate, out>>

\* Mutated form: any chunk size is taken.
AcceptUnchecked(o) ==
  /\ KnownLink(o)
  /\ ov' = [f \in Fields |-> Or(o[f], ov[f])]
  /\ rate' = CurrentLink(cfg, ov').kbps
  /\ UNCHANGED <<file, events, watching, cfg, out>>

\* Mutated form: the limiter is given the message's cap, set or not.
AcceptMessageRate(o) ==
  /\ KnownLink(o) /\ GoodChunkSize(o)
  /\ ov' = [f \in Fields |-> Or(o[f], ov[f])]
  /\ rate' = o.max_kbps
  /\ UNCHANGED <<file, events, watching, cfg, out>>

Accept(o) ==
  /\ KnownLink(o) /\ GoodChunkSize(o)
  /\ ov' = [f \in Fields |-> Or(o[f], ov[f])]
  /\ rate' = CurrentLink(cfg, ov').kbps
  /\ UNCHANGED <<file, events, watching, cfg, out>>
-----------------------------------------------------------------------------
\* send_next's use of the settings: pace, then send_to.
Send ==
  /\ rate' = CurrentLink(cfg, ov).kbps
  /\ out' = CurrentLink(cfg, ov)
  /\ UNCHANGED <<file, events, watching, cfg, ov>>

\* The operator saves the file; notify queues an event.
EditFile(c) ==
  /\ c # file
  /\ file' = c
  /\ events' = watching
  /\ UNCHANGED <<watching, cfg, ov, rate, out>>

\* The watch thread takes an event: an invalid file is logged, not applied.
Reload ==
  /\ watching /\ events
  /\ events' = FALSE
  /\ cfg' = IF Valid(file) THEN file ELSE cfg
  /\ UNCHANGED <<file, watching, ov, rate, out>>

\* recv_timeout(5 s) returns Err and ends the `while let`: the thread is done.
WatchTimeout ==
  /\ watching /\ ~events
  /\ watching' = FALSE
  /\ UNCHANGED <<file, events, cfg, ov, rate, out>>

Configure(o) == RejectLink(o) \/ RejectChunkSize(o) \/ Accept(o)

Next ==
  \/ \E o \in Overrides : Configure(o)
  \/ Send
  \/ \E c \in Configs : EditFile(c)
  \/ Reload
  \/ WatchTimeout

Spec == Init /\ [][Next]_vars

\* The watch thread runs while it is alive.
FairSpec == Spec /\ WF_vars(Reload)
-----------------------------------------------------------------------------
\* Type invariant.
TypeOK ==
  /\ file \in Configs /\ cfg \in Configs
  /\ events \in BOOLEAN /\ watching \in BOOLEAN
  /\ DOMAIN ov = Fields
  /\ rate \in Nat

\* Whatever mix of edits, reloads and overrides, the settings a packet is made
\* with are usable: Chunker::open accepts the chunk size and there is a link.
SettingsUsable ==
  /\ CurrentChunkSize(cfg, ov) \in ChunkSizes
  /\ DOMAIN cfg.links # {}

\* A valid edit of the file, if it is not edited again, goes live: "changes
\* apply within ~1 second without a restart".
EditsGoLive == []<>(cfg = file \/ ~Valid(file))
=============================================================================
