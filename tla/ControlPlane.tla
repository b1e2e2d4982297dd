---------------------------- MODULE ControlPlane -----------------------------
(***************************************************************************)
(* How requests reach the sender: clients that call and give up after five *)
(* seconds, one task per connection, the mutex around the handler that all *)
(* connections share, and the mutex around the runtime that the handler    *)
(* shares with the main loop.  LinkSettings says what a SenderConfigure    *)
(* does once it is handled; here it is handled while the loop is somewhere *)
(* in a packet and the watch thread reloads the file.                      *)
(*                                                                         *)
(* Both mutexes are tokio's: first come, first served.  A queue holds who  *)
(* has the lock and then who waits for it.                                 *)
(***************************************************************************)
EXTENDS LinkSettings, Sequences

CONSTANTS
  Clients,        \* `parachuter ctl` processes and the cleaner
  MaxCalls        \* bound: [Clients -> number of calls]

ASSUME ControlPlaneAssumption == MaxCalls \in [Clients -> Nat] /\ IsFiniteSet(Clients)

VARIABLES
  calls,          \* how many calls a client has made
  waiting,        \* the clients that wait for an answer
  inbox,          \* requests [client, n, msg] written, not yet read
  handlerq,       \* requests at the handler's mutex
  runtimeq,       \* "loop" and "task", at the runtime's mutex
  pc,             \* where the main loop is
  size,           \* the chunk size it has read; the link it has read is `out`
  served          \* history: which of its calls took effect last, per client

plane == <<calls, waiting, inbox, handlerq, runtimeq, served>>
loop == <<pc, size>>
allvars == <<vars, plane, loop>>

PlaneInit ==
  /\ Init
  /\ calls = [c \in Clients |-> 0]
  /\ waiting = {}
  /\ inbox = {}
  /\ handlerq = <<>> /\ runtimeq = <<>>
  /\ pc = "between"
  /\ size = None
  /\ served = [c \in Clients |-> 0]
-----------------------------------------------------------------------------
(* Clients.                                                                *)

\* ControlClient::call: connect on a connection of its own, and write.
Call(c, o) ==
  /\ c \notin waiting
  /\ calls[c] < MaxCalls[c]
  /\ calls' = [calls EXCEPT ![c] = @ + 1]
  /\ waiting' = waiting \cup {c}
  /\ inbox' = inbox \cup {[client |-> c, n |-> calls'[c], msg |-> o]}
  /\ UNCHANGED <<vars, handlerq, runtimeq, served, loop>>

\* The five seconds are over; the task goes on all the same.  They are long
\* enough for it to have read the request.
CallTimesOut(c) ==
  /\ c \in waiting
  /\ \A r \in inbox : r.client # c
  /\ waiting' = waiting \ {c}
  /\ UNCHANGED <<vars, calls, inbox, handlerq, runtimeq, served, loop>>
-----------------------------------------------------------------------------
(* Connection tasks.                                                       *)

\* Mutated form: a lock that the last to come gets first.
ReadRequestLifo(r) ==
  /\ r \in inbox
  /\ inbox' = inbox \ {r}
  /\ handlerq' = IF handlerq = <<>> THEN <<r>>
                 ELSE <<Head(handlerq), r>> \o Tail(handlerq)
  /\ UNCHANGED <<vars, calls, waiting, runtimeq, served, loop>>

\* handle_conn has read a request: handler.lock()
ReadRequest(r) ==
  /\ r \in inbox
  /\ inbox' = inbox \ {r}
  /\ handlerq' = Append(handlerq, r)
  /\ UNCHANGED <<vars, calls, waiting, runtimeq, served, loop>>

\* ControlAdapter::handle: self.rt.lock()
LockRuntime ==
  /\ handlerq # <<>>
  /\ "task" \notin {runtimeq[k] : k \in DOMAIN runtimeq}
  /\ runtimeq' = Append(runtimeq, "task")
  /\ UNCHANGED <<vars, calls, waiting, inbox, handlerq, served, loop>>

\* The request is carried out, both locks are dropped, and the answer is written
\* to whoever still waits for it.
Answer(r) ==
  /\ handlerq' = Tail(handlerq)
  /\ waiting' = IF calls[r.client] = r.n THEN waiting \ {r.client} ELSE waiting
  /\ served' = [served EXCEPT ![r.client] = r.n]
  /\ UNCHANGED <<calls, inbox, loop>>

\* Mutated form: the handler does not wait for the runtime's mutex.
HandleUnlocked ==
  /\ "task" \in {runtimeq[k] : k \in DOMAIN runtimeq}
  /\ Configure(Head(handlerq).msg)
  /\ runtimeq' = SelectSeq(runtimeq, LAMBDA t : t # "task")
  /\ Answer(Head(handlerq))

Handle ==
  /\ runtimeq # <<>> /\ Head(runtimeq) = "task"
  /\ Configure(Head(handlerq).msg)
  /\ runtimeq' = Tail(runtimeq)
  /\ Answer(Head(handlerq))
-----------------------------------------------------------------------------
(* The main loop.                                                          *)

\* Mutated form: a lock that its last holder may take again before the others.
LoopLocksFirst ==
  /\ pc = "between"
  /\ runtimeq' = <<"loop">> \o runtimeq
  /\ pc' = "locked"
  /\ UNCHANGED <<vars, calls, waiting, inbox, handlerq, served, size>>

LoopLocks ==
  /\ pc = "between"
  /\ runtimeq' = Append(runtimeq, "loop")
  /\ pc' = "locked"
  /\ UNCHANGED <<vars, calls, waiting, inbox, handlerq, served, size>>

Holding(at) == pc = at /\ Head(runtimeq) = "loop"

\* send_next finds nothing to send, or tick's second part tops up the queue.
NothingSent ==
  /\ Holding("locked")
  /\ runtimeq' = Tail(runtimeq)
  /\ pc' = "between"
  /\ UNCHANGED <<vars, calls, waiting, inbox, handlerq, served, size>>

ReadChunkSize ==
  /\ Holding("locked")
  /\ size' = CurrentChunkSize(cfg, ov)
  /\ pc' = "link"
  /\ UNCHANGED <<vars, plane>>

\* current_link looks at the live config a second time.
ReadLink ==
  /\ Holding("link")
  /\ Send
  /\ pc' = "acquire"
  /\ UNCHANGED <<plane, size>>

\* acquire has returned and the packet is sent.
Transmit ==
  /\ Holding("acquire")
  /\ size' = None
  /\ runtimeq' = Tail(runtimeq)
  /\ pc' = "between"
  /\ UNCHANGED <<vars, calls, waiting, inbox, handlerq, served>>
-----------------------------------------------------------------------------
Tasks == \/ \E r \in inbox : ReadRequest(r)
         \/ LockRuntime
         \/ Handle

Loop == LoopLocks \/ NothingSent \/ ReadChunkSize \/ ReadLink \/ Transmit

Watcher ==
  /\ \/ \E c \in Configs : EditFile(c)
     \/ Reload
     \/ WatchTimeout
  /\ UNCHANGED <<plane, loop>>

PlaneNext ==
  \/ \E c \in Clients : CallTimesOut(c) \/ \E o \in Overrides : Call(c, o)
  \/ Tasks
  \/ Loop
  \/ Watcher

PlaneSpec == PlaneInit /\ [][PlaneNext]_allvars

\* Every task of the runtime is polled; acquire returns (see RateLimiter).
FairPlane ==
  /\ PlaneSpec
  /\ WF_allvars(Tasks)
  /\ WF_allvars(Loop)
-----------------------------------------------------------------------------
\* The calls of one client take effect in the order it makes them, although it
\* may have been told that the earlier one timed out, the answer to which is yet
\* to come, and each is a connection and a task of its own.
EffectsInOrder == [][\A c \in Clients : served'[c] >= served[c]]_allvars

\* A packet goes out as configured when it goes out, not as it was when it was
\* taken from the queue: no override is answered with "ok" between reading the
\* settings and sending, and the limiter has been given the cap of the link the
\* packet is sent to.  Where nothing is overridden, its link is one that the
\* file has or had, as a whole.
AsConfigured ==
  [][pc = "acquire" /\ pc' = "between" =>
       /\ size = Or(ov.chunk_size, size)
       /\ \E c \in Configs : Valid(c) /\ out = CurrentLink(c, ov)
       /\ rate = out.kbps]_allvars

\* Every request that was written is carried out, also one nobody waits for any
\* more: neither the other clients nor a loop that is never without a packet can
\* keep it from the locks.  (MaxCalls is what makes the calls come to an end.)
Served == []<>(\A c \in Clients : served[c] = calls[c])
=============================================================================
