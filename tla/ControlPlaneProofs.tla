-------------------------- MODULE ControlPlaneProofs --------------------------
(***************************************************************************)
(* The control plane for any number of clients and calls, any config files *)
(* and any messages: the settings in force are usable, a client's calls    *)
(* take effect in order, and a packet leaves as configured.                *)
(***************************************************************************)
EXTENDS ControlPlane, Recursion

\* The file in force passed validate, and so did an overridden chunk size.
Usable ==
  /\ file \in Configs
  /\ cfg \in Configs /\ Valid(cfg)
  /\ DOMAIN ov = Fields
  /\ ov.chunk_size \in ChunkSizes \cup {None}

\* Who is at the runtime's mutex: the loop and one task at most, each once.
LockStates == {<<>>, <<"loop">>, <<"task">>, <<"loop", "task">>, <<"task", "loop">>}

\* The loop is at the mutex unless it is between two ticks, and has it from when
\* it reads the first setting of a packet.
Locks ==
  /\ runtimeq \in LockStates
  /\ pc \in {"between", "locked", "link", "acquire"}
  /\ pc = "between" => runtimeq \in {<<>>, <<"task">>}
  /\ pc = "locked" => runtimeq \in {<<"loop">>, <<"loop", "task">>, <<"task", "loop">>}
  /\ pc \in {"link", "acquire"} => runtimeq \in {<<"loop">>, <<"loop", "task">>}

\* The settings a packet was given are those in force, or of an earlier file.
PacketOK ==
  /\ pc \in {"link", "acquire"} => size = Or(ov.chunk_size, size)
  /\ pc = "acquire" => /\ \E c \in Configs : Valid(c) /\ out = CurrentLink(c, ov)
                       /\ rate = out.kbps

SettingsInv == Usable /\ Locks /\ PacketOK

\* Requests on their way: well formed, and whoever has the runtime's mutex for a
\* request has the handler's too.
Messages == [client : Clients, n : Nat, msg : Overrides]

TaskQueued == runtimeq \in {<<"task">>, <<"loop", "task">>, <<"task", "loop">>}

Shape ==
  /\ calls \in [Clients -> Nat] /\ served \in [Clients -> Nat]
  /\ waiting \subseteq Clients
  /\ inbox \subseteq Messages
  /\ handlerq \in Seq(Messages)
  /\ TaskQueued => handlerq # <<>>


LEMMA SettingsInit == ASSUME PlaneInit PROVE SettingsInv
BY LinkSettingsAssumption
   DEF PlaneInit, Init, SettingsInv, Usable, Locks, LockStates, PacketOK, NoOverride, Fields

\* What a message does to the overrides.
LEMMA ConfigureUsable ==
  ASSUME Usable, NEW o \in Overrides, Configure(o)
  PROVE  Usable'
<1>1. o.chunk_size # None /\ GoodChunkSize(o) => o.chunk_size \in ChunkSizes
  BY DEF GoodChunkSize
<1>2. CASE RejectLink(o)
  BY <1>2 DEF RejectLink, Usable, Valid
<1>3. CASE RejectChunkSize(o)
  BY <1>3 DEF RejectChunkSize, Usable, Valid, Fields
<1>4. CASE Accept(o)
  <2>1. DOMAIN ov' = Fields /\ ov'.chunk_size = Or(o.chunk_size, ov.chunk_size)
    BY <1>4 DEF Accept, Fields
  <2> QED BY <1>1, <1>4, <2>1 DEF Accept, Usable, Valid, Or
<1> QED BY <1>2, <1>3, <1>4 DEF Configure

\* A queue of one takes a second.
LEMMA SecondInLine ==
  ASSUME NEW x, NEW y PROVE Append(<<y>>, x) = <<y, x>>
<1> DEFINE s == Append(<<y>>, x)
<1>1. <<y>> \in Seq({x, y}) /\ x \in {x, y} /\ Len(<<y>>) = 1
  OBVIOUS
<1>2. s \in Seq({x, y}) /\ Len(s) = 2
  BY <1>1
<1>3. s[1] = y /\ s[2] = x
  BY <1>1
<1> HIDE DEF s
<1>4. s = <<y, x>>
  BY <1>2, <1>3
<1> QED BY <1>4 DEF s

LEMMA Queueing ==
  /\ Append(<<>>, "loop") = <<"loop">> /\ Append(<<"task">>, "loop") = <<"task", "loop">>
  /\ Append(<<>>, "task") = <<"task">> /\ Append(<<"loop">>, "task") = <<"loop", "task">>
  /\ Tail(<<"loop">>) = <<>> /\ Tail(<<"loop", "task">>) = <<"task">>
  /\ Tail(<<"task">>) = <<>> /\ Tail(<<"task", "loop">>) = <<"loop">>
<1>1. /\ Append(<<>>, "loop") = <<"loop">> /\ Append(<<>>, "task") = <<"task">>
      /\ Tail(<<"loop">>) = <<>> /\ Tail(<<"loop", "task">>) = <<"task">>
      /\ Tail(<<"task">>) = <<>> /\ Tail(<<"task", "loop">>) = <<"loop">>
  OBVIOUS
<1> QED BY <1>1, SecondInLine

LEMMA Different ==
  /\ <<>> # <<"loop">> /\ <<>> # <<"task">>
  /\ <<>> # <<"loop", "task">> /\ <<>> # <<"task", "loop">>
  /\ <<"loop">> # <<"task">>
  /\ <<"loop">> # <<"loop", "task">> /\ <<"loop">> # <<"task", "loop">>
  /\ <<"task">> # <<"loop", "task">> /\ <<"task">> # <<"task", "loop">>
  /\ <<"loop", "task">> # <<"task", "loop">>
OBVIOUS

\* Steps that leave the settings alone.
LEMMA UsableSame == ASSUME Usable, UNCHANGED vars PROVE Usable'
BY DEF Usable, Valid, vars

LEMMA LocksSame == ASSUME Locks, UNCHANGED <<runtimeq, pc>> PROVE Locks'
BY DEF Locks

LEMMA PacketSame ==
  ASSUME PacketOK, UNCHANGED <<ov, rate, out, size, pc>>
  PROVE  PacketOK'
<1>1. \A c : CurrentLink(c, ov') = CurrentLink(c, ov)
  OBVIOUS
<1>2. size' = Or(ov'.chunk_size, size') <=> size = Or(ov.chunk_size, size)
  BY DEF Or
<1> QED BY <1>1, <1>2 DEF PacketOK

LEMMA NoPacket == ASSUME pc' \notin {"link", "acquire"} PROVE PacketOK'
BY DEF PacketOK

LEMMA SettingsNext ==
  ASSUME SettingsInv, Shape, [PlaneNext]_allvars
  PROVE  SettingsInv'
<1>0. Usable /\ Locks /\ PacketOK
  BY DEF SettingsInv
<1> SUFFICES Usable' /\ Locks' /\ PacketOK'
  BY DEF SettingsInv
<1>1. CASE UNCHANGED <<vars, runtimeq, loop>>
  BY <1>0, <1>1, UsableSame, LocksSame, PacketSame DEF vars, loop
<1>2. CASE LockRuntime
  <2>1. runtimeq \in {<<>>, <<"loop">>}
    <3>1. "task" \notin {runtimeq[k] : k \in DOMAIN runtimeq}
      BY <1>2 DEF LockRuntime
    <3> QED BY <1>0, <3>1 DEF Locks, LockStates
  <2>2. runtimeq' = Append(runtimeq, "task") /\ UNCHANGED <<vars, pc, size>>
    BY <1>2 DEF LockRuntime, loop
  <2>3. \/ runtimeq = <<>> /\ runtimeq' = <<"task">>
        \/ runtimeq = <<"loop">> /\ runtimeq' = <<"loop", "task">>
    BY <2>1, <2>2, Queueing
  <2>4. Locks'
    BY <1>0, <2>2, <2>3, Different DEF Locks, LockStates
  <2> QED BY <1>0, <2>2, <2>4, UsableSame, PacketSame DEF vars
<1>3. CASE Handle
  <2>1. runtimeq \in {<<"task">>, <<"task", "loop">>} /\ pc \in {"between", "locked"}
    BY <1>0, <1>3 DEF Handle, Locks, LockStates
  <2>2. Head(handlerq).msg \in Overrides
    <3>1. handlerq \in Seq(Messages) /\ handlerq # <<>>
      BY <2>1 DEF Shape, TaskQueued
    <3>2. Head(handlerq) \in Messages
      BY <3>1
    <3> QED BY <3>2 DEF Messages
  <2>3. Usable'
    BY <1>0, <1>3, <2>2, ConfigureUsable DEF Handle
  <2>4. runtimeq' = Tail(runtimeq) /\ pc' = pc
    BY <1>3 DEF Handle, Answer, loop
  <2>5. \/ runtimeq = <<"task">> /\ runtimeq' = <<>>
        \/ runtimeq = <<"task", "loop">> /\ runtimeq' = <<"loop">>
    BY <2>1, <2>4, Queueing
  <2>6. Locks'
    BY <1>0, <2>1, <2>4, <2>5, Different DEF Locks, LockStates
  <2> QED BY <2>1, <2>3, <2>4, <2>6, NoPacket
<1>4. CASE LoopLocks
  <2>1. pc = "between" /\ pc' = "locked" /\ runtimeq' = Append(runtimeq, "loop") /\ UNCHANGED vars
    BY <1>4 DEF LoopLocks
  <2>2. Locks'
    BY <1>0, <2>1, Queueing DEF Locks, LockStates
  <2> QED BY <1>0, <2>1, <2>2, UsableSame, NoPacket
<1>5. CASE NothingSent \/ Transmit
  <2>1. /\ pc \in {"locked", "acquire"} /\ Head(runtimeq) = "loop"
        /\ pc' = "between" /\ runtimeq' = Tail(runtimeq) /\ UNCHANGED vars
    BY <1>5 DEF NothingSent, Transmit, Holding
  <2>2. runtimeq \in {<<"loop">>, <<"loop", "task">>}
    BY <1>0, <2>1 DEF Locks
  <2>3. Locks'
    BY <2>1, <2>2, Queueing DEF Locks, LockStates
  <2> QED BY <1>0, <2>1, <2>3, UsableSame, NoPacket
<1>6. CASE ReadChunkSize
  <2>1. /\ pc = "locked" /\ Head(runtimeq) = "loop" /\ pc' = "link"
        /\ size' = CurrentChunkSize(cfg, ov) /\ UNCHANGED <<vars, runtimeq>>
    BY <1>6 DEF ReadChunkSize, Holding, plane
  <2>2. Locks'
    BY <1>0, <2>1 DEF Locks
  <2>3. PacketOK'
    BY <2>1 DEF PacketOK, CurrentChunkSize, Or, vars
  <2> QED BY <1>0, <2>1, <2>2, <2>3, UsableSame
<1>7. CASE ReadLink
  <2>1. /\ pc = "link" /\ pc' = "acquire" /\ UNCHANGED <<runtimeq, size, file, cfg, ov>>
        /\ out' = CurrentLink(cfg, ov) /\ rate' = CurrentLink(cfg, ov).kbps
    BY <1>7 DEF ReadLink, Send, Holding, plane
  <2>2. Locks' /\ Usable'
    BY <1>0, <2>1 DEF Locks, Usable, Valid
  <2>3. cfg \in Configs /\ Valid(cfg)
    BY <1>0 DEF Usable
  <2>4. out' = CurrentLink(cfg, ov') /\ rate' = out'.kbps
    BY <2>1
  <2>5. size' = Or(ov'.chunk_size, size')
    BY <1>0, <2>1 DEF PacketOK, Or
  <2>6. PacketOK'
    BY <2>1, <2>3, <2>4, <2>5 DEF PacketOK
  <2> QED BY <2>2, <2>6
<1>8. CASE Watcher
  <2>1. Usable'
    BY <1>0, <1>8 DEF Watcher, EditFile, Reload, WatchTimeout, Usable, Valid
  <2>2. UNCHANGED <<ov, rate, out, runtimeq, size, pc>>
    BY <1>8 DEF Watcher, EditFile, Reload, WatchTimeout, plane, loop
  <2> QED BY <1>0, <2>1, <2>2, LocksSame, PacketSame
<1>9. UNCHANGED allvars \/ (\E c \in Clients : CallTimesOut(c) \/ \E o \in Overrides : Call(c, o))
        \/ (\E r \in inbox : ReadRequest(r))
      => UNCHANGED <<vars, runtimeq, loop>>
  BY DEF allvars, plane, CallTimesOut, Call, ReadRequest
<1> QED
  BY <1>1, <1>2, <1>3, <1>4, <1>5, <1>6, <1>7, <1>8, <1>9 DEF PlaneNext, Tasks, Loop
-----------------------------------------------------------------------------
(* The order of a client's calls.                                          *)

\* Of one client at most one request is unread, its last; those at the handler's
\* mutex are older than it, in order, and younger than what took effect.
OrderOK ==
  /\ \A c \in Clients : served[c] <= calls[c]
  /\ \A r \in inbox : r.client \in waiting /\ r.n = calls[r.client] /\ served[r.client] < r.n
  /\ \A r, q \in inbox : r.client = q.client => r = q
  /\ \A k \in DOMAIN handlerq :
       served[handlerq[k].client] < handlerq[k].n /\ handlerq[k].n <= calls[handlerq[k].client]
  /\ \A j, k \in DOMAIN handlerq :
       j < k /\ handlerq[j].client = handlerq[k].client => handlerq[j].n < handlerq[k].n
  /\ \A r \in inbox : \A k \in DOMAIN handlerq :
       handlerq[k].client = r.client => handlerq[k].n < r.n

PlaneInv == SettingsInv /\ Shape /\ OrderOK

LEMMA OrderInit == ASSUME PlaneInit PROVE Shape /\ OrderOK
BY DEF PlaneInit, Shape, TaskQueued, OrderOK

LEMMA OrderSame ==
  ASSUME Shape, OrderOK, UNCHANGED <<calls, waiting, inbox, handlerq, served>>,
         TaskQueued' => TaskQueued
  PROVE  Shape' /\ OrderOK'
BY DEF Shape, OrderOK

LEMMA CallOrder ==
  ASSUME Shape, OrderOK, NEW c \in Clients, NEW o \in Overrides, Call(c, o)
  PROVE  Shape' /\ OrderOK'
<1> DEFINE new == [client |-> c, n |-> calls[c] + 1, msg |-> o]
<1>0. calls \in [Clients -> Nat] /\ served \in [Clients -> Nat] /\ inbox \subseteq Messages
      /\ handlerq \in Seq(Messages)
  BY DEF Shape
<1>1. /\ calls' = [calls EXCEPT ![c] = @ + 1] /\ waiting' = waiting \cup {c}
      /\ inbox' = inbox \cup {new} /\ UNCHANGED <<handlerq, runtimeq, served>>
  BY <1>0 DEF Call
<1>2. c \notin waiting
  BY DEF Call
<1>3. \A r \in inbox : r.client # c
  BY <1>2 DEF OrderOK
<1>4. new \in Messages
  BY <1>0 DEF Messages
<1>5. Shape'
  BY <1>0, <1>1, <1>4 DEF Shape, TaskQueued
<1>6. \A k \in DOMAIN handlerq : handlerq[k] \in Messages
  BY <1>0
<1>7. /\ \A x \in Clients : served'[x] <= calls'[x]
      /\ \A r \in inbox' : r.client \in waiting' /\ r.n = calls'[r.client] /\ served'[r.client] < r.n
  BY <1>0, <1>1, <1>3 DEF OrderOK, Messages
<1>8. \A r, q \in inbox' : r.client = q.client => r = q
  BY <1>1, <1>3 DEF OrderOK
<1>9. \A k \in DOMAIN handlerq' :
        /\ served'[handlerq'[k].client] < handlerq'[k].n
        /\ handlerq'[k].n <= calls'[handlerq'[k].client]
  BY <1>0, <1>1, <1>6 DEF OrderOK, Messages
<1>10. \A r \in inbox' : \A k \in DOMAIN handlerq' :
         handlerq'[k].client = r.client => handlerq'[k].n < r.n
  <2> SUFFICES ASSUME NEW r \in inbox', NEW k \in DOMAIN handlerq, handlerq[k].client = r.client
               PROVE  handlerq[k].n < r.n
    BY <1>1
  <2>1. CASE r \in inbox
    BY <2>1 DEF OrderOK
  <2>2. CASE r = new
    <3>1. handlerq[k].n \in Nat /\ handlerq[k].n <= calls[c] /\ calls[c] \in Nat
      BY <1>0, <1>6, <2>2 DEF OrderOK, Messages
    <3> QED BY <2>2, <3>1
  <2> QED BY <1>1, <2>1, <2>2
<1>11. \A j, k \in DOMAIN handlerq' :
         j < k /\ handlerq'[j].client = handlerq'[k].client => handlerq'[j].n < handlerq'[k].n
  BY <1>1 DEF OrderOK
<1> QED BY <1>5, <1>7, <1>8, <1>9, <1>10, <1>11 DEF OrderOK

LEMMA ReadOrder ==
  ASSUME Shape, OrderOK, NEW r \in inbox, ReadRequest(r)
  PROVE  Shape' /\ OrderOK'
<1>0. /\ calls \in [Clients -> Nat] /\ served \in [Clients -> Nat] /\ inbox \subseteq Messages
      /\ handlerq \in Seq(Messages) /\ r \in Messages
  BY DEF Shape
<1>1. /\ inbox' = inbox \ {r} /\ handlerq' = Append(handlerq, r)
      /\ UNCHANGED <<calls, waiting, runtimeq, served>>
  BY DEF ReadRequest
<1>2. /\ handlerq' \in Seq(Messages) /\ handlerq' # <<>>
      /\ DOMAIN handlerq' = 1 .. Len(handlerq) + 1 /\ Len(handlerq) \in Nat
      /\ handlerq'[Len(handlerq) + 1] = r
      /\ \A k \in 1 .. Len(handlerq) : handlerq'[k] = handlerq[k]
  BY <1>0, <1>1
<1>3. DOMAIN handlerq = 1 .. Len(handlerq)
  BY <1>0
<1>4. Shape'
  BY <1>0, <1>1, <1>2 DEF Shape
<1>5. \A q \in inbox' : q.client # r.client
  BY <1>1 DEF OrderOK
<1>6. \A k \in DOMAIN handlerq' : k \in DOMAIN handlerq \/ k = Len(handlerq) + 1
  BY <1>2, <1>3
<1>7. \A k \in DOMAIN handlerq' :
        /\ served'[handlerq'[k].client] < handlerq'[k].n
        /\ handlerq'[k].n <= calls'[handlerq'[k].client]
  BY <1>0, <1>1, <1>2, <1>3, <1>6 DEF OrderOK, Messages
<1>8. \A j, k \in DOMAIN handlerq' :
        j < k /\ handlerq'[j].client = handlerq'[k].client => handlerq'[j].n < handlerq'[k].n
  <2> SUFFICES ASSUME NEW j \in DOMAIN handlerq', NEW k \in DOMAIN handlerq', j < k,
                      handlerq'[j].client = handlerq'[k].client
               PROVE  handlerq'[j].n < handlerq'[k].n
    OBVIOUS
  <2>1. j \in DOMAIN handlerq
    BY <1>2, <1>3
  <2>2. CASE k \in DOMAIN handlerq
    BY <1>2, <1>3, <2>1, <2>2 DEF OrderOK
  <2>3. CASE k = Len(handlerq) + 1
    BY <1>2, <1>3, <2>1, <2>3 DEF OrderOK
  <2> QED BY <1>6, <2>2, <2>3
<1>9. \A q \in inbox' : \A k \in DOMAIN handlerq' :
        handlerq'[k].client = q.client => handlerq'[k].n < q.n
  BY <1>1, <1>2, <1>3, <1>5, <1>6 DEF OrderOK
<1>10. \A q, p \in inbox' : q.client = p.client => q = p
  BY <1>1 DEF OrderOK
<1>11. \A q \in inbox' : q.client \in waiting' /\ q.n = calls'[q.client] /\ served'[q.client] < q.n
  BY <1>1 DEF OrderOK
<1>12. \A c \in Clients : served'[c] <= calls'[c]
  BY <1>1 DEF OrderOK
<1> QED BY <1>4, <1>7, <1>8, <1>9, <1>10, <1>11, <1>12 DEF OrderOK

LEMMA HandleOrder ==
  ASSUME Locks, Shape, OrderOK, Handle
  PROVE  /\ Shape' /\ OrderOK'
         /\ \A c \in Clients : served'[c] >= served[c]
<1> DEFINE r == Head(handlerq)
<1>1. /\ runtimeq # <<>> /\ Head(runtimeq) = "task" /\ runtimeq' = Tail(runtimeq)
      /\ handlerq' = Tail(handlerq) /\ waiting' \in {waiting \ {r.client}, waiting}
      /\ calls[r.client] # r.n => waiting' = waiting
      /\ served' = [served EXCEPT ![r.client] = r.n] /\ UNCHANGED <<calls, inbox>>
  BY DEF Handle, Answer
<1>2. runtimeq' \in {<<>>, <<"loop">>} /\ TaskQueued
  <2>1. runtimeq \in {<<"task">>, <<"task", "loop">>}
    BY <1>1 DEF Locks, LockStates
  <2> QED BY <1>1, <2>1, Queueing DEF TaskQueued
<1>3. /\ calls \in [Clients -> Nat] /\ served \in [Clients -> Nat] /\ inbox \subseteq Messages
      /\ handlerq \in Seq(Messages) /\ handlerq # <<>> /\ waiting \subseteq Clients
  BY <1>2 DEF Shape
<1>4. /\ r \in Messages /\ r = handlerq[1] /\ 1 \in DOMAIN handlerq
      /\ handlerq' \in Seq(Messages) /\ Len(handlerq) \in Nat /\ DOMAIN handlerq = 1 .. Len(handlerq)
      /\ DOMAIN handlerq' = 1 .. Len(handlerq) - 1
      /\ \A k \in 1 .. Len(handlerq) - 1 : handlerq'[k] = handlerq[k + 1]
  BY <1>1, <1>3
<1> HIDE DEF r
<1>5. r.client \in Clients /\ r.n \in Nat /\ served[r.client] < r.n /\ r.n <= calls[r.client]
  BY <1>4 DEF OrderOK, Messages
<1>6. /\ served' \in [Clients -> Nat] /\ served'[r.client] = r.n
      /\ \A c \in Clients : c # r.client => served'[c] = served[c]
  BY <1>1, <1>3, <1>5
<1>7. \A c \in Clients : served'[c] >= served[c] /\ served'[c] <= calls'[c]
  BY <1>1, <1>3, <1>5, <1>6 DEF OrderOK
<1>8. Shape'
  BY <1>1, <1>2, <1>3, <1>4, <1>6, Different DEF Shape, TaskQueued
<1>9. \A q \in inbox' : q.client \in waiting' /\ q.n = calls'[q.client] /\ served'[q.client] < q.n
  <2> SUFFICES ASSUME NEW q \in inbox
               PROVE  q.client \in waiting' /\ q.n = calls[q.client] /\ served'[q.client] < q.n
    BY <1>1
  <2>1. q.client \in Clients /\ q.client \in waiting /\ q.n = calls[q.client] /\ served[q.client] < q.n
    BY <1>3 DEF OrderOK, Messages
  <2>2. CASE q.client = r.client
    <3>1. r.n < q.n
      BY <1>4, <2>2 DEF OrderOK
    <3> QED BY <1>1, <1>3, <1>5, <1>6, <2>1, <2>2, <3>1
  <2>3. CASE q.client # r.client
    BY <1>1, <1>6, <2>1, <2>3
  <2> QED BY <2>2, <2>3
<1>10. \A k \in DOMAIN handlerq' : k + 1 \in DOMAIN handlerq /\ handlerq'[k] = handlerq[k + 1]
                                   /\ handlerq[k + 1] \in Messages /\ 1 < k + 1
  BY <1>3, <1>4
<1>11. \A k \in DOMAIN handlerq' :
         /\ served'[handlerq'[k].client] < handlerq'[k].n
         /\ handlerq'[k].n <= calls'[handlerq'[k].client]
  <2> SUFFICES ASSUME NEW k \in DOMAIN handlerq'
               PROVE  /\ served'[handlerq[k + 1].client] < handlerq[k + 1].n
                      /\ handlerq[k + 1].n <= calls[handlerq[k + 1].client]
    BY <1>1, <1>10
  <2>1. /\ served[handlerq[k + 1].client] < handlerq[k + 1].n
        /\ handlerq[k + 1].n <= calls[handlerq[k + 1].client]
    BY <1>10 DEF OrderOK
  <2>2. handlerq[k + 1].client = r.client => r.n < handlerq[k + 1].n
    BY <1>4, <1>10 DEF OrderOK
  <2>3. handlerq[k + 1].client \in Clients
    BY <1>10 DEF Messages
  <2> QED BY <1>6, <2>1, <2>2, <2>3
<1>12. \A j, k \in DOMAIN handlerq' :
         j < k /\ handlerq'[j].client = handlerq'[k].client => handlerq'[j].n < handlerq'[k].n
  <2> SUFFICES ASSUME NEW j \in DOMAIN handlerq', NEW k \in DOMAIN handlerq', j < k,
                      handlerq'[j].client = handlerq'[k].client
               PROVE  handlerq'[j].n < handlerq'[k].n
    OBVIOUS
  <2>1. j + 1 < k + 1
    BY <1>4
  <2> QED BY <1>10, <2>1 DEF OrderOK
<1>13. \A q \in inbox' : \A k \in DOMAIN handlerq' :
         handlerq'[k].client = q.client => handlerq'[k].n < q.n
  BY <1>1, <1>10 DEF OrderOK
<1>14. \A q, p \in inbox' : q.client = p.client => q = p
  BY <1>1 DEF OrderOK
<1> QED BY <1>7, <1>8, <1>9, <1>11, <1>12, <1>13, <1>14 DEF OrderOK

\* Every step keeps the order, and only Handle has an effect.
LEMMA OrderNext ==
  ASSUME Locks, Shape, OrderOK, [PlaneNext]_allvars
  PROVE  /\ Shape' /\ OrderOK'
         /\ \A c \in Clients : served'[c] >= served[c]
<1>0. served \in [Clients -> Nat]
  BY DEF Shape
<1>1. CASE Handle
  BY <1>1, HandleOrder
<1>2. ASSUME NEW r \in inbox, ReadRequest(r) PROVE Shape' /\ OrderOK' /\ served' = served
  BY <1>2, ReadOrder DEF ReadRequest
<1>3. ASSUME NEW c \in Clients, NEW o \in Overrides, Call(c, o)
      PROVE  Shape' /\ OrderOK' /\ served' = served
  BY <1>3, CallOrder DEF Call
<1>4. ASSUME NEW c \in Clients, CallTimesOut(c) PROVE Shape' /\ OrderOK' /\ served' = served
  <2>1. /\ waiting' = waiting \ {c} /\ \A r \in inbox : r.client # c
        /\ UNCHANGED <<calls, inbox, handlerq, runtimeq, served>>
    BY <1>4 DEF CallTimesOut
  <2>2. Shape'
    BY <2>1 DEF Shape, TaskQueued
  <2>3. OrderOK'
    BY <2>1 DEF OrderOK
  <2> QED BY <2>1, <2>2, <2>3
<1>5. CASE LockRuntime
  <2>1. handlerq # <<>> /\ UNCHANGED <<calls, waiting, inbox, handlerq, served>>
    BY <1>5 DEF LockRuntime
  <2>2. Shape'
    BY <2>1 DEF Shape
  <2>3. OrderOK'
    BY <2>1 DEF OrderOK
  <2> QED BY <1>0, <2>1, <2>2, <2>3
<1>6. CASE LoopLocks
  <2>1. pc = "between" /\ runtimeq' = Append(runtimeq, "loop")
        /\ UNCHANGED <<calls, waiting, inbox, handlerq, served>>
    BY <1>6 DEF LoopLocks
  <2>2. runtimeq \in {<<>>, <<"task">>}
    BY <2>1 DEF Locks
  <2>3. TaskQueued' => TaskQueued
    BY <2>1, <2>2, Queueing, Different DEF TaskQueued
  <2> QED BY <1>0, <2>1, <2>3, OrderSame
<1>7. CASE NothingSent \/ Transmit
  <2>1. pc # "between" /\ Head(runtimeq) = "loop" /\ runtimeq' = Tail(runtimeq)
        /\ UNCHANGED <<calls, waiting, inbox, handlerq, served>>
    BY <1>7 DEF NothingSent, Transmit, Holding
  <2>2. runtimeq \in {<<"loop">>, <<"loop", "task">>}
    BY <2>1 DEF Locks
  <2>3. TaskQueued' => TaskQueued
    BY <2>1, <2>2, Queueing, Different DEF TaskQueued
  <2> QED BY <1>0, <2>1, <2>3, OrderSame
<1>8. CASE ReadChunkSize \/ ReadLink \/ Watcher \/ UNCHANGED allvars
  <2>1. UNCHANGED <<calls, waiting, inbox, handlerq, runtimeq, served>>
    BY <1>8 DEF ReadChunkSize, ReadLink, Watcher, plane, allvars
  <2>2. TaskQueued' => TaskQueued
    BY <2>1 DEF TaskQueued
  <2> QED BY <1>0, <2>1, <2>2, OrderSame
<1> QED
  BY <1>0, <1>1, <1>2, <1>3, <1>4, <1>5, <1>6, <1>7, <1>8 DEF PlaneNext, Tasks, Loop
-----------------------------------------------------------------------------
LEMMA PlaneInvHolds == PlaneSpec => []PlaneInv
<1>1. PlaneInit => PlaneInv
  BY SettingsInit, OrderInit DEF PlaneInv
<1>2. PlaneInv /\ [PlaneNext]_allvars => PlaneInv'
  BY SettingsNext, OrderNext DEF PlaneInv, SettingsInv
<1> QED BY <1>1, <1>2, PTL DEF PlaneSpec

\* Whatever is edited, reloaded and poked in, in whatever order: send_next has a
\* link and a chunk size that Chunker::open accepts.
THEOREM AlwaysUsable == PlaneSpec => []SettingsUsable
<1>1. PlaneInv => SettingsUsable
  BY DEF PlaneInv, SettingsInv, Usable, Valid, SettingsUsable, CurrentChunkSize, Or
<1> QED BY <1>1, PlaneInvHolds, PTL

\* The calls of a client take effect in the order they are made, for any number
\* of clients and calls and although any of them may time out.
THEOREM CallsInOrder == PlaneSpec => EffectsInOrder
<1>1. PlaneInv /\ [PlaneNext]_allvars => [\A c \in Clients : served'[c] >= served[c]]_allvars
  BY OrderNext DEF PlaneInv, SettingsInv
<1> QED BY <1>1, PlaneInvHolds, PTL DEF PlaneSpec, EffectsInOrder

\* A packet leaves with the overrides in force when it leaves and with one link
\* of one valid file, paced for it.
THEOREM PacketsAsConfigured == PlaneSpec => AsConfigured
<1> DEFINE A == pc = "acquire" /\ pc' = "between" =>
                  /\ size = Or(ov.chunk_size, size)
                  /\ \E c \in Configs : Valid(c) /\ out = CurrentLink(c, ov)
                  /\ rate = out.kbps
<1>1. PlaneInv => A
  BY DEF PlaneInv, SettingsInv, PacketOK
<1>2. PlaneInv /\ [PlaneNext]_allvars => [A]_allvars
  BY <1>1
<1> QED BY <1>2, PlaneInvHolds, PTL DEF PlaneSpec, AsConfigured
-----------------------------------------------------------------------------
(* The rate the limiter is given.                                          *)

Capped(o) == o.max_kbps \in Nat \cup {None}

\* Of a valid file there is always a link to send on, under a key that is not
\* in it any more too, and its rate or the override's is a number.
LEMMA LinkHasRate ==
  ASSUME NEW c \in Configs, Valid(c), NEW o, Capped(o)
  PROVE  CurrentLink(c, o).kbps \in Nat
<1> DEFINE key == Or(o.active_link, c.active_link)
           first == CHOOSE k \in DOMAIN c.links : \A j \in DOMAIN c.links : k <= j
<1>1. DOMAIN c.links \subseteq Nat /\ DOMAIN c.links # {}
  BY LinkSettingsAssumption DEF Valid
<1>2. first \in DOMAIN c.links
  BY <1>1, Least
<1>3. LinkOf(c, key).kbps \in Nat
  <2>1. CASE key \in DOMAIN c.links
    BY <2>1, LinkSettingsAssumption DEF LinkOf
  <2>2. CASE key \notin DOMAIN c.links
    BY <1>2, <2>2, LinkSettingsAssumption DEF LinkOf
  <2> QED BY <2>1, <2>2
<1>4. CurrentLink(c, o).kbps = Or(o.max_kbps, LinkOf(c, key).kbps)
  BY DEF CurrentLink
<1> QED BY <1>3, <1>4 DEF Or, Capped

RateInv == events \in BOOLEAN /\ watching \in BOOLEAN /\ Capped(ov) /\ rate \in Nat

LEMMA RateInit == ASSUME PlaneInit PROVE RateInv
BY LinkSettingsAssumption DEF PlaneInit, Init, RateInv, Capped, NoOverride, Fields, Valid

LEMMA ConfigureRate ==
  ASSUME Usable, RateInv, NEW o \in Overrides, Configure(o)
  PROVE  RateInv'
<1>1. CASE RejectLink(o)
  BY <1>1 DEF RejectLink, RateInv, Capped
<1>2. CASE RejectChunkSize(o)
  BY <1>2 DEF RejectChunkSize, RateInv, Capped, Usable, Fields
<1>3. CASE Accept(o)
  <2>1. ov'.max_kbps = Or(o.max_kbps, ov.max_kbps)
    BY <1>3 DEF Accept, Fields
  <2>2. Capped(ov')
    BY <2>1, LinkSettingsAssumption DEF RateInv, Capped, Or
  <2>3. CurrentLink(cfg, ov').kbps \in Nat
    BY <2>2, LinkHasRate DEF Usable
  <2> QED BY <1>3, <2>2, <2>3 DEF Accept, RateInv
<1> QED BY <1>1, <1>2, <1>3 DEF Configure

LEMMA RateNext ==
  ASSUME PlaneInv, RateInv, [PlaneNext]_allvars
  PROVE  RateInv'
<1>0. Usable /\ Shape /\ Locks
  BY DEF PlaneInv, SettingsInv
<1>1. CASE UNCHANGED vars
  BY <1>1 DEF vars, RateInv, Capped
<1>2. CASE Handle
  <2>1. handlerq \in Seq(Messages) /\ handlerq # <<>>
    BY <1>0, <1>2 DEF Handle, Shape, TaskQueued, Locks, LockStates
  <2>2. Head(handlerq) \in Messages
    BY <2>1
  <2>3. Head(handlerq).msg \in Overrides
    BY <2>2 DEF Messages
  <2> QED BY <1>0, <1>2, <2>3, ConfigureRate DEF Handle
<1>3. CASE ReadLink
  <2>1. CurrentLink(cfg, ov).kbps \in Nat
    BY <1>0, LinkHasRate DEF RateInv, Usable
  <2> QED BY <1>3, <2>1 DEF ReadLink, Send, RateInv, Capped
<1>4. CASE Watcher
  BY <1>4 DEF Watcher, EditFile, Reload, WatchTimeout, RateInv, Capped
<1>5. UNCHANGED allvars \/ (\E c \in Clients : CallTimesOut(c) \/ \E o \in Overrides : Call(c, o))
        \/ (\E r \in inbox : ReadRequest(r)) \/ LockRuntime
        \/ LoopLocks \/ NothingSent \/ ReadChunkSize \/ Transmit
      => UNCHANGED vars
  BY DEF allvars, CallTimesOut, Call, ReadRequest, LockRuntime, LoopLocks, NothingSent,
         ReadChunkSize, Transmit
<1> QED BY <1>1, <1>2, <1>3, <1>4, <1>5 DEF PlaneNext, Tasks, Loop

\* The settings keep their shape, and whatever link an edit, a reload or an
\* override leaves in force, one that the file has dropped included, the limiter
\* is given a number.
THEOREM PlaneTypes == PlaneSpec => []TypeOK
<1>1. PlaneInit => RateInv
  BY RateInit
<1>2. PlaneInv /\ RateInv /\ [PlaneNext]_allvars => RateInv'
  BY RateNext
<1>3. PlaneInv /\ RateInv => TypeOK
  BY DEF PlaneInv, SettingsInv, Usable, RateInv, TypeOK
<1> QED BY <1>1, <1>2, <1>3, PlaneInvHolds, PTL DEF PlaneSpec
=============================================================================
