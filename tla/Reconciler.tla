----------------------------- MODULE Reconciler ------------------------------
(***************************************************************************)
(* Recovery of files that were lost whole: the cleaner's reconciliation    *)
(* pass (cleaner/reconciler.rs, reconcile.rs) over the newest ledger       *)
(* snapshot that landed, between the sender's ledger and queue and the     *)
(* receiver's directories.                                                 *)
(*                                                                         *)
(* A file is queued, held (partly received) or landed as a whole; how that *)
(* happens is in Sender, Reassembler and Cleaner.  Times are ages, counted *)
(* up to the largest that matters.  A unit of time is long against the     *)
(* reads of one pass (its requests are paced and may take longer).         *)
(***************************************************************************)
EXTENDS SnapshotCsv

CONSTANTS
  Files,
  Period,         \* reconcile_period_secs
  Grace,          \* reconcile_grace_secs
  None,
  Faults          \* see FaultKinds

FaultKinds ==
  {"unreachable",  \* the sender cannot be asked, or refuses
   "timeout",      \* the sender takes a request and its answer is lost
   "unreadable",   \* the snapshot or the holding directory cannot be read
   "force",        \* an operator asks for a pass (CleanerReconcileNow)
   "requeue",      \* an operator submits a file again
   "restart",      \* the sender restarts: its queue is lost
   "cut",          \* it restarts while it writes a ledger dump
   "delete",       \* files are deleted on the payload, and written again
   "kill"}         \* the cleaner is stopped, in a pass or between two

ASSUME ReconcilerAssumption ==
  /\ Period \in Nat \ {0} /\ Grace \in Nat \ {0}
  /\ Files \subseteq Nat /\ None \notin Nat
  /\ Faults \subseteq FaultKinds

VARIABLES
  exists,         \* files on the payload
  ledger,         \* file -> [still_exists, queued]; queued: age of queued_at
  queue,          \* files with anything in the sender's queue
  held,           \* files with an assembly in the holding directory
  landed,         \* files in the final directory
  snap,           \* the rows of the newest snapshot that landed, Malformed or None
  pc,             \* where the cleaner's loop is
  force,          \* force_reconcile
  rows,           \* the snapshot as it was read, until the plan is made
  in_flight,      \* GroundState.in_flight, as it was read
  pending,        \* GroundState.sender_pending, as it was read, or None
  missing,        \* files of the plan found Missing and not yet dealt with
  memory,         \* ReconcileState: [last_run: age, requested: file -> age]
  saved,          \* ReconcileState on disk
  asked           \* history: file -> age of the pass whose request for it was
                  \* last answered with Ok; if a pass is cut short, what the
                  \* state file says

payload == <<exists, ledger, queue>>
ground == <<held, landed, snap>>
pass == <<rows, in_flight, pending, missing>>
vars == <<payload, ground, pass, pc, force, memory, saved, asked>>

Put(f, x, v) == [y \in DOMAIN f \cup {x} |-> IF y = x THEN v ELSE f[y]]

NewState == [last_run |-> None, requested |-> <<>>]

Init ==
  /\ exists = {} /\ ledger = <<>> /\ queue = {}
  /\ held = {} /\ landed = {} /\ snap = None
  /\ pc = "idle" /\ force = FALSE
  /\ rows = None /\ in_flight = {} /\ pending = None /\ missing = {}
  /\ memory = NewState /\ saved = NewState
  /\ asked = <<>>
-----------------------------------------------------------------------------
(* The pass.                                                               *)

\* next_due_unix has passed; a pass that never ran is due.
Due == memory.last_run \in {None, Period}

\* Mutated form: a request is never forgotten.
RetainedAll(requested) == requested

\* requested.retain: forget what is a period old.
Retained(requested) ==
  [f \in {g \in DOMAIN requested : requested[g] < Period} |-> requested[f]]

\* `due || take(&mut force_reconcile)`; run() notes the time, which is also the
\* `now` of its comparisons, and reads the newest snapshot.
Begin ==
  /\ pc = "idle"
  /\ \/ Due /\ UNCHANGED force
     \/ ~Due /\ force /\ force' = FALSE
  /\ memory' = [memory EXCEPT !.last_run = 0]
  /\ rows' = snap
  /\ pc' = IF snap = None THEN "save" ELSE "held"
  /\ UNCHANGED <<payload, ground, in_flight, pending, missing, saved, asked>>

\* A `?` of run(): the pass ends early, with the time noted.
PassFails ==
  /\ pc = "held"
  /\ rows = Malformed \/ "unreadable" \in Faults
  /\ rows' = None
  /\ pc' = "save"
  /\ UNCHANGED <<payload, ground, in_flight, pending, missing, force, memory, saved, asked>>

ReadHolding ==
  /\ pc = "held" /\ rows # Malformed
  /\ in_flight' = held
  /\ pc' = "pending"
  /\ UNCHANGED <<payload, ground, rows, pending, missing, force, memory, saved, asked>>

AskPending ==
  /\ pc = "pending"
  /\ pending' = queue
  /\ pc' = "plan"
  /\ UNCHANGED <<payload, ground, rows, in_flight, missing, force, memory, saved, asked>>

\* No answer, or not a status: the queue is not known in this pass.
AskPendingFails ==
  /\ "unreachable" \in Faults
  /\ pc = "pending"
  /\ pending' = None
  /\ pc' = "plan"
  /\ UNCHANGED <<payload, ground, rows, in_flight, missing, force, memory, saved, asked>>

\* classify, for a row of the snapshot.
Verdict(f) ==
  IF f \in landed THEN "Complete"   \* or SizeMismatch: not requested either
  ELSE IF f \in in_flight THEN "InFlight"
  ELSE IF pending # None /\ f \in pending THEN "Queued"
  ELSE IF ~rows[f].still_exists THEN "GoneOnPayload"
  ELSE IF rows[f].queued < Grace THEN "TooRecent"
  ELSE "Missing"

MakePlan ==
  /\ pc = "plan"
  /\ missing' = {f \in DOMAIN rows : Verdict(f) = "Missing"}
  /\ rows' = None
  /\ memory' = [memory EXCEPT !.requested = Retained(@)]
  /\ pc' = "ask"
  /\ UNCHANGED <<payload, ground, in_flight, pending, force, saved, asked>>

\* Mutated form: what was requested is not looked up.
SkippedNever(f) == pending = None

\* A missing file that is not requested: the sender's queue is not known, or
\* it was requested this cycle.
Skipped(f) == pending = None \/ f \in DOMAIN memory.requested

SkipFile(f) ==
  /\ pc = "ask" /\ f \in missing
  /\ Skipped(f)
  /\ missing' = missing \ {f}
  /\ UNCHANGED <<payload, ground, rows, in_flight, pending, pc, force, memory, saved, asked>>

\* SenderEnqueue of the whole file: to the back of the queue, queued_at = now.
Enqueued(f) ==
  /\ queue' = queue \cup {f}
  /\ ledger' = [ledger EXCEPT ![f].queued = 0]

RequestFile(f) ==
  /\ pc = "ask" /\ f \in missing /\ ~Skipped(f)
  /\ Enqueued(f)
  /\ memory' = [memory EXCEPT !.requested = Put(@, f, memory.last_run)]
  /\ asked' = Put(asked, f, memory.last_run)
  /\ missing' = missing \ {f}
  /\ UNCHANGED <<exists, ground, rows, in_flight, pending, pc, force, saved>>

\* No Ok from the sender: "will retry next pass".
RequestFails(f) ==
  /\ "unreachable" \in Faults
  /\ pc = "ask" /\ f \in missing /\ ~Skipped(f)
  /\ missing' = missing \ {f}
  /\ UNCHANGED <<payload, ground, rows, in_flight, pending, pc, force, memory, saved, asked>>

\* No Ok either, but the sender did what it was asked.
RequestTimesOut(f) ==
  /\ "timeout" \in Faults
  /\ pc = "ask" /\ f \in missing /\ ~Skipped(f)
  /\ Enqueued(f)
  /\ missing' = missing \ {f}
  /\ UNCHANGED <<exists, ground, rows, in_flight, pending, pc, force, memory, saved, asked>>

EndOfPlan ==
  /\ pc = "ask" /\ missing = {}
  /\ pc' = "save"
  /\ UNCHANGED <<payload, ground, pass, force, memory, saved, asked>>

\* save, with what the pass read going out of scope.
Save ==
  /\ pc = "save"
  /\ saved' = memory
  /\ in_flight' = {} /\ pending' = None
  /\ pc' = "idle"
  /\ UNCHANGED <<payload, ground, rows, missing, force, memory, asked>>

\* CleanerReconcileNow, taken by the select! between passes.
ReconcileNow ==
  /\ "force" \in Faults
  /\ pc = "idle" /\ ~force
  /\ force' = TRUE
  /\ UNCHANGED <<payload, ground, pass, pc, memory, saved, asked>>

Stop ==
  /\ "kill" \in Faults /\ pc # "down"
  /\ pc' = "down" /\ force' = FALSE
  /\ rows' = None /\ in_flight' = {} /\ pending' = None /\ missing' = {}
  /\ memory' = NewState
  /\ asked' = IF pc = "idle" THEN asked ELSE saved.requested
  /\ UNCHANGED <<payload, ground, saved>>

\* ReconcileState::load
Start ==
  /\ pc = "down"
  /\ memory' = saved
  /\ pc' = "idle"
  /\ UNCHANGED <<payload, ground, pass, force, saved, asked>>
-----------------------------------------------------------------------------
(* The other daemons, as far as a pass can tell.                           *)

cleaner == <<pass, pc, force, memory, saved, asked>>

WriteFile(f) ==
  /\ f \notin exists
  /\ f \in DOMAIN ledger => "delete" \in Faults
  /\ exists' = exists \cup {f}
  /\ UNCHANGED <<ledger, queue, ground, cleaner>>

DeleteFile(f) ==
  /\ "delete" \in Faults
  /\ f \in exists
  /\ exists' = exists \ {f}
  /\ UNCHANGED <<ledger, queue, ground, cleaner>>

\* scan_for_work takes up a new file.
Scan(f) ==
  /\ f \in exists /\ f \notin DOMAIN ledger
  /\ ledger' = Put(ledger, f, [still_exists |-> TRUE, queued |-> 0])
  /\ queue' = queue \cup {f}
  /\ UNCHANGED <<exists, ground, cleaner>>

\* submit of a file the ledger knows: still_exists is left as it is.
Requeue(f) ==
  /\ "requeue" \in Faults
  /\ f \in exists /\ f \in DOMAIN ledger
  /\ Enqueued(f)
  /\ UNCHANGED <<exists, ground, cleaner>>

\* The last packet of f in the queue is sent.
Drain(f) ==
  /\ f \in queue /\ f \in exists
  /\ queue' = queue \ {f}
  /\ UNCHANGED <<exists, ledger, ground, cleaner>>

\* Mutated form: the row is deleted.
SendGoneForgets(f) ==
  /\ f \in queue /\ f \notin exists
  /\ ledger' = [g \in DOMAIN ledger \ {f} |-> ledger[g]]
  /\ queue' = queue \ {f}
  /\ UNCHANGED <<exists, ground, cleaner>>

\* f comes up for sending and is gone: a data item is dropped and the row
\* marked; a manifest item ends the process.
SendGone(f) ==
  /\ f \in queue /\ f \notin exists
  /\ \/ /\ ledger' = [ledger EXCEPT ![f].still_exists = FALSE]
        /\ queue' = queue \ {f}
     \/ UNCHANGED ledger /\ queue' = {}
  /\ UNCHANGED <<exists, ground, cleaner>>

RestartSender ==
  /\ "restart" \in Faults /\ queue # {}
  /\ queue' = {}
  /\ UNCHANGED <<exists, ledger, ground, cleaner>>

\* A packet of f arrives before f leaves the queue.
Arrive(f) ==
  /\ f \in queue /\ f \in exists /\ f \notin held \cup landed
  /\ held' = held \cup {f}
  /\ UNCHANGED <<payload, landed, snap, cleaner>>

\* The rest arrives, in the first pass or because the cleaner asks for it.
Land(f) ==
  /\ f \in held /\ f \in exists
  /\ held' = held \ {f} /\ landed' = landed \cup {f}
  /\ UNCHANGED <<payload, snap, cleaner>>

\* A ledger dump is written, sent and lands.
LandSnapshot ==
  /\ ledger # <<>> /\ snap # ledger
  /\ snap' = ledger
  /\ UNCHANGED <<payload, held, landed, cleaner>>

\* What parse_snapshot makes of a dump that ends at f's row (see CutShort): with
\* f's mark and times lost, it is there and was queued long ago.
CutAt(f) ==
  LET cut == [still_exists |-> TRUE, queued |-> Grace]
  IN  {[g \in {h \in DOMAIN ledger : h < f} |-> ledger[g]],
       [g \in {h \in DOMAIN ledger : h <= f} |-> IF g = f THEN cut ELSE ledger[g]]}

\* A dump that was cut short is found by the scan, sent, and lands.
LandCutSnapshot ==
  /\ "cut" \in Faults
  /\ ledger # <<>>
  /\ snap' \in {Malformed} \cup UNION {CutAt(f) : f \in DOMAIN ledger}
  /\ snap' # snap
  /\ UNCHANGED <<payload, held, landed, cleaner>>

Older(age, limit) == IF age \in Nat /\ age < limit THEN age + 1 ELSE age
OlderRows(t) ==
  [f \in DOMAIN t |-> [t[f] EXCEPT !.queued = Older(@, Grace)]]
OlderAll(requested) == [f \in DOMAIN requested |-> Older(requested[f], Period)]
OlderState(s) == [last_run |-> Older(s.last_run, Period),
                  requested |-> OlderAll(s.requested)]

Tick ==
  /\ pc \in {"idle", "down", "ask"}
  /\ ledger' = OlderRows(ledger)
  /\ snap' = IF snap \in {None, Malformed} THEN snap ELSE OlderRows(snap)
  /\ memory' = OlderState(memory) /\ saved' = OlderState(saved)
  /\ asked' = OlderAll(asked)
  /\ UNCHANGED <<exists, queue, held, landed, pass, pc, force>>
-----------------------------------------------------------------------------
Pass ==
  \/ Begin \/ PassFails \/ ReadHolding \/ AskPending \/ AskPendingFails \/ MakePlan \/ EndOfPlan \/ Save
  \/ \E f \in Files : SkipFile(f) \/ RequestFile(f) \/ RequestFails(f) \/ RequestTimesOut(f)

Others(f) ==
  \/ WriteFile(f) \/ DeleteFile(f) \/ Scan(f) \/ Requeue(f)
  \/ Drain(f) \/ SendGone(f) \/ Arrive(f) \/ Land(f)

Next ==
  \/ Pass \/ ReconcileNow \/ Stop \/ Start
  \/ \E f \in Files : Others(f)
  \/ RestartSender \/ LandSnapshot \/ LandCutSnapshot \/ Tick

Spec == Init /\ [][Next]_vars

\* The daemons run and time passes, however often passes are forced; what is
\* read, asked or sent over and over gets through in the end, a snapshot that is
\* up to date included.
FairSpec ==
  /\ Spec
  /\ WF_vars(Pass) /\ WF_vars(Start) /\ SF_vars(Tick)
  /\ SF_vars(ReadHolding) /\ SF_vars(AskPending) /\ WF_vars(LandSnapshot)
  /\ \A f \in Files :
       /\ WF_vars(Scan(f)) /\ WF_vars(Drain(f)) /\ WF_vars(SendGone(f))
       /\ SF_vars(RequestFile(f)) /\ SF_vars(Arrive(f)) /\ WF_vars(Land(f))
-----------------------------------------------------------------------------
Ages(t) == DOMAIN t \subseteq Files /\ \A f \in DOMAIN t : t[f] \in 0 .. Period
Rows(t) ==
  /\ DOMAIN t \subseteq Files
  /\ \A f \in DOMAIN t : t[f].still_exists \in BOOLEAN /\ t[f].queued \in 0 .. Grace

\* Type invariant.
TypeOK ==
  /\ exists \subseteq Files /\ Rows(ledger) /\ queue \subseteq DOMAIN ledger
  /\ held \subseteq DOMAIN ledger /\ landed \subseteq DOMAIN ledger
  /\ \A t \in {snap, rows} :
       t \notin {None, Malformed} => Rows(t) /\ DOMAIN t \subseteq DOMAIN ledger
  /\ pc \in {"idle", "held", "pending", "plan", "ask", "save", "down"}
  /\ force \in BOOLEAN
  /\ in_flight \subseteq Files /\ missing \subseteq DOMAIN ledger
  /\ pending # None => pending \subseteq Files
  /\ \A s \in {memory, saved} :
       s.last_run \in {None} \cup 0 .. Period /\ Ages(s.requested)
  /\ Ages(asked)

\* The ground reads the ledger that the payload wrote, whatever commas and quotes
\* are in the names and however the rows follow each other; with a line break in
\* a single name the whole snapshot is refused, and no row is made up.  So a
\* snapshot that landed may be taken for the rows it was written from.
ReadsBack == snap # None => SameRows /\ BreakRefused

\* A snapshot that was cut short, anywhere, is refused or says of the files it
\* still has what the ledger says, except that the last one may have lost digits
\* of its size, and its mark: no file is taken for another, and no row that was
\* written whole is left out.  So LandCutSnapshot has all that can land.
CutShort == snap # None => NoRowMadeUp /\ NoRowLeftOut

\* "Each is requested at most once per period; the schedule and request memory
\* persist": a file is not requested again within a period of a request that the
\* sender confirmed, over restarts of either daemon, failed calls and passes an
\* operator asks for; only a pass that is cut short is forgotten.
OncePerPeriod ==
  [][\A f \in DOMAIN asked :
       RequestFile(f) \/ RequestTimesOut(f) => asked[f] >= Period]_vars

MarkedGone(f) == f \in DOMAIN ledger /\ ~ledger[f].still_exists

\* A file the sender has taken up lands in the end if it stays on the payload,
\* also when all its packets are lost, more than once, the sender restarts with
\* the file in its queue, an operator submits it again, or the cleaner is killed
\* in a pass, and whatever cut or malformed snapshots it reads, if in the end it
\* is left running and the sender to finish its dumps.  A file whose row was once marked
\* gone is not recovered: upsert_file does not take the mark back.
Recovered ==
  <>[](pc # "down") /\ <>[][~LandCutSnapshot]_vars =>
    \A f \in Files :
      f \in DOMAIN ledger ~>
        f \in landed \/ f \notin exists \/ MarkedGone(f)
=============================================================================
