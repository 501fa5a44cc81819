----------------------------- MODULE Connection -----------------------------
(***************************************************************************)
(* One connection of the server (crates/core/src/server/connection.rs):    *)
(* the serve loop, which reads and admits messages and writes replies, and *)
(* the worker threads it starts for asynchronous requests.                 *)
(*                                                                         *)
(* The threads share the session (here: its request table; which requests  *)
(* the rest of the session refuses is a nondeterministic choice, see       *)
(* ServerSession), the map of pending cancellations, the count of active   *)
(* workers and the writer.  The session, pending and active mutexes are    *)
(* held for one step at a time; the writer is held across completing a     *)
(* request and writing its reply.                                          *)
(***************************************************************************)
EXTENDS RequestTable, FiniteSets

CONSTANTS Fid,               \* fids the handler reports as cancellation_fid
          MaxAsyncRequests   \* ServerConfig.max_async_requests

ASSUME ConnectionAssumption == MaxAsyncRequests \in Nat

VARIABLES live, next_generation,   \* the session's RequestTable
          pending,    \* CancelMap: {[key, fid]}
          active,     \* AsyncWorkerTracker.active
          workers,    \* worker threads: {[key, pc, cancel]}
          writer,     \* holder of the writer lock: {} or {the key it answers}
          pc,         \* where the serve loop is
          msg,        \* the message it is processing
          cur,        \* the key of that message's request
          finished,   \* what the serve loop's call of complete returned
          closing,    \* serve_loop has returned
          answered, horizon   \* what went out: see ReplyContract

vars == <<live, next_generation, pending, active, workers, writer, pc, msg,
          cur, finished, closing, answered, horizon>>

wire == <<answered, horizon>>
loop == <<msg, cur, finished, closing>>

-----------------------------------------------------------------------------

\* A worker is at "start" until the handler looked at the cancel flag,
\* "blocked" while it waits for something to report or for a wake-up, and
\* "lock" when perform has returned.
WorkerPc == {"start", "blocked", "lock", "complete", "write", "drop", "release"}
Worker == [key : RequestKey, pc : WorkerPc, cancel : BOOLEAN, finished : BOOLEAN]

\* The serve loop is at "read", "reset", "reset_wake", "idle" (waiting until
\* no worker is active), "admit", "admit_wake", "reply", "dispatch", "spawn",
\* "lock", "complete", "write" or "done".
LoopPc == {"read", "reset", "reset_wake", "idle", "admit", "admit_wake",
           "reply", "dispatch", "spawn", "lock", "complete",
           "write", "done"}

\* oldtag is the tag a Tflush names; clunk, async and fid describe a request
\* for the backend (fid: its cancellation_fid, the clunked fid for a Tclunk).
Message ==
    [kind : {"version"}]
    \cup [kind : {"flush"}, tag : Tag, oldtag : Tag]
    \cup [kind : {"request"}, tag : Tag, fid : Fid, clunk : BOOLEAN,
          async : BOOLEAN]

NoKey == Key("none", 0)
NoMessage == [kind |-> "none"]

Step(from, to) == pc = from /\ pc' = to

\* The loop goes back to reading and forgets the message it dealt with.
Resume(from) ==
    /\ Step(from, "read")
    /\ msg' = NoMessage
    /\ cur' = NoKey
    /\ finished' = FALSE
    /\ UNCHANGED closing

\* serve_loop returns, its locals with it.
Return == closing' = TRUE /\ msg' = NoMessage /\ cur' = NoKey /\ finished' = FALSE

\* cancel_key, cancel_fid and cancel_all: take the chosen entries out of the
\* pending map and set their workers' flags.
Cancel(entries) ==
    /\ pending' = pending \ entries
    /\ workers' = {IF \E p \in entries : p.key = w.key
                   THEN [w EXCEPT !.cancel = TRUE] ELSE w : w \in workers}

-----------------------------------------------------------------------------
(* The serve loop.                                                         *)

ReadMessage(m) ==
    /\ Step("read", IF m.kind = "version" THEN "reset" ELSE "admit")
    /\ next_generation + (IF m.kind = "version" THEN 2 ELSE 1) <= MaxGeneration
    /\ msg' = m
    /\ UNCHANGED <<live, next_generation, pending, active, workers, writer,
                   cur, finished, closing, wire>>

\* End of stream or a malformed frame: serve_loop returns and
\* serve_connection goes on to its final reset.
ReadEnd ==
    /\ Step("read", "reset")
    /\ Return
    /\ UNCHANGED <<live, next_generation, pending, active, workers, writer,
                   wire>>

\* Mutant of ResetRequests: nobody is cancelled.
ResetWithoutCancel ==
    /\ Step("reset", "reset_wake")
    /\ live' = {}
    /\ next_generation' = IF next_generation < MaxGeneration
                          THEN next_generation + 1 ELSE next_generation
    /\ UNCHANGED <<pending, workers, active, writer, loop, wire>>

\* reset_connection: the request table is emptied and everything cancelled
\* under the session lock ...
ResetRequests ==
    /\ Step("reset", "reset_wake")
    /\ live' = {}
    /\ next_generation' = IF next_generation < MaxGeneration
                          THEN next_generation + 1 ELSE next_generation
    /\ Cancel(pending)
    /\ UNCHANGED <<active, writer, loop, wire>>

\* Mutant of Wake: the workers sleep on.
WakeNobody(from, to) ==
    /\ Step(from, to)
    /\ UNCHANGED <<live, next_generation, pending, active, workers, writer, loop,
                   wire>>

\* ... and the workers woken, after a reset as after an admission.  Blocked
\* workers look at their flag again.
Wake(from, to) ==
    /\ Step(from, to)
    /\ workers' = {IF w.pc = "blocked" /\ w.cancel
                   THEN [w EXCEPT !.pc = "lock"] ELSE w : w \in workers}
    /\ UNCHANGED <<live, next_generation, pending, active, writer, loop, wire>>

\* Mutant of ResetHandler: it does not wait.
ResetHandlerAtOnce ==
    /\ pc = "idle"
    /\ \/ closing /\ pc' = "done" /\ UNCHANGED loop
       \/ ~closing /\ pc' = "admit" /\ UNCHANGED loop
    /\ UNCHANGED <<live, next_generation, pending, active, workers, writer, wire>>

\* wait_until_idle and handler.reset, whose failure ends the loop.
ResetHandler ==
    /\ pc = "idle"
    /\ active = 0
    /\ \/ closing /\ pc' = "done" /\ UNCHANGED loop
       \/ ~closing /\ pc' = "admit" /\ UNCHANGED loop
       \/ ~closing /\ pc' = "reset" /\ Return
    /\ UNCHANGED <<live, next_generation, pending, active, workers, writer, wire>>

\* admit of Tversion resets the table once more (Session::invalidate).
AdmitVersion ==
    /\ Step("admit", "reply")
    /\ msg.kind = "version"
    /\ live' = {}
    /\ next_generation' = next_generation + 1
    /\ UNCHANGED <<pending, active, workers, writer, loop, wire>>

\* Tflush: the cancelled request's worker, if any, is told to stop.
AdmitFlush ==
    LET key == Key(msg.tag, next_generation)
        cancelled == FlushCancels(live \cup {key}, msg.oldtag)
    IN  /\ msg.kind = "flush"
        /\ ~IsLive(live, msg.tag)
        /\ Step("admit", "admit_wake")
        /\ live' = live \ cancelled
        /\ next_generation' = next_generation + 1
        /\ cur' = key
        /\ Cancel({p \in pending : p.key \in cancelled})
        /\ UNCHANGED <<active, writer, msg, finished, closing, wire>>

\* A request that the session dispatches; a Tclunk cancels what is pending on
\* its fid.
AdmitRequest ==
    LET key == Key(msg.tag, next_generation)
    IN  /\ msg.kind = "request"
        /\ ~IsLive(live, msg.tag)
        /\ Step("admit", "admit_wake")
        /\ live' = live \cup {key}
        /\ next_generation' = next_generation + 1
        /\ cur' = key
        /\ Cancel({p \in pending : msg.clunk /\ p.fid = msg.fid})
        /\ UNCHANGED <<active, writer, msg, finished, closing, wire>>

\* A request that the session refuses: begun and finished at once.
AdmitRefused ==
    /\ Step("admit", "reply")
    /\ msg.kind # "version"
    /\ ~IsLive(live, msg.tag)
    /\ next_generation' = next_generation + 1
    /\ cur' = Key(msg.tag, next_generation)
    /\ msg' = [msg EXCEPT !.kind = "request"]
    /\ UNCHANGED <<live, pending, active, workers, writer, finished, closing,
                   wire>>

\* EDUPTAG: refused without a key of its own.
AdmitDuplicate ==
    /\ Step("admit", "reply")
    /\ msg.kind # "version"
    /\ IsLive(live, msg.tag)
    /\ cur' = NoKey
    /\ msg' = [msg EXCEPT !.kind = "request"]
    /\ UNCHANGED <<live, next_generation, pending, active, workers, writer,
                   finished, closing, wire>>

\* handler.wake_after_cancel, then on to what the event asks for: the reply,
\* a worker, or perform, called by the loop itself, and complete_and_write.
AdmitWake ==
    Wake("admit_wake", IF msg.kind = "flush" THEN "reply"
                       ELSE IF msg.async THEN "dispatch" ELSE "lock")

\* What the peer may conclude from the reply being written.
Sent(key) == answered' = answered \cup {key} /\ UNCHANGED horizon

\* write_reply: takes the writer, writes, gives it back.
WriteReply ==
    /\ Resume("reply")
    /\ writer = {}
    /\ CASE msg.kind = "version" ->
              /\ horizon' = [t \in Tag |-> next_generation]
              /\ UNCHANGED answered
         [] msg.kind = "flush" ->
              /\ horizon' = [horizon EXCEPT ![msg.oldtag] = cur.generation]
              /\ UNCHANGED answered
         [] OTHER -> IF cur = NoKey THEN UNCHANGED wire ELSE Sent(cur)
    /\ UNCHANGED <<live, next_generation, pending, active, workers, writer>>

WriteReplyFails ==
    /\ Step("reply", "reset")
    /\ writer = {}
    /\ Return
    /\ UNCHANGED <<live, next_generation, pending, active, workers, writer,
                   wire>>

\* Mutants of DispatchAsync: the slots are not counted; the request is not
\* entered in the pending map.
DispatchUnbounded ==
    /\ Step("dispatch", "spawn")
    /\ active' = active + 1
    /\ pending' = pending \cup {[key |-> cur, fid |-> msg.fid]}
    /\ UNCHANGED <<live, next_generation, workers, writer, loop, wire>>
DispatchUnregistered ==
    /\ active < MaxAsyncRequests
    /\ Step("dispatch", "spawn")
    /\ active' = active + 1
    /\ UNCHANGED <<live, next_generation, pending, workers, writer, loop, wire>>

\* dispatch_async: a worker slot and an entry in the pending map, under the
\* pending lock, or, with every slot taken, an error completion.
DispatchAsync ==
    /\ pc = "dispatch"
    /\ \/ /\ active < MaxAsyncRequests
          /\ active' = active + 1
          /\ pending' = pending \cup {[key |-> cur, fid |-> msg.fid]}
          /\ pc' = "spawn"
       \/ /\ active >= MaxAsyncRequests
          /\ pc' = "lock"
          /\ UNCHANGED <<active, pending>>
    /\ UNCHANGED <<live, next_generation, workers, writer, loop, wire>>

SpawnWorker ==
    /\ Resume("spawn")
    /\ workers' = workers \cup {[key |-> cur, pc |-> "start", cancel |-> FALSE,
                                 finished |-> FALSE]}
    /\ UNCHANGED <<live, next_generation, pending, active, writer, wire>>

\* Mutant of SpawnFails: the slot is not given back.
SpawnFailsKeepsSlot ==
    /\ Step("spawn", "lock")
    /\ pending' = {p \in pending : p.key # cur}
    /\ UNCHANGED <<live, next_generation, active, workers, writer, loop, wire>>

SpawnFails ==
    /\ Step("spawn", "lock")
    /\ pending' = {p \in pending : p.key # cur}
    /\ active' = active - 1
    /\ UNCHANGED <<live, next_generation, workers, writer, loop, wire>>

\* complete_and_write, called by the loop.
LockWriter ==
    /\ Step("lock", "complete")
    /\ writer = {}
    /\ writer' = {cur}
    /\ UNCHANGED <<live, next_generation, pending, active, workers, loop, wire>>

Complete ==
    /\ Step("complete", "write")
    /\ finished' = Finishes(live, cur)
    /\ live' = live \ {cur}
    /\ UNCHANGED <<next_generation, pending, active, workers, writer, msg, cur,
                   closing, wire>>

Write ==
    /\ Resume("write")
    /\ writer' = {}
    /\ IF finished THEN Sent(cur) ELSE UNCHANGED wire
    /\ UNCHANGED <<live, next_generation, pending, active, workers>>

WriteFails ==
    /\ Step("write", "reset")
    /\ finished
    /\ writer' = {}
    /\ Return
    /\ UNCHANGED <<live, next_generation, pending, active, workers, wire>>

-----------------------------------------------------------------------------
(* A worker thread.                                                        *)

Move(w, to) == workers' = (workers \ {w}) \cup {[w EXCEPT !.pc = to]}

\* handler.perform (external): it returns at once or blocks.  Looking at the
\* cancel flag and blocking is one step: the contract under which a handler may
\* block is that it does both under a lock that its wake_after_cancel takes
\* before notifying, or that its waits have a deadline, as those of Front do,
\* which notifies without the lock.  The trait's own wake_after_cancel does
\* nothing and suits handlers that do not block.  A panic in perform is left out:
\* the worker gives up its slot and its entry in pending (ActiveAsyncWorker),
\* and the request stays live without a reply.
Perform(w) ==
    /\ w.pc = "start"
    /\ Move(w, "lock") \/ (~w.cancel /\ Move(w, "blocked"))
    /\ UNCHANGED <<live, next_generation, pending, active, writer, pc, loop, wire>>

\* What a blocked request waits for happens.
Unblock(w) ==
    /\ w.pc = "blocked"
    /\ Move(w, "lock")
    /\ UNCHANGED <<live, next_generation, pending, active, writer, pc, loop, wire>>

\* complete_and_write, called by a worker.
WorkerLockWriter(w) ==
    /\ w.pc = "lock"
    /\ writer = {}
    /\ writer' = {w.key}
    /\ Move(w, "complete")
    /\ UNCHANGED <<live, next_generation, pending, active, pc, loop, wire>>

WorkerComplete(w) ==
    /\ w.pc = "complete"
    /\ live' = live \ {w.key}
    /\ workers' = (workers \ {w}) \cup
                  {[w EXCEPT !.pc = "write", !.finished = Finishes(live, w.key)]}
    /\ UNCHANGED <<next_generation, pending, active, writer, pc, loop, wire>>

\* A failed write is ignored: the loop finds out by itself.
WorkerWrite(w) ==
    /\ w.pc = "write"
    /\ writer' = {}
    /\ Move(w, "drop")
    /\ \/ w.finished /\ Sent(w.key)
       \/ UNCHANGED wire
    /\ UNCHANGED <<live, next_generation, pending, active, pc, loop>>

\* Drop of ActiveAsyncWorker: first the pending entry, then the slot.
WorkerDrop(w) ==
    /\ w.pc = "drop"
    /\ pending' = {p \in pending : p.key # w.key}
    /\ Move(w, "release")
    /\ UNCHANGED <<live, next_generation, active, writer, pc, loop, wire>>

WorkerRelease(w) ==
    /\ w.pc = "release"
    /\ active' = active - 1
    /\ workers' = workers \ {w}
    /\ UNCHANGED <<live, next_generation, pending, writer, pc, loop, wire>>

-----------------------------------------------------------------------------

Init ==
    /\ live = {}
    /\ next_generation = 0
    /\ pending = {}
    /\ active = 0
    /\ workers = {}
    /\ writer = {}
    /\ pc = "read"
    /\ msg = NoMessage
    /\ cur = NoKey
    /\ finished = FALSE
    /\ closing = FALSE
    /\ answered = {}
    /\ horizon = [t \in Tag |-> 0]

\* Everything the loop does by itself, once it has a message.
LoopStep ==
    \/ ResetRequests
    \/ Wake("reset_wake", "idle")
    \/ ResetHandler
    \/ AdmitVersion
    \/ AdmitFlush
    \/ AdmitRequest
    \/ AdmitRefused
    \/ AdmitDuplicate
    \/ AdmitWake
    \/ WriteReply
    \/ WriteReplyFails
    \/ DispatchAsync
    \/ SpawnWorker
    \/ SpawnFails
    \/ LockWriter
    \/ Complete
    \/ Write
    \/ WriteFails

\* What a worker does by itself.
WorkerStep(w) ==
    \/ Perform(w)
    \/ WorkerLockWriter(w)
    \/ WorkerComplete(w)
    \/ WorkerWrite(w)
    \/ WorkerDrop(w)
    \/ WorkerRelease(w)

Terminated == pc = "done" /\ UNCHANGED vars

Next ==
    \/ \E m \in Message : ReadMessage(m)
    \/ ReadEnd
    \/ LoopStep
    \/ \E w \in workers : WorkerStep(w) \/ Unblock(w)
    \/ Terminated

\* Threads that can run do run; neither the peer (ReadMessage, ReadEnd) nor
\* what a blocked request waits for (Unblock) is guaranteed to come.
Fairness ==
    /\ WF_vars(LoopStep)
    /\ \A key \in RequestKey :
         WF_vars(\E w \in workers : w.key = key /\ WorkerStep(w))

Spec == Init /\ [][Next]_vars /\ Fairness

-----------------------------------------------------------------------------
(* Properties.                                                             *)

\* Every variable has its type; in particular the count of active workers stays
\* within max_async_requests (AsyncWorkerTracker::try_acquire).
TypeOK ==
    /\ live \subseteq RequestKey
    /\ next_generation \in 0..MaxGeneration
    /\ pending \subseteq [key : RequestKey, fid : Fid]
    /\ active \in 0..MaxAsyncRequests
    /\ workers \subseteq Worker
    /\ writer \subseteq RequestKey /\ Cardinality(writer) <= 1
    /\ pc \in LoopPc
    /\ cur \in RequestKey \cup {NoKey}
    /\ finished \in BOOLEAN
    /\ closing \in BOOLEAN
    /\ answered \subseteq RequestKey
    /\ horizon \in [Tag -> 0..MaxGeneration]

\* The counter of active workers counts the threads that exist, one slot being
\* held by the loop while it spawns, so that an idle connection really has no
\* worker left when the handler is reset and capacity is never lost.
ActiveCountsWorkers ==
    active = Cardinality(workers) + (IF pc = "spawn" THEN 1 ELSE 0)

\* A worker that has not been told to stop can still be told: its entry is in
\* the pending map until its perform has returned.  Without it the reset of
\* the connection could wait for a worker for ever.
RunningIsCancellable ==
    \A w \in workers :
        w.pc \in {"start", "blocked"} /\ ~w.cancel =>
            \E p \in pending : p.key = w.key

\* No worker of an earlier session is left when the new one begins (and none
\* when serve_connection returns): neither can a stale worker mutate freshly
\* reset handler state.
ResetWaitsForWorkers ==
    pc = "done" \/ (pc = "reply" /\ msg.kind = "version") =>
        workers = {} /\ pending = {} /\ live = {}

\* The connection keeps the reply contract: at most one reply to a request,
\* and none after the Rflush or Rversion that settles it.
Contract == INSTANCE ReplyContract
KeepsReplyContract == Contract!Spec

\* A Tversion, and the end of the connection, get through: every worker is
\* cancelled, woken and waited for, whatever it is blocked on, if the handler
\* keeps the contract of Perform.
ResetCompletes == (pc = "idle") ~> (pc # "idle")

\* Cancelled workers answer (unless flushed) and give their slots back, so a
\* clunk or a flush of a blocking request frees the capacity it held, under the
\* same contract.
CancelledWorkersExit ==
    (\E w \in workers : w.cancel) ~> ~(\E w \in workers : w.cancel)

=============================================================================
