--------------------------- MODULE Materialization ---------------------------
(***************************************************************************)
(* The coherent local materialization (crates/session/src/materialization  *)
(* .rs, materialization/local.rs): a copy of a remote subtree on the local *)
(* disk, kept current by the change feed, with a durable cursor from which *)
(* a restarted process catches up instead of copying everything again.     *)
(*                                                                         *)
(* Four actors: the source, the feed worker (FeedWorker), the thread that  *)
(* connects and then runs event_loop, and the owner that drops the         *)
(* materialization.  The process may crash at any moment and keeps only    *)
(* what is on disk.                                                        *)
(***************************************************************************)
EXTENDS FeedWorker, Functions, FiniteSets, TLC

CONSTANTS Path,         \* the files of the subtree
          MaxChanges,   \* change records of the source
          MaxStarts     \* times the process is started

ASSUME MaterializationAssumption ==
    /\ MaxChanges \in Nat
    /\ MaxStarts \in Nat \ {0}
    /\ CursorTemplate    \* MaterializationConfig::validate insists on one

VARIABLES local,           \* on disk: path -> content
          cursor,          \* on disk: the event id in .state.json, 0 if none
          cpc,             \* where the materialization's thread is
          mode,            \* in connect, in a resynchronization, or following
          work,            \* events taken from the queue and still to apply
          want,            \* the cursor to persist next, 0 if none
          resync_cursor,   \* event_loop's variable of that name
          staged,          \* the staging tree
          coherent,        \* what is_coherent returns
          wake,            \* receiver_wake is that of the current subscription
          stop,            \* CoherentMaterialization.stop
          dpc,             \* where the owner's drop is
          starts

disk == <<local, cursor>>
thread == <<cpc, mode, work, want, resync_cursor, staged, coherent, wake>>
owner == <<stop, dpc, starts>>
vars == <<feedVars, disk, thread, owner>>

-----------------------------------------------------------------------------
(* The source (external).  The content of a file is the number of the      *)
(* record of the change that wrote it.                                     *)

Absent == -1
Kind == {"modified", "removed", "renamed"}

ContentAt(p, n) ==
    LET of == {i \in 1..n : log[i].path = p}
    IN  IF of = {} THEN 0
        ELSE LET i == CHOOSE i \in of : \A j \in of : j <= i
             IN  IF log[i].kind = "removed" THEN Absent ELSE i

Source == [p \in Path |-> ContentAt(p, Len(log))]

Record(p, kind, more) == [path |-> p, kind |-> kind, more |-> more]

SourceChange(p, kind) ==
    /\ Len(log) < MaxChanges
    /\ Source[p] = Absent => kind = "modified"
    /\ log' = Append(log, Record(p, kind, FALSE))
    /\ UNCHANGED <<feed, shut, bus, faults, gap, disk, thread, owner>>

\* One event of two records.
SourceBatch(p, q, kind) ==
    /\ Len(log) + 2 <= MaxChanges
    /\ p # q
    /\ Absent \in {Source[p], Source[q]} => kind = "modified"
    /\ log' = log \o <<Record(p, kind, TRUE), Record(q, kind, FALSE)>>
    /\ UNCHANGED <<feed, shut, bus, faults, gap, disk, thread, owner>>

-----------------------------------------------------------------------------
(* Process life.                                                           *)

\* connect: the state file decides whether the local tree can be resumed.
Connect ==
    /\ cpc = "down"
    /\ starts < MaxStarts
    /\ starts' = starts + 1
    /\ cpc' = "wait"
    /\ fpc' = "snapshot"
    /\ initial' = (cursor = 0)
    /\ since' = cursor
    /\ last' = cursor
    /\ UNCHANGED <<log, pos, out, ready, fstop, shut, bus, faults, gap, disk,
                   mode, work, want, resync_cursor, staged, coherent, wake, stop, dpc>>

\* Nothing is left of the process but the disk.
Gone ==
    /\ fpc' = "off" /\ initial' = FALSE /\ since' = 0 /\ last' = 0 /\ pos' = 0
    /\ out' = <<>> /\ ready' = FALSE /\ fstop' = FALSE /\ shut' = FALSE
    /\ queue' = <<>> /\ closed' = FALSE /\ receiver' = "away"
    /\ cpc' = "down" /\ mode' = "startup" /\ work' = <<>> /\ want' = 0
    /\ resync_cursor' = 0 /\ staged' = <<>> /\ coherent' = FALSE
    /\ stop' = FALSE /\ dpc' = "no" /\ wake' = TRUE

Crash ==
    /\ cpc # "down"
    /\ Fault
    /\ Gone
    /\ UNCHANGED <<log, gap, disk, starts>>

-----------------------------------------------------------------------------
(* Synchronization: a snapshot is staged and published file by file.       *)

\* cursor_after_last_coherence_loss, for a batch that was not disconnected: the
\* last complete event, if no loss follows it.
Requires(e) == e = Coarse \/ log[e.id].kind = "renamed"

\* Mutant of CursorOf: the last record of the read is not awaited.
CursorOfAny(e) == IF e = Coarse THEN 0 ELSE EventOf(e.id)

\* cursor_for, with cursor_complete.
CursorOf(e) == IF e.complete THEN EventOf(e.id) ELSE 0

BatchCursor(batch) ==
    LET complete == {i \in DOMAIN batch : batch[i].complete}
        latest == CHOOSE i \in complete : \A j \in complete : j <= i
    IN  IF \/ complete = {}
           \/ \E i \in DOMAIN batch : i > latest /\ Requires(batch[i])
        THEN 0 ELSE CursorOf(batch[latest])

\* Once the feed is ready, a resumed tree is brought up to date from the queue.
\* Else drain_before_snapshot empties the queue for a cursor to start from: the
\* last complete event, whatever follows.
Started ==
    /\ cpc = "wait"
    /\ ready
    /\ IF initial
       THEN /\ LET complete == {CursorOf(queue[i]) : i \in {j \in DOMAIN queue :
                                                              queue[j].complete}}
               IN  want' = IF closed \/ complete = {} THEN 0
                           ELSE CHOOSE c \in complete : \A d \in complete : d <= c
            /\ queue' = <<>>
            /\ closed' = FALSE
            /\ wake' = (wake /\ ~closed)
            /\ cpc' = "sync"
       ELSE /\ cpc' = "drain"
            /\ UNCHANGED <<want, queue, closed, wake>>
    /\ UNCHANGED <<log, feed, shut, receiver, faults, gap, disk, mode, work,
                   resync_cursor, staged, coherent, owner>>

\* synchronize: the cursor goes before anything else is touched.
SyncStart ==
    /\ cpc = "sync"
    /\ cpc' = "read"
    /\ coherent' = FALSE
    /\ cursor' = 0
    /\ UNCHANGED <<feedVars, local, mode, work, want, resync_cursor, staged, wake, owner>>

\* discover_snapshot and populate_snapshot: parallel reads in any order.
SyncRead(p) ==
    /\ cpc = "read"
    /\ ~shut
    /\ p \notin DOMAIN staged
    /\ staged' = (p :> Source[p]) @@ staged
    /\ cpc' = IF DOMAIN staged' = Path THEN "publish" ELSE "read"
    /\ UNCHANGED <<feedVars, disk, mode, work, want, resync_cursor, coherent, wake, owner>>

\* publish_snapshot renames, or removes, one file after the other.
SyncPublish(p) ==
    /\ cpc = "publish"
    /\ p \in DOMAIN staged
    /\ local' = [local EXCEPT ![p] = staged[p]]
    /\ staged' = Restrict(staged, DOMAIN staged \ {p})
    /\ cpc' = IF DOMAIN staged # {p} THEN "publish"
              ELSE IF want # 0 THEN "persist" ELSE "drain"
    /\ UNCHANGED <<feedVars, cursor, mode, work, want, resync_cursor, coherent, wake, owner>>

\* An error ends connect; event_loop resynchronizes, after a while, unless it
\* was stopped or the feed has ended.  An event that could not be applied
\* leaves the cursor to persist after that.
Failed(c) ==
    IF mode = "startup" THEN Gone /\ UNCHANGED <<log, gap, starts>>
    ELSE /\ work' = <<>>
         /\ staged' = <<>>
         /\ mode' = "resync"
         /\ resync_cursor' = IF mode = "live" THEN c ELSE resync_cursor
         /\ want' = resync_cursor'
         /\ IF mode = "resync" /\ (stop \/ fpc = "done")
            THEN cpc' = "stopped" /\ coherent' = FALSE
            ELSE cpc' = "sync" /\ UNCHANGED coherent
         /\ UNCHANGED <<log, feed, shut, bus, gap, wake, owner>>

Failing == (shut /\ UNCHANGED faults) \/ (~shut /\ Fault)

\* A read fails, or the removal of the cursor or the publication of a file.
\* These may have happened, and the directory could not be synced.
SyncFails ==
    /\ \/ cpc = "read" /\ Failing /\ UNCHANGED disk
       \/ cpc = "sync" /\ Fault /\ cursor' \in {cursor, 0} /\ UNCHANGED local
       \/ /\ cpc = "publish"
          /\ Fault
          /\ local' \in {local} \cup {[local EXCEPT ![p] = staged[p]] : p \in DOMAIN staged}
          /\ UNCHANGED cursor
    /\ Failed(0)

\* event_loop looks at stop before it synchronizes.
ResyncStopped ==
    /\ cpc = "sync"
    /\ mode = "resync"
    /\ stop
    /\ cpc' = "stopped"
    /\ coherent' = FALSE
    /\ UNCHANGED <<feedVars, disk, mode, work, want, resync_cursor, staged, wake, owner>>

-----------------------------------------------------------------------------
(* Events.                                                                 *)

\* After an event: the next one, the queue, or back to waiting.
Continue ==
    IF work' = <<>> /\ mode = "live"
    THEN cpc' = "recv" /\ coherent' = TRUE
    ELSE /\ cpc' = IF work' = <<>> THEN "drain" ELSE "apply"
         /\ UNCHANGED coherent

\* persist_cursor, after a snapshot or an event that has a cursor.
Persist ==
    /\ cpc = "persist"
    /\ cursor' = want
    /\ want' = 0
    /\ UNCHANGED work
    /\ Continue
    /\ UNCHANGED <<feedVars, local, mode, resync_cursor, staged, wake, owner>>

PersistFails ==
    /\ cpc = "persist"
    /\ Fault
    /\ cursor' \in {cursor, want}
    /\ UNCHANGED local
    /\ Failed(want)

\* drain_startup_events takes what is in the queue as one batch.  A full batch
\* is returned before the closed queue behind it is noticed.
Drain ==
    /\ cpc = "drain"
    /\ queue # <<>> \/ closed
    /\ LET disconnected == closed /\ Len(queue) < Capacity
       IN  /\ IF disconnected \/ \E i \in DOMAIN queue : Requires(queue[i])
              THEN /\ want' = IF disconnected THEN 0 ELSE BatchCursor(queue)
                   /\ cpc' = "sync"
                   /\ UNCHANGED work
              ELSE /\ work' = queue
                   /\ cpc' = "apply"
                   /\ UNCHANGED want
           /\ closed' = (closed /\ ~disconnected)
           /\ wake' = (wake /\ ~disconnected)
    /\ queue' = <<>>
    /\ UNCHANGED <<log, feed, shut, receiver, faults, gap, disk, mode,
                   resync_cursor, staged, coherent, owner>>

Drained ==
    /\ cpc = "drain"
    /\ queue = <<>> /\ ~closed
    /\ mode' = "live"
    /\ coherent' = TRUE
    /\ resync_cursor' = 0
    /\ cpc' = "recv"
    /\ UNCHANGED <<feedVars, disk, work, want, staged, wake, owner>>

\* apply_change: a removal is taken at its word, for anything else the file is
\* read again.
Removal(e) == log[e.id].kind = "removed"
Applied(e) == [local EXCEPT ![log[e.id].path] =
                 IF Removal(e) THEN Absent ELSE Source[log[e.id].path]]

Apply ==
    /\ cpc = "apply"
    /\ LET e == Head(work)
       IN  /\ shut => Removal(e)
           /\ local' = Applied(e)
           /\ want' = CursorOf(e)
           /\ work' = Tail(work)
           /\ IF want' # 0 THEN cpc' = "persist" /\ UNCHANGED coherent ELSE Continue
    /\ UNCHANGED <<feedVars, cursor, mode, resync_cursor, staged, wake, owner>>

\* The read fails, or the change of the local file, before or after it is made.
ApplyFails ==
    /\ cpc = "apply"
    /\ LET e == Head(work)
       IN  /\ \/ shut /\ ~Removal(e) /\ UNCHANGED <<faults, local>>
              \/ (shut => Removal(e)) /\ Fault /\ local' \in {local, Applied(e)}
           /\ Failed(CursorOf(e))
    /\ UNCHANGED cursor

\* recv_until_stopped locks the subscriber's mutex and looks at stop.
RecvCheck ==
    /\ cpc = "recv"
    /\ receiver = "away"
    /\ IF stop
       THEN cpc' = "stopped" /\ coherent' = FALSE /\ UNCHANGED receiver
       ELSE receiver' = "holding" /\ UNCHANGED <<cpc, coherent>>
    /\ UNCHANGED <<log, feed, shut, queue, closed, faults, gap, disk, mode, work,
                   want, resync_cursor, staged, wake, owner>>

\* Still holding it, the thread takes an event or finds the queue closed.
Resync(c) ==
    /\ resync_cursor' = c
    /\ want' = c
    /\ mode' = "resync"
    /\ cpc' = "sync"
    /\ UNCHANGED <<work, coherent>>

RecvEvent ==
    /\ cpc = "recv"
    /\ receiver = "holding"
    /\ queue # <<>> \/ closed
    /\ receiver' = "away"
    /\ IF queue = <<>>
       THEN \* a new subscription
            closed' = FALSE /\ wake' = FALSE /\ Resync(0) /\ UNCHANGED queue
       ELSE /\ queue' = Tail(queue)
            /\ IF Requires(Head(queue)) THEN Resync(CursorOf(Head(queue)))
               ELSE /\ work' = <<Head(queue)>>
                    /\ cpc' = "apply"
                    /\ coherent' = FALSE
                    /\ UNCHANGED <<want, mode, resync_cursor>>
            /\ UNCHANGED <<closed, wake>>
    /\ UNCHANGED <<log, feed, shut, faults, gap, disk, staged, owner>>

\* Condvar::wait gives the mutex up.
RecvWait ==
    /\ cpc = "recv"
    /\ receiver = "holding"
    /\ queue = <<>> /\ ~closed
    /\ receiver' = "asleep"
    /\ UNCHANGED <<log, feed, shut, queue, closed, faults, gap, disk, thread, owner>>

-----------------------------------------------------------------------------
(* CoherentMaterialization::drop.                                          *)

\* stop is set and the receiver notified.  FeedReceiverWake::notify does not
\* take the mutex, and knows only the first subscription.
DropStop ==
    /\ dpc = "no"
    /\ cpc # "down" /\ mode # "startup"
    /\ stop' = TRUE
    /\ receiver' = IF wake /\ receiver = "asleep" THEN "away" ELSE receiver
    /\ dpc' = "shutdown"
    /\ UNCHANGED <<log, feed, shut, queue, closed, faults, gap, disk, thread, starts>>

DropShutdown ==
    /\ dpc = "shutdown"
    /\ shut' = TRUE
    /\ dpc' = "feed"
    /\ UNCHANGED <<log, feed, bus, faults, gap, disk, thread, stop, starts>>

DropFeed ==
    /\ dpc = "feed"
    /\ fstop' = TRUE
    /\ dpc' = "join"
    /\ UNCHANGED <<log, fpc, initial, since, last, pos, out, ready, shut, bus, faults,
                   gap, disk, thread, stop, starts>>

DropJoin ==
    /\ dpc = "join"
    /\ fpc = "done"
    /\ cpc = "stopped"
    /\ Gone
    /\ UNCHANGED <<log, faults, gap, disk, starts>>

-----------------------------------------------------------------------------

Init ==
    /\ log = <<>>
    /\ fpc = "off" /\ initial = FALSE /\ since = 0 /\ last = 0 /\ pos = 0
    /\ out = <<>> /\ ready = FALSE /\ fstop = FALSE /\ shut = FALSE
    /\ queue = <<>> /\ closed = FALSE /\ receiver = "away"
    /\ faults = 0 /\ gap = {}
    /\ local = [p \in Path |-> Absent] /\ cursor = 0
    /\ cpc = "down" /\ mode = "startup" /\ work = <<>> /\ want = 0
    /\ resync_cursor = 0 /\ staged = <<>> /\ coherent = FALSE
    /\ wake = TRUE /\ stop = FALSE /\ dpc = "no" /\ starts = 0

FeedAction == FeedStep /\ UNCHANGED <<disk, thread, owner>>

ThreadStep ==
    \/ Started
    \/ SyncStart \/ SyncFails \/ ResyncStopped
    \/ \E p \in Path : SyncRead(p) \/ SyncPublish(p)
    \/ Persist \/ PersistFails
    \/ Drain \/ Drained
    \/ Apply \/ ApplyFails
    \/ RecvCheck \/ RecvEvent \/ RecvWait

DropStep == DropShutdown \/ DropFeed \/ DropJoin

Next ==
    \/ \E p \in Path, kind \in Kind : SourceChange(p, kind)
    \/ \E p, q \in Path, kind \in Kind : SourceBatch(p, q, kind)
    \/ Connect \/ Crash
    \/ FeedAction
    \/ ThreadStep
    \/ DropStop
    \/ DropStep

\* Threads are scheduled: the worker, the materialization's thread and a drop
\* that has begun go on while they can.
Spec ==
    /\ Init /\ [][Next]_vars
    /\ WF_vars(FeedAction)
    /\ WF_vars(ThreadStep)
    /\ WF_vars(DropStep)

-----------------------------------------------------------------------------

\* Every variable has its type, and neither the subscriber's queue nor the
\* events of one read outgrow the capacity.
TypeOK ==
    /\ log \in Seq([path : Path, kind : Kind, more : BOOLEAN]) /\ Len(log) <= MaxChanges
    /\ fpc \in FeedPc
    /\ {initial, ready, fstop, shut, closed, coherent, stop, wake} \subseteq BOOLEAN
    /\ gap \subseteq Gap
    /\ {since, last, pos, cursor, want, resync_cursor} \subseteq 0..Len(log)
    /\ out \in Seq([id : 0..Len(log), complete : BOOLEAN]) /\ Len(out) <= Capacity
    /\ queue \in Seq([id : 0..Len(log), complete : BOOLEAN]) /\ Len(queue) <= Capacity
    /\ work \in Seq([id : 1..Len(log), complete : BOOLEAN]) /\ Len(work) <= Capacity
    /\ receiver \in Receiver
    /\ faults \in 0..MaxFaults /\ starts \in 0..MaxStarts
    /\ local \in [Path -> Absent..Len(log)]
    /\ DOMAIN staged \subseteq Path
    /\ cpc \in {"down", "wait", "sync", "read", "publish", "persist", "drain", "apply",
                "recv", "stopped"}
    /\ mode \in {"startup", "resync", "live"}
    /\ dpc \in {"no", "shutdown", "feed", "join"}

\* A file was removed and created again.
Recreated ==
    \E i, j \in DOMAIN log :
        i < j /\ log[i].path = log[j].path /\ log[i].kind = "removed"

\* The thread waits for events, and none is under way to it.
Settled ==
    /\ cpc = "recv" /\ queue = <<>> /\ ~closed
    /\ fpc = "stream" /\ out = <<>> /\ pos = Len(log)

\* When the materialization reports itself coherent and every event has been
\* consumed, the local tree is the remote one: whatever was lost to a full
\* queue, a malformed record, a reconnection or a restart was made up for by a
\* new snapshot or the catch-up (event_loop, drain_startup_events).
CoherentView == Settled /\ coherent => local = Source

\* The same, where no catch-up may have missed changes and no file was created
\* again after its removal.
CoherentViewAfterCatchUp == gap # {} \/ Recreated \/ CoherentView

\* The stored cursor never runs ahead of the local tree: each file is as it was
\* at the cursor or at some later change, so that resuming from the cursor
\* misses nothing, at whatever moment the process stops (persist_cursor after
\* apply_change and publish_snapshot, invalidate_cursor before).
CursorSound ==
    cursor # 0 =>
        \A p \in Path : \E n \in cursor..Len(log) : local[p] = ContentAt(p, n)

\* The same, where no catch-up may have missed changes and no file was created
\* again after its removal.
CursorSoundAfterCatchUp == gap # {} \/ Recreated \/ CursorSound

\* "falls back to a complete snapshot whenever coherence cannot be proven": a
\* catch-up that timed out does not leave a stale tree coherent (feed_loop).
CoherentAfterTimeout == "window" \in gap \/ Recreated \/ CoherentView

\* "Cursor publication follows a durable complete feed batch": the cursor stays
\* sound when a batch delivered again starts with a removal (apply_change).
CursorSoundAcrossReplay == gap # {} \/ CursorSound

\* A drop that has begun returns (CoherentMaterialization::drop), unless the
\* process crashes.
DropReturns == dpc # "no" ~> dpc = "no"

=============================================================================
