----------------------------- MODULE FeedWorker -----------------------------
(***************************************************************************)
(* The change-feed worker of the session crate (crates/session/src/feed).  *)
(* A thread holds a blocking read on a stream file of the namespace, reads *)
(* a catch-up file after every (re)connection, and publishes each change   *)
(* record to the bounded queue of a subscriber.  Whatever it cannot follow *)
(* (malformed data, too many records, the loss of the connection) becomes  *)
(* a coarse invalidation; a subscriber that falls behind is closed.        *)
(*                                                                         *)
(* The source is external.  Its change records are numbered in the order   *)
(* they happen.  An event is one record, or several that happen at once    *)
(* and share the event id, the number of the last of them.  A stream fid   *)
(* returns the events since it was opened; the cursor file returns         *)
(* everything after the cursor, the plain catch-up file some of the latest *)
(* events.                                                                 *)
(***************************************************************************)
EXTENDS Integers, Sequences

CONSTANTS Capacity,         \* of the bus, and the worker's backpressure_limit
          MaxFaults,        \* failures of the connection or the disk
          CursorTemplate    \* a cursor-addressed catch-up file is configured

ASSUME FeedAssumption ==
    /\ Capacity \in Nat \ {0}
    /\ MaxFaults \in Nat
    /\ CursorTemplate \in BOOLEAN

VARIABLES log,        \* the source's change records
          fpc,        \* where feed_loop is
          initial,    \* FeedWorkerStartup.catch_up_initial
          since,      \* since_event_id, 0 for None
          last,       \* FeedState.last_event_id, 0 for None
          pos,        \* the last change the stream fid has returned, 0 without one
          out,        \* events still to be published for the data just read
          ready,      \* the ready wake was notified
          fstop,      \* FeedWorkerHandle.stop
          shut,       \* the session was shut down
          queue,      \* FeedSubscriberState.queue
          closed,     \* FeedSubscriberState.closed
          receiver,   \* what the subscriber's thread does in recv_until_stopped
          faults,     \* failures so far
          gap         \* history: how a catch-up may have missed changes

feed == <<fpc, initial, since, last, pos, out, ready, fstop>>
bus == <<queue, closed, receiver>>
feedVars == <<log, feed, shut, bus, faults, gap>>

-----------------------------------------------------------------------------

\* FeedEvent::Change and CoarseInvalidation; no change has number 0.
Change(i, complete) == [id |-> i, complete |-> complete]
Coarse == Change(0, FALSE)

\* Why a catch-up may have missed changes.
Gap == {"timeout", "window"}

FeedPc == {"off", "snapshot", "open", "catch_up", "ready", "stream", "reconnect", "done"}

\* The subscriber's thread holds its mutex, sleeps on its condvar, or neither.
Receiver == {"away", "holding", "asleep"}

Fault == faults < MaxFaults /\ faults' = faults + 1

\* The event id of a record, and the first record with an event id.
EventOf(i) == CHOOSE j \in i..Len(log) :
                 ~log[j].more /\ \A k \in i..j - 1 : log[k].more
Opens(i) == i = 1 \/ ~log[i - 1].more
First(id) == CHOOSE i \in 1..id : Opens(i) /\ EventOf(i) = id

\* process_feed_data for the records a..b: one event each, the last of them
\* completing the batch, or one coarse invalidation when there are too many.
Records(a, b) ==
    IF b - a + 1 > Capacity THEN <<Coarse>>
    ELSE [i \in 1..b - a + 1 |-> Change(a + i - 1, a + i - 1 = b)]

-----------------------------------------------------------------------------
(* The bus.                                                                *)

\* Mutants of Publish: the queue takes one event too many; a full queue drops
\* the event and stays open.
PublishOverfull(e) ==
    /\ receiver # "holding"
    /\ IF closed \/ Len(queue) > Capacity
       THEN closed' = TRUE /\ UNCHANGED queue
       ELSE queue' = Append(queue, e) /\ UNCHANGED closed
    /\ receiver' = "away"
PublishDrops(e) ==
    /\ receiver # "holding"
    /\ queue' = IF closed \/ Len(queue) >= Capacity
                THEN queue ELSE Append(queue, e)
    /\ receiver' = "away"
    /\ UNCHANGED closed

\* FeedEventBus::publish takes the subscriber's mutex and wakes its thread.  A
\* subscriber that is full is closed, and gets nothing from then on.
Publish(e) ==
    /\ receiver # "holding"
    /\ IF closed \/ Len(queue) >= Capacity
       THEN closed' = TRUE /\ UNCHANGED queue
       ELSE queue' = Append(queue, e) /\ UNCHANGED closed
    /\ receiver' = "away"

-----------------------------------------------------------------------------
(* The worker thread.                                                      *)

At(place) == fpc = place /\ out = <<>>

\* publish_feed_event, and for a change set_connected with its id.
FeedPublish ==
    /\ out # <<>>
    /\ Publish(Head(out))
    /\ out' = Tail(out)
    /\ last' = IF Head(out) = Coarse THEN last ELSE EventOf(Head(out).id)
    /\ UNCHANGED <<log, fpc, initial, since, pos, ready, fstop, shut, faults, gap>>

\* ClientSession::snapshot; as long as it fails, nothing but a sleep happens.
FeedSnapshot ==
    /\ At("snapshot")
    /\ ~fstop /\ ~shut
    /\ fpc' = "open"
    /\ UNCHANGED <<log, initial, since, last, pos, out, ready, fstop, shut, bus,
                   faults, gap>>

\* The stream is opened, and installed for cancellation, before the catch-up.
FeedOpen ==
    /\ At("open")
    /\ ~fstop /\ ~shut
    /\ pos' = Len(log)
    /\ fpc' = "catch_up"
    /\ UNCHANGED <<log, initial, since, last, out, ready, fstop, shut, bus, faults, gap>>

\* publish_connection_loss
Lost == out' = <<Coarse>> /\ fpc' = "reconnect" /\ pos' = 0

FeedOpenFails ==
    /\ At("open")
    /\ (shut /\ UNCHANGED faults) \/ (~shut /\ Fault)
    /\ Lost
    /\ UNCHANGED <<log, initial, since, last, ready, fstop, shut, bus, gap>>

\* No cursor, and none asked for: the catch-up is left out.
NoCatchUp == since = 0 /\ ~initial

\* consume_catch_up.  Behind the cursor template the file holds what follows
\* the cursor.  Else it holds the changes from some a on: all of them are used
\* without a cursor, those after the cursor when it is among them, and when it
\* is not the gap is unknown (select_feed_records).  A worker that reconnects
\* without a cursor may so miss changes that left the file.
FeedCatchUp ==
    /\ At("catch_up")
    /\ ~NoCatchUp /\ ~shut
    /\ LET n == Len(log) IN
       IF CursorTemplate /\ since # 0
       THEN out' = Records(since + 1, n) /\ since' = n /\ UNCHANGED <<last, gap>>
       ELSE \E a \in {i \in 1..n + 1 : Opens(i)} :
              /\ out' = IF since = 0 THEN Records(a, n)
                        ELSE IF a > n THEN <<>>
                        ELSE IF a <= since THEN Records(First(since) + 1, n)
                        ELSE <<Coarse>>
              /\ since' = IF a > n THEN since ELSE n
              /\ last' = IF since # 0 /\ a \in since + 1..n THEN n ELSE last
              /\ gap' = IF ready /\ since = 0 /\ a > 1
                        THEN gap \cup {"window"} ELSE gap
    /\ fpc' = "ready"
    /\ UNCHANGED <<log, initial, pos, ready, fstop, shut, bus, faults>>

\* The records do not parse.
FeedCatchUpMalformed ==
    /\ At("catch_up")
    /\ ~NoCatchUp /\ ~shut
    /\ Fault
    /\ out' = <<Coarse>>
    /\ fpc' = "ready"
    /\ UNCHANGED <<log, initial, since, last, pos, ready, fstop, shut, bus, gap>>

\* The walk, open, read or clunk of the catch-up file times out: the worker
\* goes on to the stream.
FeedCatchUpTimesOut ==
    /\ At("catch_up")
    /\ ~NoCatchUp /\ ~shut
    /\ Fault
    /\ gap' = gap \cup {"timeout"}
    /\ fpc' = "ready"
    /\ UNCHANGED <<log, initial, since, last, pos, out, ready, fstop, shut, bus>>

FeedCatchUpFails ==
    /\ At("catch_up")
    /\ ~NoCatchUp
    /\ (shut /\ UNCHANGED faults) \/ (~shut /\ Fault)
    /\ Lost
    /\ UNCHANGED <<log, initial, since, last, ready, fstop, shut, bus, gap>>

\* Without a catch-up, or after it, the ready wake is notified.
FeedReady ==
    /\ At("ready") \/ (At("catch_up") /\ NoCatchUp)
    /\ ready' = TRUE
    /\ fpc' = "stream"
    /\ UNCHANGED <<log, initial, since, last, pos, out, fstop, shut, bus, faults, gap>>

\* consume_stream_until_error: the pending read returns some events.
FeedStream ==
    /\ At("stream")
    /\ ~fstop /\ ~shut
    /\ \E n \in {EventOf(i) : i \in pos + 1..Len(log)} :
          out' = Records(pos + 1, n) /\ pos' = n
    /\ UNCHANGED <<log, fpc, initial, since, last, ready, fstop, shut, bus, faults, gap>>

FeedStreamMalformed ==
    /\ At("stream")
    /\ ~fstop /\ ~shut
    /\ pos < Len(log)
    /\ Fault
    /\ pos' = Len(log)
    /\ out' = <<Coarse>>
    /\ UNCHANGED <<log, fpc, initial, since, last, ready, fstop, shut, bus, gap>>

\* The read fails, because the connection did or because it was cancelled.
FeedStreamFails ==
    /\ At("stream")
    /\ (shut /\ UNCHANGED faults) \/ (~shut /\ Fault)
    /\ since' = IF last # 0 THEN last ELSE since
    /\ out' = IF fstop THEN <<>> ELSE <<Coarse>>
    /\ fpc' = "reconnect"
    /\ pos' = 0
    /\ UNCHANGED <<log, initial, last, ready, fstop, shut, bus, gap>>

\* reconnect_after_failure; if that fails too, opening the stream will.
FeedReconnect ==
    /\ At("reconnect")
    /\ ~fstop
    /\ fpc' = "snapshot"
    /\ UNCHANGED <<log, initial, since, last, pos, out, ready, fstop, shut, bus,
                   faults, gap>>

\* The loops end when stop is set, and so does feed_loop when the stream it
\* opened meanwhile cannot be installed; both wakes are closed.
FeedExit ==
    /\ At("snapshot") \/ At("open") \/ At("stream") \/ At("reconnect")
    /\ fstop
    /\ fpc' = "done"
    /\ pos' = 0
    /\ UNCHANGED <<log, initial, since, last, out, ready, fstop, shut, bus,
                   faults, gap>>

FeedStep ==
    \/ FeedPublish
    \/ FeedSnapshot \/ FeedOpen \/ FeedOpenFails
    \/ FeedCatchUp \/ FeedCatchUpMalformed \/ FeedCatchUpTimesOut
    \/ FeedCatchUpFails \/ FeedReady
    \/ FeedStream \/ FeedStreamMalformed \/ FeedStreamFails
    \/ FeedReconnect \/ FeedExit

=============================================================================
