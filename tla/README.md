# r9p in TLA+

A verification development of r9p, the Rust 9P suite. It models the parts of r9p
whose correctness hangs on concurrency, ordering, failure or bounds, checks them
with TLC on small instances, and proves the core with TLAPS. Paths below are
relative to `src/crates/`.

## 1. The system

| part | state | operations | what makes it hard |
|---|---|---|---|
| **core: server session** (`core/src/server/session.rs`, `handlers.rs`, `flush.rs`) | fid table, exclusive and shared fid reservations, live requests (tag, generation), dialect | `admit` (one per T-message), `complete`, version reset | admission and completion are split, so requests overlap, finish in any order, are flushed, or outlive a Tversion |
| **core: connection facade** (`core/src/server/connection.rs`) | cancellation map, active-worker count, writer lock, worker threads | serve loop, dispatch, completion, cancellation, reset | workers race the loop; resets wait for blocked workers; threads fail to start and writes fail |
| **core: multiplexed client** (`core/src/multiplex`, `client.rs`) | live tags, flush targets, waiters by tag, terminal error | call, time out, flush, interrupt, shutdown; the reader thread | three mutexes taken in turn, late answers, reuse of tags |
| **core: codec, blocking client, helpers** | none, or one request at a time | encode, decode, read snapshots, broadcaster | lengths and layout |
| **session: renewable session** (`session/src/client_session.rs`, `resumable_fid.rs`, `epoch.rs`) | current attachment, active candidate, epoch, closed flag, reconnect lock | reconnect, reconnect_after, shutdown; open, read, write, reopen | several users see the same failure; shutdown at any moment |
| **session: change feed** (`session/src/feed`) | cursor, stream, subscriber queues | worker loop, publish, receive, stop | reconnection gaps, overflow, duplicates, lost wake-ups |
| **session: materialization** (`session/src/materialization*`) | local tree and cursor on disk, coherence flag | snapshot, apply change, store cursor, resume, resynchronize, drop | crashes between steps; changes during the snapshot |
| **session: namespace client** (`session/src/client`) | referral routes, fid bindings, clients per route | walk across referrals, refresh, recover a route | routes change under open fids |
| **session: request tracker, opened fids, cache** (`request.rs`, `opened_fid.rs`, `cache.rs`) | unique to (client, tag); concurrent reads of a fid; freshness of stats | track, interrupt; read, cancel; update, invalidate | interrupt between calls; a stat stored after its invalidation |
| **session: projection, control** | accept loop, private wake; read-only status tree | accept, shut down; read | shutdown races accept |
| **reverse** | pool of waiting streams, handshake and bridge slots, export workers | claim, bridge, reconnect, shut down | slots against failures; shutdown against registration |
| **front** | synthetic tree, reference counts, relays, logs | attach, detach, rename, relay, append | removal under open fids, relay answers after flush, eviction from a log |
| **fuse** | node table, handles, generations, read cache, mount state | kernel requests on a worker pool, reconnect, invalidation | workers use fids of a session that is being replaced |
| **auth, fs, beam-port, cli, bindings** | keys and records; host files; line protocol; supervisors | handshakes, system calls, commands | mostly sequential or I/O |

The parts stack up. A server session sits behind a connection facade. A
multiplexed client talks to it over a stream and relies on its reply contract. A
renewable session replaces multiplexed clients. The feed worker and the
materialization use a renewable session; the FUSE bridge and the namespace client
use all of these. `PROJECT.json` lists every component with its status and the
hazards at their source lines.

What each part has to guarantee:

- *server session*: no reservation leaks or is dropped early; a fid with an
  exclusive holder has no other; bound and promised fids stay below `max_fids`;
  what was validated at admission still holds at completion; no symlink reaches a
  plain 9P2000 peer;
- *connection*: at most one reply per request, and none after the Rflush or
  Rversion that settles it; slots are never lost; resets complete;
- *client*: an answer reaches the call it belongs to; whoever has a deadline
  returns; a failing call fails alone; tags do not leak;
- *renewable session*: one replacement per reported attachment; candidate, epoch
  and attachment agree; a closed session stays closed;
- *feed and materialization*: a tree reported coherent is the source's tree; the
  stored cursor never runs ahead of the stored tree; drop returns;
- *not yet modelled*: a fid keeps leading to the object it was bound to (namespace,
  FUSE); an interrupt reaches the outstanding request (tracker); nothing stale is
  called fresh (cache); every stream is bridged once or closed (reverse); nodes
  live as long as somebody refers to them (front).

## 2. Modules

| module | models | extends |
|---|---|---|
| `RequestTable` | keys, begin, finish, flush of `flush.rs` | |
| `ServerSession` | the server session | `RequestTable` |
| `ServerSessionProofs` | theorems about it | `ServerSession` |
| `ReplyContract` | abstract: what a peer may rely on when it reuses tags | `RequestTable` |
| `Connection` | the connection facade, refining `ReplyContract` | `RequestTable` |
| `MultiplexClient` | tags, waiters, reader, timeouts, flushes | |
| `ClientSession` | renewable session and resumable files | |
| `FeedWorker` | the feed worker and the bus | |
| `Materialization` | the materialization with its feed, disk, crash and drop | `FeedWorker` |
| `MC...` | instances for TLC | |

**ServerSession.** `fids`, `exclusive`, `shared`, `live`, `next_generation` and
`variant` are the fields of `Session` and its tables; `inflight` holds the
requests with the backend, with what admission validated. One action per
T-message does what `admit` does from the duplicate-tag check to the reservations.
A request that fails after a first reservation leaves nothing behind, since `admit`
finishes and releases it in the same call. `Complete` takes any request in flight
and any outcome; a stale key (flushed, or older than a Tversion) changes nothing.
Message fields that only decide between accept and reject are a nondeterministic
verdict. Directory offsets are numbers up to `MaxOffset`, standing for `u64`.
`MaxGeneration` bounds the number of requests of a run, where the code's `u64`
saturates. Not among the inputs: a fid of NOFID (but for Tattach's afid) and a
Tflush of NOTAG.

**Connection.** The serve loop is one process with a program counter, each worker
another. A step is what happens under one lock. `Unblock` (external) is a backend
that returns from a blocking `perform`; a cancelled and woken one does. That rests
on a contract `wake_after_cancel` leaves to the handler: a handler that blocks looks
at its cancel flag and goes to sleep under one lock, which `wake_after_cancel` takes
before it notifies, or its waits have a deadline. The trait's default does nothing
(`connection.rs:61`), for handlers that do not block; Front notifies without the
lock (`front.rs:1143`) and waits with a deadline. A panic inside `perform` is not
modelled.
`answered` and `horizon` are history for the refinement of `ReplyContract`.

**MultiplexClient.** A call, the flush its own thread sends when it times out, and
the flush another thread sends to interrupt it (`RequestTracker::interrupt`,
`ConcurrentReadFid::cancel`) are three processes with a channel each; a step is one
critical section. Only the calls in `Timed` have a deadline, only those in `Tracked`
are interrupted; every flush is bounded, as in the code, and one that times out
cancels its own waiter only. The server is external, answers in any order or never,
and keeps `ReplyContract`. With three tags the client meets in a few steps what
takes 65534 allocations in reality: a tag that is handed out while something in the
client still goes by its number. `reuse` records that. It is `"window"` when the
other user is about to be done with the tag (between an Rflush and `cancel_waiter`,
say) or still has a Tflush outstanding; the properties then claim nothing. It is
`"stranded"` when the other user is a call whose interrupter gave up and whose tag
a late Rflush freed, which can last for ever; `AnswerBelongsToCall` and
`NoInnocentFailure` are claimed there too. The latter says so when a call fails
because it was given such a tag.

**ClientSession.** Users run `reconnect`, `reconnect_after`, the calls of
`ResumableFid` and the feed worker's loop step by step: lock, check, connect, second
check, install, store the candidate, bump the epoch. The transport fails and
recovers, and errors that read like such a failure occur on attachments that work;
`shutdown` is two steps. `failed` is the argument of `reconnect_after`. `Dial` is
the connection attempt, which may never return.

**FeedWorker, Materialization.** The source is a log of change records; the
content of a file is the number of the record that wrote it. One event is one
record, or two that share its event id. The worker opens the stream,
catches up, publishes; `queue`, `closed` and `receiver` are the subscriber with its
mutex and condition variable. `local` and `cursor` are on disk and survive `Crash`.
The snapshot is read and published file by file. A drained batch is one step, and
so are reading and replacing a file for one event; setting `stop` and notifying are
one step of the drop. A rename on disk may have been made although the call reports
an error (its directory could not be synced). `gap` records that a catch-up timed out, or reconnected
without a cursor against a file of recent changes that may not reach back.
`wake` says whether the owner's wake handle still belongs to the current
subscription.

## 3. Runs

| run | instance | result |
|---|---|---|
| `server_session` | 3 fids of which 2 may be bound, 3 tags, 5 requests, symmetry | 9 properties hold, 34,629 states |
| `connection` | 2 tags, 1 fid, 3 requests, 2 workers | 4 invariants, the refinement of `ReplyContract` and 2 liveness properties hold, 68,025 states |
| `multiplex_client` | 2 calls with deadlines, one also interrupted, 3 tags | 5 invariants hold, 1.8 million states |
| `multiplex_client_returns` | 2 calls, one with a deadline and interrupted, 3 tags | 1 liveness property holds, 140,168 states |
| `multiplex_client_cancel` | 1 interrupted call without a deadline, 2 tags | violated: see below |
| `client_session` | 2 users, 2 candidates, 2 failures | 3 invariants, 1 action property, 1 liveness property hold, 53,696 states |
| `client_session_closed`, `_working` | 1 user, 1 candidate | violated: see below |
| `materialization` | 2 files, 2 changes, queue of 2, 2 starts, 1 failure, symmetry | 3 invariants hold, 1.5 million states |
| `materialization_timeout`, `_replay`, `_drop` | the same or smaller | violated: see below |

Bounds. Three fids with two allowed is the least instance in which one is refused,
one promised and one bound at once; five requests let a tag be reused after a
flush, after a completion and after a version reset. Two workers and a limit of two
reach the limit and hold one worker back while another is cancelled. Two calls
suffice for one call's timeout to hurt the other's tag, and three tags are fewer
than the five requests they and their flushes can have out, so that allocation also
fails. Two failures let a
replacement fail again. In the materialization, stream and catch-up together deliver
two changes up to four times, which overflows the queue, and a batch of two has a
record that does not complete it; over-long batches need a third change and are not
reached in this instance. A larger one with two failures (18.6 million states) was
checked as well. States in which a catch-up may have missed something, or a file
came back after a removal, are not expanded: the invariants exclude them, the
violation runs do not.

Fairness. Threads that can run do (weak fairness of the serve loop, each worker,
each call, the reader, the feed worker, the materialization's thread, a drop that has
begun). Calls that carry a timeout end by it, and so does every flush. A call
without one (`Timed` excludes it) waits as long as it takes. Nothing obliges a
server to answer, a source to change, a peer to send, or a connection attempt to
end: TCP connect, Tversion and Tattach have no deadline, and `CallsSettle` claims
nothing for who is in one or waits for the lock behind one.
`multiplex_client_cancel` alone assumes a server that answers every Tflush: the call
is not woken even so.

Every property has a mutant in `PROJECT.json`: a change of one mapped definition, as
a plausible slip in that code would make it, under which TLC finds the property
violated.

### What the violation runs show

- `multiplex_client_cancel`: the flush that cancels a call times out, which skips
  `cancel_waiter` for that call; the late Rflush frees its tag, and the call waits
  until the connection ends (`multiplex/client.rs:345`). Its waiter stays, and the
  next owner of the tag fails as a duplicate.
- `client_session_working`: the errno of an Rerror is guessed from its text, and one
  that mentions, say, a pipe makes a resumable file replace an attachment that works
  (`error.rs:83`). The feed worker asks for a replacement after any error at all.
- `client_session_closed`: a shutdown between the second look at `closed` and the
  installation leaves a closed session with a working attachment
  (`client_session.rs:190`).
- `materialization_timeout`: a catch-up that times out is taken for an empty one; a
  resumed tree that misses changes is reported coherent (`feed/worker.rs:167`).
- `materialization_replay`: a removal and a creation, delivered by the catch-up and
  again by the stream, take the file away again behind a stored cursor
  (`materialization.rs:563`). Outside this window the tree repairs itself: the second
  record of the copy restores the file, unless the process stops in between.
- `materialization_drop`: a wake-up sent between the look at `stop` and the wait is
  lost, and drop does not return (`feed/event.rs:144`). After a queue overflow the
  handle belongs to a subscription that is gone and wakes nobody at all.

## 4. Proofs

`ServerSessionProofs` proves, for any finite set of fids, any tags and any limits:
`TypeCorrect`, `KeysStayFresh`, `LedgerHolds`, `ExclusionHolds`, `FidLimitHolds`,
`SourceStaysStable`, `PlainDialectHolds`, `CompletionsApply` and, as an action
property, `ReservedFidsStayFrozen`. Assumed are only the types of the constants
(`SessionAssumption`, `MaxGenerationAssumption`).

The inductive invariant `SessionInv` is the conjunction of the invariants with
`HeldFidsBound`, which says that a fid held for change is bound. No part is
inductive alone. That a step leaves reserved fids alone needs the ledger
(reservations are exactly those the live requests call for); the ledger needs fresh
keys (a new request must not inherit reservations); the fid limit needs exclusion
(two requests never promise the same new fid) and the ledger (completion binds
exactly a promised one). `CompletionsApply` (no completion of a live request meets a
reservation conflict, a missing fid or a full table) follows from all of them
together, and is what `HeldFidsBound` is for.

The argument goes through two shapes. The `...Admits` lemmas show that every
T-message either changes nothing, or adds one request with its reservations.
`CompleteRequestCompletes` shows that a completion removes one request with its
reservations and changes no other fid than those it held. `StepShapes` puts them
together with version reset and flush, and each conjunct is proved once per shape.

Only model-checked: everything about `Connection`, `MultiplexClient`,
`ClientSession` and `Materialization`; all liveness, which the prover cannot treat
(fairness, ENABLED); and whatever would need induction over data.

## 5. Not modelled

Byte layout (codec, stat, FUSE and C interface wire formats), cryptography,
configuration and argument parsing, diagnostics and status reports: pure conversion
or I/O. Poisoned mutexes: a thread that panics while it holds one is a defect by
itself. Of the session's feed, the generation counts of `FeedWake` and further
subscribers are left out; of the materialization, directories and limits.

## 6. Plan

1. `Namespace`: routes, bindings, referral refresh, recovery of read-only routes;
   a fid keeps leading where it was bound, no binding of a lost client is used.
2. `FuseBridge` with `RequestTracker` and `NamespaceCache`: node table, reconnect and
   recovery, interrupts, invalidation from the feed without a cursor template, read
   cache; nothing stale is called fresh, an interrupt reaches the request.
3. `ReverseBroker` and `ReverseExport`: streams, slots, claims, shutdown; every
   stream is bridged once or closed, slots are conserved, drop returns.
4. `Front`: tree, reference counts, relays, logs; with an abstract tree to refine.
5. `ReadSnapshots` and `Broadcaster`; fid allocation and the compound calls of the
   multiplexed client (chunked and parallel reads against a plain read).
6. The mount supervisor, stream export and BEAM port.

Compositions: `Connection` over `ServerSession` (its reservations at the moment a
worker completes); `MultiplexClient` over `ReplyContract` in place of the external
server. Proofs to come, in this order: that `Connection` implements `ReplyContract`;
the invariants of `MultiplexClient` (waiters, tags) and `ClientSession`; the cursor
of `Materialization`.
