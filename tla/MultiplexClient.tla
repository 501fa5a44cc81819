--------------------------- MODULE MultiplexClient ---------------------------
(***************************************************************************)
(* The multiplexed 9P client (crates/core/src/multiplex, client.rs): many  *)
(* threads call through one connection, a reader thread hands each         *)
(* response to the thread that waits for its tag, and a call that times    *)
(* out, or is interrupted, is flushed.                                     *)
(*                                                                         *)
(* Shared state is behind three mutexes, each held for one step: the       *)
(* protocol client (live tags, flush targets), the response state          *)
(* (waiters, terminal error) and the writer.  A thread that allocates a    *)
(* tag, registers a waiter and writes its frame takes them in turn, and so *)
(* does the reader between accepting a response and handing it over.       *)
(*                                                                         *)
(* The server is external.  It answers requests in any order, or never,    *)
(* and keeps ReplyContract: after Rflush it does not answer the request    *)
(* the Tflush named.                                                       *)
(***************************************************************************)
EXTENDS Naturals, Sequences, FiniteSets, Functions

CONSTANTS Call,       \* the calls, each made once by a thread of its own
          Timed,      \* those made with a deadline
          Tracked,    \* those another thread may interrupt
          TagCount    \* tags 0..TagCount-1 are usable, TagCount is NOTAG

ASSUME ClientAssumption ==
    /\ Timed \subseteq Call /\ Tracked \subseteq Call
    /\ TagCount \in Nat \ {0}

VARIABLES live,            \* Client.pending: the tags in use
          next_tag,        \* Client.next_tag, wrapping
          flush_targets,   \* Client.flush_targets: tag -> oldtag
          waiters,         \* ResponseState.waiters: tag -> channel
          terminal,        \* ResponseState.terminal_error is set
          inbox,           \* channel -> what was sent to it
          pc,              \* process -> where it is
          tag,             \* process -> the tag it allocated
          reader,          \* the response the reader is handing over
          reading,         \* the reader thread has not stopped
          served,          \* requests the server has not dealt with
          net,             \* responses on their way to the client
          reuse            \* was a tag reused too early? (see Allocate)

vars == <<live, next_tag, flush_targets, waiters, terminal, inbox, pc, tag,
          reader, reading, served, net, reuse>>

proto == <<live, next_tag, flush_targets>>
conn == <<reader, reading, served, net>>

-----------------------------------------------------------------------------

Tag == 0..TagCount - 1
NOTAG == TagCount

\* A process is a call, or a flush of its tag (flush_tag_with): by the calling
\* thread when it times out, or by one that interrupts it.  Its channel (the mpsc
\* pair of its PendingCall) bears its name.
Process == [call : Call, role : {"call", "timeout", "interrupt"}]
Op(c) == [call |-> c, role |-> "call"]
OwnFlush(c) == [call |-> c, role |-> "timeout"]
Interrupter(c) == [call |-> c, role |-> "interrupt"]
Flush == {p \in Process : p.role # "call"}

\* "idle", then "noted" when a flush knows the tag it is to name, "built" (tag
\* allocated), "registered", "waiting"; "expired" when the call's time is up,
\* "cancel" when a flush has its Rflush; "ok", "failed" or, if it could not be
\* sent at all, "refused" at the end.
Ended == {"ok", "failed", "refused"}
Pc == {"idle", "noted", "built", "registered", "waiting", "expired", "cancel"} \cup Ended
UnderWay(p) == pc[p] \notin {"idle"} \cup Ended

\* Contents of a channel: nothing, an error, or the response to a request;
\* "closed" when the sender was dropped without sending.
Empty == [kind |-> "empty"]
Failure == [kind |-> "error"]
Closed == [kind |-> "closed"]
Response(p) == [kind |-> "response", of |-> p]

NoResponse == [tag |-> NOTAG]

\* A partial function without its entry for x.
Without(f, x) == Restrict(f, DOMAIN f \ {x})
With(f, x, v) == [y \in DOMAIN f \cup {x} |-> IF y = x THEN v ELSE f[y]]

Move(p, to) == pc' = [pc EXCEPT ![p] = to]

\* What is sent to the processes in ps; a receiver that is gone gets nothing,
\* and with the step those in leaving drop theirs.
Send(ps, v, leaving) ==
    inbox' = [p \in Process |->
                 IF p \in leaving THEN Empty
                 ELSE IF p \in ps /\ pc[p] \notin Ended \cup {"expired"} THEN v ELSE inbox[p]]

-----------------------------------------------------------------------------
(* Tags.                                                                   *)

\* Mutant of Allocatable: NOTAG is not skipped.
AllocatableNotag == {t \in 0..NOTAG : t \notin live}

\* alloc_tag: the first tag from next_tag on, wrapping, that is not live.  It
\* looks at one value less than there are, and NOTAG may be among them.
Distance(t) == (t + NOTAG + 1 - next_tag) % (NOTAG + 1)
Allocatable == {t \in Tag \ live : Distance(t) < NOTAG}
AllocTag == CHOOSE t \in Allocatable :
               \A u \in Allocatable : Distance(t) <= Distance(u)

\* A call that nothing in the client, and nothing the server owes it, will
\* wake: its tag was freed by an Rflush that came after its interrupter had
\* given up.  This can last for ever.
Stranded(p) ==
    /\ p = Op(p.call)
    /\ pc[p] = "waiting"
    /\ inbox[p] = Empty
    /\ tag[p] \notin live
    /\ reader.tag # tag[p]
    /\ pc[Interrupter(p.call)] = "failed"

\* Who still goes by this tag although it is free: a process that has not
\* returned, or a flush that names it.
Users(t) ==
    {p \in Process : /\ UnderWay(p)
                     /\ tag[p] = t \/ (p \in Flush /\ tag[Op(p.call)] = t)}

\* A tag with such a user is handed out.  Either all of them are stranded calls,
\* or it happens within a window that is over after a step of each of their
\* threads, or with the answer to a Tflush.
Reused(t) ==
    IF \/ reuse = "window"
       \/ t \in Range(flush_targets) \cup {reader.tag}
       \/ \E p \in Users(t) : ~Stranded(p)
    THEN "window"
    ELSE IF Users(t) # {} THEN "stranded" ELSE reuse

Allocate(p) ==
    /\ Allocatable # {}
    /\ tag' = [tag EXCEPT ![p] = AllocTag]
    /\ next_tag' = (AllocTag + 1) % (NOTAG + 1)
    /\ live' = live \cup {AllocTag}
    /\ reuse' = Reused(AllocTag)
    /\ Move(p, "built")

\* EDUPTAG; next_tag has moved all the same.
AllocateFails ==
    /\ Allocatable = {}
    /\ next_tag' = (next_tag + NOTAG) % (NOTAG + 1)
    /\ UNCHANGED <<live, tag, reuse>>

\* Client::abandon
Abandon(p) ==
    /\ live' = live \ {tag[p]}
    /\ flush_targets' = Without(flush_targets, tag[p])

\* Mutant of FailAll: the waiters are dropped without being told.
FailAllSilently(leaving) ==
    /\ terminal' = TRUE
    /\ waiters' = <<>>
    /\ UNCHANGED inbox

\* fail_all: every waiter gets the error, and later calls are refused.
FailAll(leaving) ==
    /\ terminal' = TRUE
    /\ waiters' = <<>>
    /\ Send(Range(waiters), Failure, leaving)

-----------------------------------------------------------------------------
(* Calls and flushes.                                                      *)

\* An operation is built.
Build(c) ==
    /\ pc[Op(c)] = "idle"
    /\ \/ Allocate(Op(c))
       \/ AllocateFails /\ Move(Op(c), "refused")
    /\ UNCHANGED <<flush_targets, waiters, terminal, inbox, conn>>

\* submit_message: the frame does not fit the negotiated msize.
EncodeFails(p) ==
    /\ pc[p] = "built"
    /\ p \notin Flush
    /\ Abandon(p)
    /\ Move(p, "refused")
    /\ UNCHANGED <<next_tag, waiters, terminal, inbox, tag, conn, reuse>>

Register(p) ==
    /\ pc[p] = "built"
    /\ ~terminal
    /\ waiters' = With(waiters, tag[p], p)
    /\ IF tag[p] \in DOMAIN waiters
       THEN \* duplicate waiter: the old sender is dropped all the same
            /\ Send({waiters[tag[p]]}, Closed, {p})
            /\ Abandon(p)
            /\ Move(p, "failed")
       ELSE /\ Move(p, "registered")
            /\ UNCHANGED <<inbox, live, flush_targets>>
    /\ UNCHANGED <<next_tag, terminal, tag, conn, reuse>>

RegisterRefused(p) ==
    /\ pc[p] = "built"
    /\ terminal
    /\ Abandon(p)
    /\ Move(p, "refused")
    /\ UNCHANGED <<next_tag, waiters, terminal, inbox, tag, conn, reuse>>

\* The frame goes out (nowhere, when the connection has ended meanwhile); a
\* Tflush names the tag of its call.
WriteFrame(p) ==
    /\ pc[p] = "registered"
    /\ served' = IF terminal THEN served ELSE served \cup
                 {[process |-> p, tag |-> tag[p],
                   oldtag |-> IF p \in Flush THEN tag[Op(p.call)] ELSE NOTAG]}
    /\ Move(p, "waiting")
    /\ UNCHANGED <<proto, waiters, terminal, inbox, tag, reader, reading,
                   net, reuse>>

WriteFails(p) ==
    /\ pc[p] = "registered"
    /\ FailAll({p})
    /\ Abandon(p)
    /\ Move(p, "failed")
    /\ served' = {}
    /\ UNCHANGED <<next_tag, tag, reader, reading, net, reuse>>

\* recv returns.  A call that got its response is done; so is one that got an
\* error.  A flush that got Rflush goes on to cancel the waiter.
Receive(p) ==
    /\ pc[p] = "waiting"
    /\ inbox[p] # Empty
    /\ Move(p, IF inbox[p].kind # "response" THEN "failed"
               ELSE IF p \in Flush THEN "cancel" ELSE "ok")
    /\ inbox' = [inbox EXCEPT ![p] = Empty]
    /\ UNCHANGED <<proto, waiters, terminal, tag, conn, reuse>>

\* wait_pending_response_timeout: recv_timeout gives up, and the call does not
\* look into its channel again.
Timeout(c) ==
    /\ c \in Timed
    /\ pc[Op(c)] = "waiting"
    /\ inbox[Op(c)] = Empty
    /\ pc' = [pc EXCEPT ![Op(c)] = "expired", ![OwnFlush(c)] = "noted"]
    /\ UNCHANGED <<proto, waiters, terminal, inbox, tag, conn, reuse>>

\* Another thread (RequestTracker::interrupt, ConcurrentReadFid::cancel) reads
\* the tag of a call that has not returned, under a mutex of its own; it may
\* have returned when the flush is built.  A thread whose request was interrupted
\* before it called flushes its own call (track_current); here the call goes on
\* beside that flush.
Interrupt(c) ==
    /\ c \in Tracked
    /\ pc[Op(c)] \in {"waiting", "expired"}
    /\ pc[Interrupter(c)] = "idle"
    /\ Move(Interrupter(c), "noted")
    /\ UNCHANGED <<proto, waiters, terminal, inbox, tag, conn, reuse>>

\* Client::flush, which fails when no tag is left.
BuildFlush(p) ==
    /\ pc[p] = "noted"
    /\ \/ /\ Allocate(p)
          /\ flush_targets' = With(flush_targets, AllocTag, tag[Op(p.call)])
       \/ /\ AllocateFails
          /\ Move(p, "failed")
          /\ UNCHANGED flush_targets
    /\ UNCHANGED <<waiters, terminal, inbox, conn>>

\* Mutant of CancelWaiter: it takes the waiters of all tags.
CancelEveryWaiter(t, p) ==
    /\ Send(Range(waiters), Failure, {p})
    /\ waiters' = <<>>

\* cancel_waiter(t, error): whoever waits for t is told.  The process p that
\* cancels returns with it.
CancelWaiter(t, p) ==
    /\ Send({waiters[u] : u \in {t} \cap DOMAIN waiters}, Failure, {p})
    /\ waiters' = Without(waiters, t)

\* After Rflush, flush_tag_with wakes whoever waits for the flushed tag.
FlushDone(p) ==
    /\ pc[p] = "cancel"
    /\ CancelWaiter(tag[Op(p.call)], p)
    /\ Move(p, "ok")
    /\ UNCHANGED <<proto, terminal, tag, conn, reuse>>

\* Mutants of FlushTimeout: it frees both tags although both may be answered;
\* only the flush of a timed-out call is bounded.
FlushTimeoutAbandons(p) ==
    /\ p \in Flush
    /\ pc[p] = "waiting"
    /\ inbox[p] = Empty
    /\ CancelWaiter(tag[p], p)
    /\ live' = live \ {tag[p], tag[Op(p.call)]}
    /\ flush_targets' = Without(flush_targets, tag[p])
    /\ Move(p, "failed")
    /\ UNCHANGED <<next_tag, terminal, tag, conn, reuse>>
FlushTimeoutOwn(p) ==
    /\ p \in Flush
    /\ pc[p] = "waiting"
    /\ inbox[p] = Empty
    /\ p.role = "timeout"
    /\ CancelWaiter(tag[p], p)
    /\ Move(p, "failed")
    /\ UNCHANGED <<proto, terminal, tag, conn, reuse>>

\* Every flush is bounded (flush_tag_timeout).  It cancels its own waiter and is
\* not flushed in turn; the waiter of the tag it was to flush stays.
FlushTimeout(p) ==
    /\ p \in Flush
    /\ pc[p] = "waiting"
    /\ inbox[p] = Empty
    /\ CancelWaiter(tag[p], p)
    /\ Move(p, "failed")
    /\ UNCHANGED <<proto, terminal, tag, conn, reuse>>

\* The timed-out call, its flush over, cancels its own waiter and fails.
TimeoutDone(c) ==
    /\ pc[Op(c)] = "expired"
    /\ pc[OwnFlush(c)] \in Ended
    /\ CancelWaiter(tag[Op(c)], Op(c))
    /\ Move(Op(c), "failed")
    /\ UNCHANGED <<proto, terminal, tag, conn, reuse>>

-----------------------------------------------------------------------------
(* The reader thread.                                                      *)

\* Mutant of ReaderAccept: Rflush does not free the tag it flushed.
ReaderAcceptKeepsTarget ==
    /\ reading
    /\ reader = NoResponse
    /\ net # <<>>
    /\ net' = Tail(net)
    /\ Head(net).tag \in live
    /\ live' = live \ {Head(net).tag}
    /\ flush_targets' = Without(flush_targets, Head(net).tag)
    /\ reader' = Head(net)
    /\ UNCHANGED <<next_tag, waiters, terminal, inbox, pc, tag, reading,
                   served, reuse>>

\* Client::receive: the tag, and for Rflush the flushed tag, become free.  A
\* response to a tag that is not live is dropped.
ReaderAccept ==
    /\ reading
    /\ reader = NoResponse
    /\ net # <<>>
    /\ net' = Tail(net)
    /\ LET r == Head(net)
           target == IF r.process \in Flush /\ r.tag \in DOMAIN flush_targets
                     THEN {flush_targets[r.tag]} ELSE {}
       IN  IF r.tag \in live
           THEN /\ live' = live \ ({r.tag} \cup target)
                /\ flush_targets' = Without(flush_targets, r.tag)
                /\ reader' = r
           ELSE UNCHANGED <<live, flush_targets, reader>>
    /\ UNCHANGED <<next_tag, waiters, terminal, inbox, pc, tag, reading,
                   served, reuse>>

\* The waiter of the tag, if there is one, is taken out and sent the response.
ReaderDeliver ==
    /\ reader # NoResponse
    /\ reader' = NoResponse
    /\ IF reader.tag \in DOMAIN waiters
       THEN /\ Send({waiters[reader.tag]}, Response(reader.process), {})
            /\ waiters' = Without(waiters, reader.tag)
       ELSE UNCHANGED <<inbox, waiters>>
    /\ UNCHANGED <<proto, terminal, pc, tag, reading, served, net, reuse>>

\* The connection ends, or delivers something that is no response: the reader
\* stops.
ReaderStops ==
    /\ reading
    /\ reader = NoResponse
    /\ reading' = FALSE
    /\ net' = <<>>
    /\ served' = {}
    /\ FailAll({})
    /\ UNCHANGED <<proto, pc, tag, reader, reuse>>

\* MultiplexedClient::shutdown; the reader stops when it has read what had
\* already arrived.
Shutdown ==
    /\ ~terminal
    /\ served' = {}
    /\ FailAll({})
    /\ UNCHANGED <<proto, pc, tag, reader, reading, net, reuse>>

-----------------------------------------------------------------------------
(* The server (external).                                                  *)

ServerAnswer(r) ==
    /\ r.oldtag = NOTAG
    /\ served' = served \ {r}
    /\ net' = Append(net, [process |-> r.process, tag |-> r.tag])
    /\ UNCHANGED <<proto, waiters, terminal, inbox, pc, tag, reader, reading,
                   reuse>>

\* Rflush; the flushed request, if it was not answered before, never will be.
ServerFlush(r) ==
    /\ r.oldtag # NOTAG
    /\ served' = {s \in served \ {r} : s.tag # r.oldtag}
    /\ net' = Append(net, [process |-> r.process, tag |-> r.tag])
    /\ UNCHANGED <<proto, waiters, terminal, inbox, pc, tag, reader, reading,
                   reuse>>

-----------------------------------------------------------------------------

Init ==
    /\ live = {}
    /\ next_tag = 0
    /\ flush_targets = <<>>
    /\ waiters = <<>>
    /\ terminal = FALSE
    /\ inbox = [p \in Process |-> Empty]
    /\ pc = [p \in Process |-> "idle"]
    /\ tag = [p \in Process |-> NOTAG]
    /\ reader = NoResponse
    /\ reading = TRUE
    /\ served = {}
    /\ net = <<>>
    /\ reuse = "none"

\* What a thread does by itself once its call is built, or its flush begun.
ProcessStep(p) ==
    \/ EncodeFails(p)
    \/ Register(p)
    \/ RegisterRefused(p)
    \/ WriteFrame(p)
    \/ WriteFails(p)
    \/ Receive(p)
    \/ BuildFlush(p) \/ FlushDone(p) \/ FlushTimeout(p)

Quiet ==
    /\ \A c \in Call : pc[Op(c)] \in Ended
    /\ UNCHANGED vars

Next ==
    \/ \E c \in Call : Build(c) \/ Timeout(c) \/ Interrupt(c) \/ TimeoutDone(c)
    \/ \E p \in Process : ProcessStep(p)
    \/ ReaderAccept
    \/ ReaderDeliver
    \/ ReaderStops
    \/ Shutdown
    \/ \E r \in served : ServerAnswer(r) \/ ServerFlush(r)
    \/ Quiet

\* Threads run and deadlines pass; a call need not have one, and the server need
\* not answer.
Fairness ==
    /\ \A p \in Process : WF_vars(ProcessStep(p))
    /\ \A c \in Call : WF_vars(Timeout(c) \/ TimeoutDone(c))
    /\ WF_vars(ReaderAccept)
    /\ WF_vars(ReaderDeliver)

Spec == Init /\ [][Next]_vars /\ Fairness

\* The server answers every Tflush.
FlushAnswered(p) == \E r \in served : r.process = p /\ ServerFlush(r)
SpecFlushAnswered == Spec /\ \A p \in Flush : WF_vars(FlushAnswered(p))

-----------------------------------------------------------------------------
(* Properties.                                                             *)

\* Every variable has its type; in particular NOTAG is never allocated nor
\* waited for (alloc_tag).
TypeOK ==
    /\ live \subseteq Tag
    /\ next_tag \in 0..NOTAG
    /\ DOMAIN flush_targets \subseteq Tag /\ Range(flush_targets) \subseteq Tag
    /\ DOMAIN waiters \subseteq Tag /\ Range(waiters) \subseteq Process
    /\ terminal \in BOOLEAN
    /\ reading \in BOOLEAN
    /\ pc \in [Process -> Pc]
    /\ tag \in [Process -> 0..NOTAG]
    /\ reuse \in {"none", "stranded", "window"}

\* A flush of this call has its Rflush and is about to cancel the waiter.
Cancelling(c) ==
    \E p \in Flush : /\ p.call = c
                     /\ \/ pc[p] = "cancel"
                        \/ pc[p] = "waiting" /\ (inbox[p] # Empty \/ reader.tag = tag[p])

\* A thread that waits has its answer in the channel, or its waiter registered
\* while somebody is to wake it: the server, which has not settled the tag, or a
\* flush that has its Rflush.  Neither the gap between registering and writing,
\* the one between accepting and delivering, nor the end of the connection
\* leaves one waiting in vain; the one hole is the call whose interrupter gave
\* up (see CancelledCallReturns).
NoLostWaiter ==
    reuse = "none" =>
        \A p \in Process :
            pc[p] \in {"registered", "waiting"} =>
                \/ inbox[p] # Empty
                \/ reader.tag = tag[p]
                \/ /\ tag[p] \in DOMAIN waiters /\ waiters[tag[p]] = p
                   /\ \/ tag[p] \in live
                      \/ Cancelling(p.call)
                      \/ pc[Interrupter(p.call)] = "failed"

\* A response reaches the thread whose request it answers, and no other, also
\* when timed-out calls are answered late and their tags are used again.
AnswerBelongsToCall ==
    reuse # "window" =>
        \A p \in Process :
            inbox[p].kind = "response" => inbox[p].of = p

\* A call that timed out or that somebody flushed.
Flushed(c) == pc[OwnFlush(c)] # "idle" \/ pc[Interrupter(c)] # "idle"

\* The tag of a call whose interrupter gave up: the Rflush may yet come and free
\* it, with the call still waiting for it.
Haunted(t) ==
    \E c \in Call : tag[Op(c)] = t /\ pc[Interrupter(c)] = "failed"

\* A call fails only for a reason of its own: it timed out, it was flushed, its
\* frame was refused, or the connection ended.  Timeouts and flushes of other
\* calls do not poison it, unless it is given the tag of one whose interrupter
\* gave up.
NoInnocentFailure ==
    reuse # "window" /\ ~terminal =>
        \A c \in Call : pc[Op(c)] = "failed" =>
            \/ Flushed(c)
            \/ Haunted(tag[Op(c)])

\* A tag stays live only for a request that is being sent, is with the
\* server, or whose response is on its way: timeouts leak no tag for good.
LiveTagsAccounted ==
    reuse = "none" /\ ~terminal =>
        \A t \in live :
            \/ \E p \in Process : tag[p] = t /\ pc[p] \in {"built", "registered"}
            \/ \E r \in served : r.tag = t \/ r.oldtag = t
            \/ \E i \in 1..Len(net) : net[i].tag = t
            \/ \E f \in DOMAIN flush_targets :
                 flush_targets[f] = t /\ \E i \in 1..Len(net) : net[i].tag = f

\* A call that has a deadline, or is under way when the connection ends, returns,
\* and so does every thread that flushes another's call, even if the server
\* answers nothing at all.
MustReturn(p) ==
    /\ UnderWay(p)
    /\ p \in Flush \/ p.call \in Timed \/ terminal
CallsReturn ==
    (\E p \in Process : MustReturn(p)) ~> ~(\E p \in Process : MustReturn(p))

\* "Blocks until this positional read completes, the transport fails, or the
\* request is explicitly cancelled." (opened_fid.rs:157): a call whose Tflush
\* goes out, to a server that answers every Tflush, returns.
CancelledCallReturns ==
    \A c \in Call :
        pc[Interrupter(c)] = "waiting" ~> pc[Op(c)] \in Ended

=============================================================================
