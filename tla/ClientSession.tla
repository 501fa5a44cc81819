---------------------------- MODULE ClientSession ----------------------------
(***************************************************************************)
(* A renewable attachment (crates/session/src/client_session.rs) used by   *)
(* several threads: a ResumableFid (resumable_fid.rs) re-opens its file on *)
(* a replacement when the transport fails, the feed worker (worker.rs)     *)
(* asks for one after any error, the FUSE bridge calls reconnect; one      *)
(* thread shuts the session down.                                          *)
(*                                                                         *)
(* Attachments are numbered in the order they become current, 1 being the  *)
(* one from_connected adopts; a replacement that is never installed has no *)
(* number.  Each atomic load, store and lock section of the code is a step *)
(* of its own.                                                             *)
(***************************************************************************)
EXTENDS Naturals

CONSTANTS Caller,
          Candidates,  \* connections.candidate_count()
          MaxFailures  \* bound: transport failures, calls of reconnect, and
                       \* errors on a working attachment that lead to one

ASSUME CandidatesAssumption ==
    Candidates \in Nat \ {0} /\ MaxFailures \in Nat

VARIABLES current,           \* the attachment `current' holds
          active_candidate,
          epoch,             \* number of bumps
          closed,
          reconnect,         \* holder of the reconnect lock, or Nobody
          via,               \* ghost: the candidate `current' is connected to
          alive,             \* attachments whose transport works
          failures,          \* ghost: counts against MaxFailures
          closer,            \* the thread in shutdown
          at_close,          \* ghost: `current' when closed was set, or 0
          pc,
          binding,           \* ResumableFid.binding.client, 0: no file open
          client,            \* the attachment a call is working with
          failed,            \* the argument of reconnect_after, 0: reconnect
          found              \* the candidate connect_from returned

session == <<current, active_candidate, epoch, closed, reconnect, via>>
world == <<alive, failures, closer, at_close>>
callers == <<pc, binding, client, failed, found>>
vars == <<session, world, callers>>

Nobody == "nobody"
Candidate == 0..(Candidates - 1)
Attachment == 1..(MaxFailures + 1)

-----------------------------------------------------------------------------
(* connect_from tries the candidates in turn from `start'; a transient     *)
(* failure ("down") moves on to the next, any other error ("refused")      *)
(* fails closed.  reach is what each candidate answers at the time.        *)

Rotate(start, k) == (start + k) % Candidates

Reach == [Candidate -> {"up", "down", "refused"}]
Reaches(reach, start, k) ==
    /\ \A j \in 0..(k - 1) : reach[Rotate(start, j)] = "down"
    /\ reach[Rotate(start, k)] = "up"

\* Mutant of ConnectFrom: the index it returns is not wrapped.
ConnectFromUnwrapped(reach, start) ==
    {start + k : k \in {k \in Candidate : Reaches(reach, start, k)}}

ConnectFrom(reach, start) ==
    {Rotate(start, k) : k \in {k \in Candidate : Reaches(reach, start, k)}}

\* reconnect begins with the active candidate, reconnect_after with the next.
StartCandidate(c) ==
    IF failed[c] = 0 THEN active_candidate ELSE Rotate(active_candidate, 1)

\* A ResumableFid in reopen_after_failure; the others have no file to reopen.
Resumes(c) == failed[c] # 0 /\ binding[c] # 0

-----------------------------------------------------------------------------
(* A caller.                                                               *)

Goto(c, from, to) == pc[c] = from /\ pc' = [pc EXCEPT ![c] = to]

\* ResumableFid::open and reopen_after_failure: open_binding on the client.
Open(c) ==
    /\ Goto(c, "idle", "open")
    /\ binding[c] = 0
    /\ ~closed
    /\ client' = [client EXCEPT ![c] = current]
    /\ UNCHANGED <<session, world, binding, failed, found>>

\* open returns; a read or write whose reopen succeeded repeats itself.
OpenBinding(c) ==
    /\ Goto(c, "open", IF binding[c] = 0 THEN "idle" ELSE "io")
    /\ client[c] \in alive
    /\ binding' = [binding EXCEPT ![c] = client[c]]
    /\ client' = [client EXCEPT ![c] = 0]
    /\ UNCHANGED <<session, world, failed, found>>

\* The walk or the open failed: the error goes to the user, binding is kept.
OpenBindingFails(c) ==
    /\ Goto(c, "open", "idle")
    /\ client' = [client EXCEPT ![c] = 0]
    /\ UNCHANGED <<session, world, binding, failed, found>>

\* An error that makes its reader ask for a replacement: the attachment is dead,
\* or something else went wrong on one that works.
Complains(a) ==
    \/ a \notin alive /\ UNCHANGED failures
    \/ a \in alive /\ failures < MaxFailures /\ failures' = failures + 1

\* ResumableFid::read and write: send the request; the answer or an error that
\* goes to the user, or one is_definitive_transport_failure holds of.  It goes
\* by errno and text, also those of an Rerror.
Io(c) ==
    /\ Goto(c, "idle", "io")
    /\ binding[c] # 0
    /\ UNCHANGED <<session, world, binding, client, failed, found>>
IoReturns(c) ==
    /\ Goto(c, "io", "idle")
    /\ UNCHANGED <<session, world, binding, client, failed, found>>
IoFails(c) ==
    /\ Goto(c, "io", "lock")
    /\ Complains(binding[c])
    /\ failed' = [failed EXCEPT ![c] = binding[c]]
    /\ UNCHANGED <<session, alive, closer, at_close, binding, client, found>>

\* feed_loop: opening the stream, or reading it, fails with any error; the
\* stream is given up and opened again after reconnect_after.
FeedFails(c) ==
    /\ \/ Goto(c, "open", "lock") /\ binding[c] = 0 /\ Complains(client[c])
       \/ Goto(c, "io", "lock") /\ Complains(binding[c])
    /\ failed' = [failed EXCEPT ![c] = IF binding[c] = 0 THEN client[c] ELSE binding[c]]
    /\ binding' = [binding EXCEPT ![c] = 0]
    /\ client' = [client EXCEPT ![c] = 0]
    /\ UNCHANGED <<session, alive, closer, at_close, found>>

\* ResumableFid::close; the clunk's result does not matter here.
Close(c) ==
    /\ Goto(c, "idle", "idle")
    /\ binding[c] # 0
    /\ binding' = [binding EXCEPT ![c] = 0]
    /\ UNCHANGED <<session, world, client, failed, found>>

\* A consumer that calls reconnect whatever the state of the attachment.
Reconnect(c) ==
    /\ Goto(c, "idle", "lock")
    /\ failures < MaxFailures
    /\ failures' = failures + 1
    /\ UNCHANGED <<session, alive, closer, at_close, binding, client, failed, found>>

\* Mutant of Lock: it does not exclude.
LockShared(c) ==
    /\ Goto(c, "lock", "check")
    /\ reconnect' = c
    /\ UNCHANGED <<current, active_candidate, epoch, closed, via, world,
                   binding, client, failed, found>>

Lock(c) ==
    /\ Goto(c, "lock", "check")
    /\ reconnect = Nobody
    /\ reconnect' = c
    /\ UNCHANGED <<current, active_candidate, epoch, closed, via, world,
                   binding, client, failed, found>>

\* Mutant of Fail: the lock is kept.
FailKeepsLock(c) ==
    /\ pc' = [pc EXCEPT ![c] = "idle"]
    /\ failed' = [failed EXCEPT ![c] = 0]
    /\ found' = [found EXCEPT ![c] = 0]
    /\ UNCHANGED reconnect

\* reconnect or reconnect_after returns an error: the guard is dropped, and a
\* ResumableFid hands the error to its user.
Fail(c) ==
    /\ reconnect' = Nobody
    /\ pc' = [pc EXCEPT ![c] = "idle"]
    /\ failed' = [failed EXCEPT ![c] = 0]
    /\ found' = [found EXCEPT ![c] = 0]

\* The guard is dropped on return; a ResumableFid goes on to open_binding.
Return(c) ==
    /\ reconnect' = Nobody
    /\ pc' = [pc EXCEPT ![c] = IF Resumes(c) THEN "open" ELSE "idle"]
    /\ client' = [client EXCEPT ![c] = IF Resumes(c) THEN current ELSE 0]
    /\ failed' = [failed EXCEPT ![c] = 0]
    /\ found' = [found EXCEPT ![c] = 0]

\* Mutant of Check: whoever saw a failure reconnects.
CheckAlways(c) ==
    /\ pc[c] = "check"
    /\ \/ closed /\ Fail(c)
       \/ /\ ~closed
          /\ pc' = [pc EXCEPT ![c] = "connect"]
          /\ UNCHANGED <<reconnect, failed, found>>
    /\ UNCHANGED <<current, active_candidate, epoch, closed, via, world,
                   binding, client>>

\* snapshot and, in reconnect_after, same_session.
Check(c) ==
    /\ pc[c] = "check"
    /\ \/ closed /\ Fail(c) /\ UNCHANGED client
       \/ /\ ~closed
          /\ failed[c] \notin {0, current}
          /\ Return(c)
       \/ /\ ~closed
          /\ failed[c] \in {0, current}
          /\ pc' = [pc EXCEPT ![c] = "connect"]
          /\ UNCHANGED <<reconnect, client, failed, found>>
    /\ UNCHANGED <<current, active_candidate, epoch, closed, via, world,
                   binding>>

\* The rest is replace_from, the lock held throughout.
Connect(c) ==
    /\ pc[c] = "connect"
    /\ \/ closed /\ Fail(c)
       \/ /\ ~closed
          /\ pc' = [pc EXCEPT ![c] = "dial"]
          /\ UNCHANGED <<reconnect, failed, found>>
    /\ UNCHANGED <<current, active_candidate, epoch, closed, via, world,
                   binding, client>>

\* connect_from returns.
Dial(c) ==
    /\ pc[c] = "dial"
    /\ \E reach \in Reach :
          LET reached == ConnectFrom(reach, StartCandidate(c))
          IN  \/ reached = {} /\ Fail(c)
              \/ \E i \in reached :
                    /\ found' = [found EXCEPT ![c] = i]
                    /\ pc' = [pc EXCEPT ![c] = "recheck"]
                    /\ UNCHANGED <<reconnect, failed>>
    /\ UNCHANGED <<current, active_candidate, epoch, closed, via, world,
                   binding, client>>

Recheck(c) ==
    /\ pc[c] = "recheck"
    /\ \/ closed /\ Fail(c)
       \/ /\ ~closed
          /\ pc' = [pc EXCEPT ![c] = "install"]
          /\ UNCHANGED <<reconnect, failed, found>>
    /\ UNCHANGED <<current, active_candidate, epoch, closed, via, world,
                   binding, client>>

Install(c) ==
    /\ Goto(c, "install", "store")
    /\ current' = current + 1
    /\ via' = found[c]
    /\ alive' = alive \cup {current + 1}
    /\ UNCHANGED <<active_candidate, epoch, closed, reconnect, failures, closer,
                   at_close, binding, client, failed, found>>

\* Mutant of StoreCandidate: where the search began, not where it ended.
StoreStart(c) ==
    /\ Goto(c, "store", "bump")
    /\ active_candidate' = StartCandidate(c)
    /\ UNCHANGED <<current, epoch, closed, reconnect, via, world, binding,
                   client, failed, found>>

StoreCandidate(c) ==
    /\ Goto(c, "store", "bump")
    /\ active_candidate' = found[c]
    /\ UNCHANGED <<current, epoch, closed, reconnect, via, world, binding,
                   client, failed, found>>

Bump(c) ==
    /\ pc[c] = "bump"
    /\ epoch' = epoch + 1
    /\ Return(c)
    /\ UNCHANGED <<current, active_candidate, closed, via, world, binding>>

-----------------------------------------------------------------------------
(* Shutdown, and the network.                                              *)

ShutdownClose ==
    /\ closer = "idle"
    /\ closed' = TRUE
    /\ closer' = "closed"
    /\ at_close' = current
    /\ UNCHANGED <<current, active_candidate, epoch, reconnect, via, alive,
                   failures, callers>>

\* Reads `current' and shuts that client down.
ShutdownClient ==
    /\ closer = "closed"
    /\ closer' = "done"
    /\ alive' = alive \ {current}
    /\ UNCHANGED <<session, failures, at_close, callers>>

TransportFails ==
    /\ failures < MaxFailures
    /\ failures' = failures + 1
    /\ \E a \in alive : alive' = alive \ {a}
    /\ UNCHANGED <<session, closer, at_close, callers>>

-----------------------------------------------------------------------------

Init ==
    /\ current = 1
    /\ active_candidate = 0
    /\ epoch = 0
    /\ closed = FALSE
    /\ reconnect = Nobody
    /\ via = 0
    /\ alive = {1}
    /\ failures = 0
    /\ closer = "idle"
    /\ at_close = 0
    /\ pc = [c \in Caller |-> "idle"]
    /\ binding = [c \in Caller |-> 0]
    /\ client = [c \in Caller |-> 0]
    /\ failed = [c \in Caller |-> 0]
    /\ found = [c \in Caller |-> 0]

\* What a caller does by itself once it is in a call.
Run(c) ==
    \/ OpenBinding(c) \/ OpenBindingFails(c)
    \/ Lock(c) \/ Check(c) \/ Connect(c) \/ Recheck(c)
    \/ Install(c) \/ StoreCandidate(c) \/ Bump(c)

Next ==
    \/ \E c \in Caller :
          \/ Open(c) \/ Io(c) \/ IoReturns(c) \/ Close(c) \/ Reconnect(c)
          \/ IoFails(c) \/ FeedFails(c) \/ Run(c) \/ Dial(c)
    \/ ShutdownClose \/ ShutdownClient
    \/ TransportFails

\* The reader thread tells whoever waits on a dead attachment.
Notices(c) ==
    /\ pc[c] = "io"
    /\ binding[c] \notin alive
    /\ IoReturns(c) \/ IoFails(c) \/ FeedFails(c)

\* A thread in a call keeps running: the requests of open_binding end by their
\* timeout (a request_timeout of zero, which means none, aside).  Nothing makes
\* the server answer a read, and nothing a connection attempt end: connecting,
\* Tversion and Tattach have no deadline.  The mutex is not fair.
Fairness == \A c \in Caller : WF_vars(Run(c)) /\ WF_vars(Notices(c))

Spec == Init /\ [][Next]_vars /\ Fairness

-----------------------------------------------------------------------------
(* Properties.                                                             *)

\* Every variable has its type; in particular the active candidate is always an
\* index into the connection set (connect_from).
TypeOK ==
    /\ current \in Attachment
    /\ active_candidate \in Candidate
    /\ epoch \in Nat
    /\ closed \in BOOLEAN
    /\ reconnect \in Caller \cup {Nobody}
    /\ via \in Candidate
    /\ alive \subseteq 1..current
    /\ failures \in 0..MaxFailures
    /\ closer \in {"idle", "closed", "done"}
    /\ at_close \in 0..current
    /\ pc \in [Caller -> {"idle", "open", "io", "lock", "check", "connect",
                          "dial", "recheck", "install", "store", "bump"}]
    /\ binding \in [Caller -> 0..current]
    /\ client \in [Caller -> 0..current]
    /\ failed \in [Caller -> 0..current]
    /\ found \in [Caller -> Candidate]

Replacing == {c \in Caller : pc[c] \in {"check", "connect", "dial", "recheck",
                                        "install", "store", "bump"}}

\* The reconnect lock serialises replacements, and whenever it is free the
\* active candidate is the one the current attachment is connected to and the
\* epoch has moved exactly as often as the attachment: every error path of
\* reconnect and replace_from leaves the three in step.
ReplacementSettles ==
    /\ Replacing = {c \in Caller : reconnect = c}
    /\ reconnect = Nobody =>
          active_candidate = via /\ epoch + 1 = current

\* "Reconnects only when `failed` is still the current attachment"
\* (client_session.rs:129): an attachment is replaced by reconnect, or by a
\* caller that had trouble with that very attachment, never by one that waited
\* for the lock while another replaced it.
ReplacesOnlyReported ==
    [][current' # current =>
          \E c \in Caller : reconnect = c /\ failed[c] \in {0, current}]_vars

\* Whatever is under way when shutdown marks the session closed, at most one
\* more attachment becomes current: the replacement of the one caller that had
\* passed the second check of replace_from.
ClosedInstallsAtMostOne ==
    closed => current <= at_close + 1

\* A caller that is in a call and waits neither for the server's answer on a
\* working attachment, nor for a connection attempt, its own or that of the
\* holder of the lock.
Dialing == \E c \in Caller : reconnect = c /\ pc[c] = "dial"
Busy(c) ==
    /\ pc[c] \notin {"idle", "dial"}
    /\ ~(pc[c] = "io" /\ binding[c] \in alive)
    /\ ~(pc[c] = "lock" /\ reconnect # Nobody)

\* Every open, read, write and reconnect comes back to its user, or to waiting
\* for an answer, a connection or the lock: a file whose transport failed is
\* reopened or its error reported.  Nobody keeps the reconnect lock except for
\* a connection attempt.
CallsSettle ==
    /\ \A c \in Caller : Busy(c) ~> ~Busy(c)
    /\ []<>(reconnect = Nobody \/ Dialing)

\* "Returns true only when the current transport can no longer carry requests.
\* Timeouts and temporary backpressure are intentionally excluded."
\* (error.rs:78, is_definitive_transport_failure): a ResumableFid has no
\* working attachment replaced.
ReplacesOnlyFailed ==
    [][current' # current =>
          \A c \in Caller : reconnect = c /\ Resumes(c) => current \notin alive]_vars

\* "Permanently closes this session and interrupts calls on its current
\* attachment. A closed session cannot reconnect." (client_session.rs:168):
\* once shutdown is over and nobody is replacing the attachment, the current
\* one does not work.
ClosedCannotReconnect ==
    closer = "done" /\ reconnect = Nobody => current \notin alive

=============================================================================
