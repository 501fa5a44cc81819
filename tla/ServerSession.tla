---------------------------- MODULE ServerSession ----------------------------
(***************************************************************************)
(* One 9P server session: fid table, fid reservations and request table    *)
(* (crates/core/src/server/session.rs), driven by the two halves of        *)
(* request processing, admit and complete (server/handlers.rs).            *)
(*                                                                         *)
(* admit checks a T-message against the session and, for an operation the  *)
(* backend has to perform, reserves the fids it needs and dispatches it;   *)
(* complete applies the backend's answer.  Between the two anything may    *)
(* happen: other admissions, completions in any order, a Tflush, a         *)
(* Tversion.  `inflight' holds the dispatched requests whose complete call *)
(* has not happened yet, live or not.                                      *)
(*                                                                         *)
(* Abstracted: names are counted, not spelled; a qid is its type; byte     *)
(* payloads are lengths; replies are not recorded (Connection does that).  *)
(* `valid' is the outcome of the checks of message fields that do not read *)
(* the session: authorize_uname, validate_walk_names, validate_wstat, mode *)
(* bits, the size of a Twrite.                                             *)
(***************************************************************************)
EXTENDS RequestTable, FiniteSets

CONSTANTS Fid,            \* fid numbers, NOFID excluded
          NOFID,
          MaxFids,        \* ServerConfig.max_fids
          ConfigVariant,  \* ServerConfig.variant
          MaxNames,       \* bound on the names of one Twalk (MAXWELEM)
          MaxOffset,      \* bound on directory offsets (u64 in the code)
          Modes           \* open modes the peer tries

ASSUME SessionAssumption ==
    /\ IsFiniteSet(Fid)
    /\ NOFID \notin Fid
    /\ MaxFids \in Nat
    /\ ConfigVariant \in {"9P2000", "9P2000.R"}
    /\ MaxNames \in Nat
    /\ MaxOffset \in Nat
    /\ Modes \subseteq {"read", "trunc", "write", "rdwr", "bad"}

VARIABLES negotiated,       \* BOOLEAN
          variant,          \* the negotiated dialect, or "none"
          fids,             \* fid -> FidState, Unbound when not in the map
          exclusive,        \* exclusive reservations
          shared,           \* shared reservations
          live,             \* RequestTable.live
          next_generation,  \* RequestTable.next_generation
          inflight          \* dispatched requests not completed yet

vars == <<negotiated, variant, fids, exclusive, shared, live,
          next_generation, inflight>>

-----------------------------------------------------------------------------
(* Types.                                                                  *)

QidType == {"dir", "file", "auth", "symlink"}
OpenMode == {"none", "read", "trunc", "write", "rdwr", "bad"}
Offset == 0..MaxOffset
Variant == {"9P2000", "9P2000.R"}

FidState == [qid : QidType \cup {"none"}, open_mode : OpenMode,
             directory_offset : Offset]

FidStateNew(qid) ==
    [qid |-> qid, open_mode |-> "none", directory_offset |-> 0]
FidStateOpened(qid, mode) ==
    [qid |-> qid, open_mode |-> mode, directory_offset |-> 0]
Unbound == FidStateNew("none")

Reservation == [fid : Fid, request : RequestKey, new_fid : BOOLEAN]
SharedReservation == [fid : Fid, request : RequestKey]

Kind == {"auth", "attach", "walk", "open", "create", "read", "write", "clunk",
         "remove", "stat", "wstat", "renameat", "referrals"}

\* fid2 is the afid of an attach, the newfid of a walk and the newdirfid of a
\* renameat; n is the number of names of a walk and the offset of a read; qid
\* is what the session handed to the backend as the fid's qid.
Request ==
    {r \in [key : RequestKey, kind : Kind, fid : Fid, fid2 : Fid \cup {NOFID},
            qid : QidType \cup {"none"}, mode : OpenMode,
            n : 0..MaxNames \cup Offset] :
        r.kind \in {"walk", "renameat"} => r.fid2 \in Fid}

Req(key, kind, fid, fid2, qid, mode, n) ==
    [key |-> key, kind |-> kind, fid |-> fid, fid2 |-> fid2, qid |-> qid,
     mode |-> mode, n |-> n]

\* mode.rs: OREAD, OREAD|OTRUNC, OWRITE and ORDWR stand for the valid modes
\* (ORCLOSE changes nothing here), "bad" for one with an unknown bit.
IsValidMode(mode) == mode # "bad"
IsDirectoryMode(mode) == mode = "read"
PermitsRead(mode) == mode \in {"read", "trunc", "rdwr"}
PermitsWrite(mode) == mode \in {"write", "rdwr"}

-----------------------------------------------------------------------------
(* The fid table and its reservations (session.rs).                        *)

Bound(f) == fids[f] # Unbound
BoundFids == {f \in Fid : Bound(f)}
NewFids == {f \in Fid : \E e \in exclusive : e.fid = f /\ e.new_fid}

FidCount == Cardinality(BoundFids) + Cardinality(NewFids)
ContainsFid(f) == Bound(f) \/ f \in NewFids

EnsureAvailable(f) == \A e \in exclusive : e.fid # f

\* Mutant of EnsureUnreserved: shared reservations are forgotten.
EnsureNotExclusive(f) == EnsureAvailable(f)

EnsureUnreserved(f) == EnsureAvailable(f) /\ \A s \in shared : s.fid # f

\* Session::fid succeeds.
HasFid(f) == EnsureAvailable(f) /\ Bound(f)

CanReserveExisting(f) == Bound(f) /\ EnsureUnreserved(f)
CanReserveShared(f) == Bound(f) /\ EnsureAvailable(f)

\* Mutants of CanReserveNew: fids promised to other requests do not count; a
\* fid in use is taken again.
CanReserveNewUncounted(f) ==
    ~ContainsFid(f) /\ EnsureUnreserved(f) /\ Cardinality(BoundFids) < MaxFids
CanReserveNewInUse(f) == EnsureUnreserved(f) /\ FidCount < MaxFids

CanReserveNew(f) ==
    ~ContainsFid(f) /\ EnsureUnreserved(f) /\ FidCount < MaxFids

\* Mutant of CanRetire: a fid others walk from may be clunked.
CanRetireShared(f) == EnsureAvailable(f) /\ Bound(f)

CanRetire(f) == EnsureUnreserved(f) /\ Bound(f)

ReserveExisting(f, key) == {[fid |-> f, request |-> key, new_fid |-> FALSE]}
ReserveNew(f, key) == {[fid |-> f, request |-> key, new_fid |-> TRUE]}
ReserveShared(f, key) == {[fid |-> f, request |-> key]}

ReleaseReservations(reservations, keys) ==
    {e \in reservations : e.request \notin keys}

\* bind_fid, called by complete after it released the request's reservations.
BindFid(f, state, key) ==
    IF /\ \A e \in ReleaseReservations(exclusive, {key}) : e.fid # f
       /\ \A s \in ReleaseReservations(shared, {key}) : s.fid # f
       /\ Bound(f) \/ Cardinality(BoundFids) < MaxFids
    THEN [fids EXCEPT ![f] = state]
    ELSE fids
InsertNewFid(f, state, key) == IF Bound(f) THEN fids ELSE BindFid(f, state, key)

-----------------------------------------------------------------------------
(* Tversion.                                                               *)

Accept(requested) ==
    CASE requested = "9P2000.R" /\ ConfigVariant = "9P2000.R" -> "9P2000.R"
      [] requested \in {"9P2000.R", "9P2000"} -> "9P2000"
      [] OTHER -> "none"

\* Mutant of Version: the generations start again.
VersionRestarts(requested) ==
    /\ next_generation < MaxGeneration
    /\ fids' = [f \in Fid |-> Unbound]
    /\ exclusive' = {}
    /\ shared' = {}
    /\ live' = {}
    /\ next_generation' = 0
    /\ variant' = Accept(requested)
    /\ negotiated' = (Accept(requested) # "none")
    /\ UNCHANGED inflight

\* admit of Tversion: reset_for_version.  "small" stands for a requested
\* msize below MIN_MSIZE and "other" for a version string that is not 9P2000.
Version(requested) ==
    /\ next_generation < MaxGeneration
    /\ fids' = [f \in Fid |-> Unbound]
    /\ exclusive' = {}
    /\ shared' = {}
    /\ live' = {}
    /\ next_generation' = next_generation + 1
    /\ variant' = Accept(requested)
    /\ negotiated' = (Accept(requested) # "none")
    /\ UNCHANGED inflight

-----------------------------------------------------------------------------
(* Admission.                                                              *)

NextKey(tag) == Key(tag, next_generation)

\* begin, then either the reservations ex and sh and the dispatch of r, or an
\* error: finish_with_reply gives up the key and whatever it had reserved.
\* MaxGeneration bounds the run: in the code next_generation is a u64 that
\* saturates.  A fid of NOFID, but for the afid of a Tattach, and a Tflush
\* whose oldtag is NOTAG are not among the inputs.
Admit(r, ok, ex, sh, fd) ==
    /\ negotiated
    /\ ~IsLive(live, r.key.tag)
    /\ next_generation < MaxGeneration
    /\ next_generation' = next_generation + 1
    /\ \/ /\ ok
          /\ live' = live \cup {r.key}
          /\ inflight' = inflight \cup {r}
          /\ exclusive' = exclusive \cup ex
          /\ shared' = shared \cup sh
          /\ fids' = fd
       \/ /\ ~ok
          /\ exclusive' = ReleaseReservations(exclusive \cup ex, {r.key})
          /\ shared' = ReleaseReservations(shared \cup sh, {r.key})
          /\ UNCHANGED <<live, inflight, fids>>
    /\ UNCHANGED <<negotiated, variant>>

Auth(tag, afid, valid) ==
    LET key == NextKey(tag)
    IN  Admit(Req(key, "auth", afid, NOFID, "none", "none", 0),
              valid /\ CanReserveNew(afid),
              ReserveNew(afid, key), {}, fids)

Attach(tag, fid, afid, valid) ==
    LET key == NextKey(tag)
        auth == IF afid = NOFID THEN {} ELSE {afid}
    IN  Admit(Req(key, "attach", fid, afid, "none", "none", 0),
              /\ valid
              /\ \A a \in auth : /\ HasFid(a)
                                 /\ fids[a].qid = "auth"
                                 /\ CanReserveExisting(a)
              /\ CanReserveNew(fid),
              ReserveNew(fid, key)
                  \cup (UNION {ReserveExisting(a, key) : a \in auth}),
              {}, fids)

Walk(tag, fid, newfid, n, valid) ==
    LET key == NextKey(tag)
        walkable == /\ valid
                    /\ HasFid(fid)
                    /\ fids[fid].open_mode = "none"
                    /\ n > 0 => fids[fid].qid = "dir"
        r == Req(key, "walk", fid, newfid, fids[fid].qid, "none", n)
    IN  \/ /\ newfid = fid
           /\ Admit(r, walkable /\ CanReserveExisting(fid),
                    ReserveExisting(fid, key), {}, fids)
        \/ /\ newfid # fid
           /\ Admit(r, walkable /\ CanReserveShared(fid) /\ CanReserveNew(newfid),
                    ReserveNew(newfid, key), ReserveShared(fid, key), fids)

Open(tag, fid, mode) ==
    LET key == NextKey(tag)
    IN  Admit(Req(key, "open", fid, NOFID, fids[fid].qid, mode, 0),
              /\ HasFid(fid)
              /\ fids[fid].open_mode = "none"
              /\ IsValidMode(mode)
              /\ fids[fid].qid = "dir" => IsDirectoryMode(mode)
              /\ CanReserveExisting(fid),
              ReserveExisting(fid, key), {}, fids)

\* dir: the permissions ask for a directory (DMDIR).
Create(tag, fid, mode, dir) ==
    LET key == NextKey(tag)
    IN  Admit(Req(key, "create", fid, NOFID, fids[fid].qid, mode, 0),
              /\ HasFid(fid)
              /\ fids[fid].open_mode = "none"
              /\ fids[fid].qid = "dir"
              /\ IsValidMode(mode)
              /\ dir => IsDirectoryMode(mode)
              /\ CanReserveExisting(fid),
              ReserveExisting(fid, key), {}, fids)

\* Only a directory read reserves its fid: it moves the directory offset.
Read(tag, fid, offset) ==
    LET key == NextKey(tag)
        state == fids[fid]
    IN  Admit(Req(key, "read", fid, NOFID, state.qid, "none", offset),
              /\ HasFid(fid)
              /\ \/ state.qid = "auth"
                 \/ /\ PermitsRead(state.open_mode)
                    /\ state.qid = "dir" =>
                          offset \in {0, state.directory_offset}
              /\ state.qid = "dir" => CanReserveExisting(fid),
              IF state.qid = "dir" THEN ReserveExisting(fid, key) ELSE {},
              {}, fids)

Write(tag, fid, valid) ==
    Admit(Req(NextKey(tag), "write", fid, NOFID, fids[fid].qid, "none", 0),
          /\ valid
          /\ HasFid(fid)
          /\ \/ fids[fid].qid = "auth"
             \/ fids[fid].qid # "dir" /\ PermitsWrite(fids[fid].open_mode),
          {}, {}, fids)

\* Tclunk and Tremove take the fid out of the table at once; the reservation
\* keeps its number from being reused until the backend is done.
RetireFid(tag, fid, kind) ==
    LET key == NextKey(tag)
    IN  Admit(Req(key, kind, fid, NOFID, fids[fid].qid, "none", 0),
              CanRetire(fid),
              ReserveExisting(fid, key), {},
              [fids EXCEPT ![fid] = Unbound])
Clunk(tag, fid) == RetireFid(tag, fid, "clunk")
Remove(tag, fid) == RetireFid(tag, fid, "remove")

Stat(tag, fid) ==
    Admit(Req(NextKey(tag), "stat", fid, NOFID, fids[fid].qid, "none", 0),
          HasFid(fid), {}, {}, fids)

Wstat(tag, fid, valid) ==
    LET key == NextKey(tag)
    IN  Admit(Req(key, "wstat", fid, NOFID, fids[fid].qid, "none", 0),
              HasFid(fid) /\ valid /\ CanReserveExisting(fid),
              ReserveExisting(fid, key), {}, fids)

RenameAt(tag, olddirfid, newdirfid, valid) ==
    LET key == NextKey(tag)
    IN  Admit(Req(key, "renameat", olddirfid, newdirfid, fids[olddirfid].qid,
                  "none", 0),
              /\ variant = "9P2000.R"
              /\ valid
              /\ \A f \in {olddirfid, newdirfid} :
                    HasFid(f) /\ fids[f].qid = "dir" /\ CanReserveShared(f),
              {},
              ReserveShared(olddirfid, key) \cup ReserveShared(newdirfid, key),
              fids)

Referrals(tag, fid) ==
    LET key == NextKey(tag)
    IN  Admit(Req(key, "referrals", fid, NOFID, fids[fid].qid, "none", 0),
              variant = "9P2000.R" /\ HasFid(fid) /\ CanReserveShared(fid),
              {}, ReserveShared(fid, key), fids)

\* Mutant of Flush: what the cancelled request had reserved is kept.
FlushKeepsReservations(tag, oldtag) ==
    LET cancelled == FlushCancels(live \cup {NextKey(tag)}, oldtag)
    IN  /\ negotiated
        /\ ~IsLive(live, tag)
        /\ next_generation < MaxGeneration
        /\ next_generation' = next_generation + 1
        /\ live' = live \ cancelled
        /\ UNCHANGED <<negotiated, variant, fids, exclusive, shared, inflight>>

\* Tflush begins a request of its own, cancels the live request of oldtag
\* (itself, when oldtag is its own tag) and finishes.  The cancelled request
\* stays with the backend.
Flush(tag, oldtag) ==
    LET cancelled == FlushCancels(live \cup {NextKey(tag)}, oldtag)
    IN  /\ negotiated
        /\ ~IsLive(live, tag)
        /\ next_generation < MaxGeneration
        /\ next_generation' = next_generation + 1
        /\ live' = live \ cancelled
        /\ exclusive' = ReleaseReservations(exclusive, cancelled)
        /\ shared' = ReleaseReservations(shared, cancelled)
        /\ UNCHANGED <<negotiated, variant, fids, inflight>>

-----------------------------------------------------------------------------
(* Completion.                                                             *)

\* complete of a request that was flushed or belongs to an earlier session.
CompleteStale(r) ==
    /\ ~Finishes(live, r.key)
    /\ inflight' = inflight \ {r}
    /\ UNCHANGED <<negotiated, variant, fids, exclusive, shared, live,
                   next_generation>>

\* complete of a live request; fd is what apply_completion leaves in fids.
Complete(r, fd) ==
    /\ Finishes(live, r.key)
    /\ live' = live \ {r.key}
    /\ exclusive' = ReleaseReservations(exclusive, {r.key})
    /\ shared' = ReleaseReservations(shared, {r.key})
    /\ inflight' = inflight \ {r}
    /\ fids' = fd
    /\ UNCHANGED <<negotiated, variant, next_generation>>

\* Mutant of QidAllowed: any qid passes.
QidUnchecked(qid) == TRUE

\* validate_qid_variant
QidAllowed(qid) == qid = "symlink" => variant = "9P2000.R"

\* The backend failed, or apply_completion refused what it returned.  The
\* answers to write, clunk, remove, stat, wstat, renameat, referrals and to a
\* read of a file leave the session in the same state, as does a partial walk.
CompleteUnbound(r) == Complete(r, fids)

CompleteAuth(r) ==
    /\ r.kind = "auth"
    /\ Complete(r, InsertNewFid(r.fid, FidStateOpened("auth", "rdwr"), r.key))

CompleteAttach(r, qid) ==
    /\ r.kind = "attach"
    /\ QidAllowed(qid)
    /\ Complete(r, InsertNewFid(r.fid, FidStateNew(qid), r.key))

\* A full walk: every name resolved (qid is the last one), or no names at all,
\* which clones the source or, for newfid = fid, changes nothing.
CompleteWalk(r, qid) ==
    /\ r.kind = "walk"
    /\ QidAllowed(qid)
    /\ \/ /\ r.n = 0
          /\ r.fid2 # r.fid
          /\ Complete(r, InsertNewFid(r.fid2, FidStateNew(r.qid), r.key))
       \/ /\ r.n > 0
          /\ r.fid2 = r.fid
          /\ Complete(r, BindFid(r.fid, FidStateNew(qid), r.key))
       \/ /\ r.n > 0
          /\ r.fid2 # r.fid
          /\ Complete(r, InsertNewFid(r.fid2, FidStateNew(qid), r.key))

CompleteOpen(r, qid) ==
    /\ r.kind \in {"open", "create"}
    /\ QidAllowed(qid)
    /\ Complete(r, BindFid(r.fid, FidStateOpened(qid, r.mode), r.key))

\* Bound: a directory read returns nothing (the end) or one unit of data.
ReadLen == 0..1

\* Mutant of CompleteReadDir: the new offset is not checked.
CompleteReadDirUnchecked(r, len) ==
    /\ r.kind = "read"
    /\ r.qid = "dir"
    /\ Bound(r.fid)
    /\ Complete(r, BindFid(r.fid,
                     [fids[r.fid] EXCEPT !.directory_offset = r.n + len],
                     r.key))

\* len bytes of directory data; an offset past u64 is refused.
CompleteReadDir(r, len) ==
    /\ r.kind = "read"
    /\ r.qid = "dir"
    /\ r.n + len <= MaxOffset
    /\ \A e \in ReleaseReservations(exclusive, {r.key}) : e.fid # r.fid
    /\ Bound(r.fid)
    /\ Complete(r, BindFid(r.fid,
                     [fids[r.fid] EXCEPT !.directory_offset = r.n + len],
                     r.key))

-----------------------------------------------------------------------------

Init ==
    /\ negotiated = FALSE
    /\ variant = "none"
    /\ fids = [f \in Fid |-> Unbound]
    /\ exclusive = {}
    /\ shared = {}
    /\ live = {}
    /\ next_generation = 0
    /\ inflight = {}

AdmitFid(tag, fid) ==
    \/ \E valid \in BOOLEAN :
         \/ Auth(tag, fid, valid)
         \/ \E afid \in Fid \cup {NOFID} : Attach(tag, fid, afid, valid)
         \/ \E newfid \in Fid, n \in 0..MaxNames :
               Walk(tag, fid, newfid, n, valid)
         \/ Write(tag, fid, valid)
         \/ Wstat(tag, fid, valid)
         \/ \E newdirfid \in Fid : RenameAt(tag, fid, newdirfid, valid)
    \/ \E mode \in Modes :
         \/ Open(tag, fid, mode)
         \/ \E dir \in BOOLEAN : Create(tag, fid, mode, dir)
    \/ \E offset \in Offset : Read(tag, fid, offset)
    \/ Clunk(tag, fid)
    \/ Remove(tag, fid)
    \/ Stat(tag, fid)
    \/ Referrals(tag, fid)

CompleteRequest(r) ==
    \/ CompleteStale(r)
    \/ CompleteUnbound(r)
    \/ CompleteAuth(r)
    \/ \E qid \in QidType : \/ CompleteAttach(r, qid)
                            \/ CompleteWalk(r, qid)
                            \/ CompleteOpen(r, qid)
    \/ \E len \in ReadLen : CompleteReadDir(r, len)

Next ==
    \/ \E requested \in Variant \cup {"other", "small"} : Version(requested)
    \/ \E tag \in Tag, fid \in Fid : AdmitFid(tag, fid)
    \/ \E tag, oldtag \in Tag : Flush(tag, oldtag)
    \/ \E r \in inflight : CompleteRequest(r)

Spec == Init /\ [][Next]_vars

-----------------------------------------------------------------------------
(* Properties.                                                             *)

\* Every variable has its type; in particular directory offsets, which the code
\* adds up in u64, stay within their width (apply_completion).
TypeOK ==
    /\ negotiated \in BOOLEAN
    /\ variant \in Variant \cup {"none"}
    /\ fids \in [Fid -> FidState]
    /\ exclusive \subseteq Reservation
    /\ shared \subseteq SharedReservation
    /\ live \subseteq RequestKey
    /\ next_generation \in 0..MaxGeneration
    /\ inflight \subseteq Request

\* A key is never issued twice while a completion can still name it, not even
\* across a Tversion (RequestTable::reset keeps counting): requests with the
\* backend have distinct keys, every live key belongs to one of them, and a
\* tag has at most one live key.
KeysFresh ==
    /\ \A r \in inflight : r.key.generation < next_generation
    /\ \A q, r \in inflight : q.key = r.key => q = r
    /\ \A k \in live : \E r \in inflight : r.key = k
    /\ \A j, k \in live : j.tag = k.tag => j = k

\* What admit_after_begin reserves for a request of each kind: new fids,
\* existing fids held exclusively, and fids it shares.
NewFidsOf(r) ==
    {f \in Fid : \/ r.kind \in {"auth", "attach"} /\ f = r.fid
                 \/ r.kind = "walk" /\ f = r.fid2 /\ f # r.fid}
HeldFidsOf(r) ==
    {f \in Fid : \/ r.kind \in {"open", "create", "clunk", "remove", "wstat"}
                    /\ f = r.fid
                 \/ r.kind = "read" /\ r.qid = "dir" /\ f = r.fid
                 \/ r.kind = "walk" /\ f = r.fid2 /\ f = r.fid
                 \/ r.kind = "attach" /\ f = r.fid2}
SharedFidsOf(r) ==
    {f \in Fid : \/ r.kind = "walk" /\ f = r.fid /\ f # r.fid2
                 \/ r.kind = "renameat" /\ f \in {r.fid, r.fid2}
                 \/ r.kind = "referrals" /\ f = r.fid}

Exclusives(r) ==
    (UNION {ReserveNew(f, r.key) : f \in NewFidsOf(r)})
        \cup (UNION {ReserveExisting(f, r.key) : f \in HeldFidsOf(r)})
Shareds(r) == UNION {ReserveShared(f, r.key) : f \in SharedFidsOf(r)}

LiveRequests == {r \in inflight : r.key \in live}

\* Every reservation belongs to a request that is live and with the backend,
\* and every such request holds exactly what its admission reserved: neither
\* an early error return, a Tflush, a Tversion nor a completion leaks a
\* reservation (which would make the fid busy for ever) or drops one early.
ReservationLedger ==
    /\ exclusive = UNION {Exclusives(r) : r \in LiveRequests}
    /\ shared = UNION {Shareds(r) : r \in LiveRequests}

\* A fid has at most one exclusive holder, never together with a shared one;
\* only bound fids are shared, and only unbound ones reserved as new.
ReservationsExclude ==
    /\ \A d, e \in exclusive : d.fid = e.fid => d = e
    /\ \A e \in exclusive, s \in shared : e.fid # s.fid
    /\ \A s \in shared : Bound(s.fid)
    /\ \A e \in exclusive : e.new_fid => ~Bound(e.fid)

\* Bound fids and fids promised to requests in flight stay within max_fids,
\* so an admitted attach, auth or clone walk always finds room.
FidLimit == FidCount <= MaxFids

\* For the requests that reserve the fid they start from (walk, open, create,
\* wstat, renameat, referrals and reads of a directory), the qid given to the
\* backend is still the fid's qid, and the fid still bound (and unopened, for a
\* walk, open or create), as long as the request is live: nothing that is
\* admitted meanwhile invalidates its source.  stat, write and reads of a file
\* reserve nothing, and their fid may be clunked and bound again under them.
SourceStable ==
    \A r \in LiveRequests :
        /\ \/ r.kind \in {"walk", "open", "create", "wstat", "renameat", "referrals"}
           \/ r.kind = "read" /\ r.qid = "dir"
           => Bound(r.fid) /\ fids[r.fid].qid = r.qid
        /\ r.kind \in {"walk", "open", "create"} =>
               fids[r.fid].open_mode = "none"

\* apply_completion never fails for a reason of the session's own: whatever
\* happened since admission, the fid a live request is about to bind is free
\* of other reservations, new fids are unbound with room for them, and old
\* ones bound.
CompletionApplies ==
    \A r \in LiveRequests : \A e \in Exclusives(r) :
        /\ \A d \in ReleaseReservations(exclusive, {r.key}) : d.fid # e.fid
        /\ \A s \in shared : s.fid # e.fid
        /\ e.new_fid => ~Bound(e.fid) /\ Cardinality(BoundFids) < MaxFids
        /\ ~e.new_fid => (Bound(e.fid) \/ r.kind \in {"clunk", "remove"})

\* A session that negotiated plain 9P2000 holds no fid on a symlink and no
\* pending extension request, however often the dialect was renegotiated with
\* completions of the earlier dialect still to come.
PlainDialect ==
    variant # "9P2000.R" =>
        /\ \A f \in Fid : fids[f].qid # "symlink"
        /\ \A r \in LiveRequests : r.kind \notin {"renameat", "referrals"}

\* No step changes a fid that a request holds, exclusively or shared, and
\* goes on holding: only the holder's own completion may rebind it.
ReservedFidsFrozen ==
    [][\A f \in Fid :
          (\E e \in (exclusive \cap exclusive') \cup (shared \cap shared') :
              e.fid = f)
          => fids'[f] = fids[f]]_vars

=============================================================================
