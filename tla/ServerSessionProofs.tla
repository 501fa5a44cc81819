------------------------- MODULE ServerSessionProofs -------------------------
(***************************************************************************)
(* Proofs about ServerSession, for any fids, tags and bounds.              *)
(***************************************************************************)
EXTENDS ServerSession, FiniteSetTheorems, TLAPS

USE SessionAssumption, MaxGenerationAssumption

-----------------------------------------------------------------------------
(* What the reservations of a request look like.                           *)

\* The reservations of a request carry its key, and name the fids NewFidsOf,
\* HeldFidsOf and SharedFidsOf list.
LEMMA ExclusivesElement ==
    ASSUME NEW r, NEW e
    PROVE  e \in Exclusives(r) <=>
              \/ \E f \in NewFidsOf(r) :
                    e = [fid |-> f, request |-> r.key, new_fid |-> TRUE]
              \/ \E f \in HeldFidsOf(r) :
                    e = [fid |-> f, request |-> r.key, new_fid |-> FALSE]
BY DEF Exclusives, ReserveNew, ReserveExisting

\* The shared reservations of a request, element by element.
LEMMA SharedsElement ==
    ASSUME NEW r, NEW s
    PROVE  s \in Shareds(r) <=>
              \E f \in SharedFidsOf(r) : s = [fid |-> f, request |-> r.key]
BY DEF Shareds, ReserveShared

\* What a request reserves is well typed and carries the request's key.
LEMMA ReservationsType ==
    ASSUME NEW r \in Request
    PROVE  /\ Exclusives(r) \subseteq Reservation
           /\ Shareds(r) \subseteq SharedReservation
           /\ \A e \in Exclusives(r) : e.request = r.key
           /\ \A s \in Shareds(r) : s.request = r.key
<1>1. r.key \in RequestKey
  BY DEF Request
<1>2. NewFidsOf(r) \subseteq Fid /\ HeldFidsOf(r) \subseteq Fid
          /\ SharedFidsOf(r) \subseteq Fid
  BY DEF NewFidsOf, HeldFidsOf, SharedFidsOf
<1>3. ASSUME NEW e \in Exclusives(r)
      PROVE  e \in Reservation /\ e.request = r.key
  <2>1. CASE \E f \in NewFidsOf(r) :
                e = [fid |-> f, request |-> r.key, new_fid |-> TRUE]
    BY <1>1, <1>2, <2>1 DEF Reservation
  <2>2. CASE \E f \in HeldFidsOf(r) :
                e = [fid |-> f, request |-> r.key, new_fid |-> FALSE]
    BY <1>1, <1>2, <2>2 DEF Reservation
  <2> QED
    BY <2>1, <2>2, ExclusivesElement
<1>4. Shareds(r) \subseteq SharedReservation
          /\ \A s \in Shareds(r) : s.request = r.key
  BY <1>1, <1>2, SharedsElement DEF SharedReservation
<1> QED
  BY <1>3, <1>4

-----------------------------------------------------------------------------
(* Admission in one form.                                                  *)

SourceKind(r) ==
    \/ r.kind \in {"walk", "open", "create", "wstat", "renameat", "referrals"}
    \/ r.kind = "read" /\ r.qid = "dir"

\* What the checks of admit_after_begin have established for a request that
\* is dispatched, whatever its kind; fd is what it leaves in fids.
Granted(r, fd) ==
    /\ \A f \in NewFidsOf(r) : CanReserveNew(f)
    /\ \A f, g \in NewFidsOf(r) : f = g
    /\ \A f \in HeldFidsOf(r) : Bound(f) /\ EnsureUnreserved(f)
    /\ \A f \in SharedFidsOf(r) : Bound(f) /\ EnsureAvailable(f)
    /\ SourceKind(r) => Bound(r.fid) /\ fids[r.fid].qid = r.qid
    /\ r.kind \in {"walk", "open", "create"} => fids[r.fid].open_mode = "none"
    /\ r.kind \in {"renameat", "referrals"} => variant = "9P2000.R"
    /\ \/ r.kind \notin {"clunk", "remove"} /\ fd = fids
       \/ r.kind \in {"clunk", "remove"}
             /\ fd = [fids EXCEPT ![r.fid] = Unbound]

AdmitsAs(tag, r, ok, fd) ==
    /\ r.key = NextKey(tag)
    /\ Admit(r, ok, Exclusives(r), Shareds(r), fd)
    /\ ok => Granted(r, fd)

\* The record an admission dispatches is a Request.
LEMMA ReqType ==
    ASSUME TypeOK, NEW tag \in Tag, NEW kind \in Kind, NEW fid \in Fid,
           NEW fid2 \in Fid \cup {NOFID}, NEW qid \in QidType \cup {"none"},
           NEW mode \in OpenMode, NEW n \in 0..MaxNames \cup Offset,
           kind \in {"walk", "renameat"} => fid2 \in Fid
    PROVE  Req(NextKey(tag), kind, fid, fid2, qid, mode, n) \in Request
BY DEF Req, Request, NextKey, Key, RequestKey, TypeOK

\* The same for a request that hands the backend the qid of its fid.
LEMMA FidReqType ==
    ASSUME TypeOK, NEW tag \in Tag, NEW kind \in Kind, NEW fid \in Fid,
           NEW fid2 \in Fid \cup {NOFID}, NEW mode \in OpenMode,
           kind \in {"walk", "renameat"} => fid2 \in Fid
    PROVE  Req(NextKey(tag), kind, fid, fid2, fids[fid].qid, mode, 0) \in Request
<1>1. fids[fid].qid \in QidType \cup {"none"}
  BY DEF TypeOK, FidState
<1>2. 0 \in 0..MaxNames \cup Offset
  BY DEF Offset
<1> QED
  BY <1>1, <1>2, ReqType

\* Tauth admits in the common form: it reserves its afid as new.
LEMMA AuthAdmits ==
    ASSUME TypeOK, NEW tag \in Tag, NEW afid \in Fid, NEW valid \in BOOLEAN,
           Auth(tag, afid, valid)
    PROVE  \E r \in Request, ok \in BOOLEAN, fd \in [Fid -> FidState] :
              AdmitsAs(tag, r, ok, fd)
<1> DEFINE key == NextKey(tag)
           r == Req(key, "auth", afid, NOFID, "none", "none", 0)
           ok == valid /\ CanReserveNew(afid)
<1>1. r \in Request
  BY ReqType DEF Kind, OpenMode, Offset
<1>2. r.key = key
  BY DEF Req
<1>3. NewFidsOf(r) = {afid} /\ HeldFidsOf(r) = {} /\ SharedFidsOf(r) = {}
  BY DEF Req, NewFidsOf, HeldFidsOf, SharedFidsOf
<1>4. Exclusives(r) = ReserveNew(afid, key) /\ Shareds(r) = {}
  BY <1>2, <1>3 DEF Exclusives, Shareds
<1>5. Admit(r, ok, Exclusives(r), Shareds(r), fids)
  BY <1>4 DEF Auth
<1>6. ok => Granted(r, fids)
  BY <1>3 DEF Granted, SourceKind, Req
<1>7. ok \in BOOLEAN /\ fids \in [Fid -> FidState]
  BY DEF TypeOK
<1> QED
  BY Zenon, <1>1, <1>2, <1>5, <1>6, <1>7 DEF AdmitsAs

\* Tattach admits in the common form: it reserves its fid as new and, when
\* there is one, holds the afid.
LEMMA AttachAdmits ==
    ASSUME TypeOK, NEW tag \in Tag, NEW fid \in Fid,
           NEW afid \in Fid \cup {NOFID}, NEW valid \in BOOLEAN,
           Attach(tag, fid, afid, valid)
    PROVE  \E r \in Request, ok \in BOOLEAN, fd \in [Fid -> FidState] :
              AdmitsAs(tag, r, ok, fd)
<1> DEFINE key == NextKey(tag)
           auth == IF afid = NOFID THEN {} ELSE {afid}
           r == Req(key, "attach", fid, afid, "none", "none", 0)
           ok == /\ valid
                 /\ \A a \in auth : /\ HasFid(a)
                                    /\ fids[a].qid = "auth"
                                    /\ CanReserveExisting(a)
                 /\ CanReserveNew(fid)
<1>1. r \in Request
  <2>1. 0 \in 0..MaxNames \cup Offset
    BY DEF Offset
  <2>2. "attach" \in Kind /\ "none" \in OpenMode
    BY DEF Kind, OpenMode
  <2> QED
    BY <2>1, <2>2, ReqType
<1>2. r.key = key
  BY DEF Req
<1>3. NewFidsOf(r) = {fid} /\ HeldFidsOf(r) = auth /\ SharedFidsOf(r) = {}
  BY DEF Req, NewFidsOf, HeldFidsOf, SharedFidsOf
<1>4. /\ Exclusives(r) = ReserveNew(fid, key)
                            \cup (UNION {ReserveExisting(a, key) : a \in auth})
      /\ Shareds(r) = {}
  <2> HIDE DEF auth
  <2> QED
    BY <1>2, <1>3 DEF Exclusives, Shareds
<1>5. Admit(r, ok, Exclusives(r), Shareds(r), fids)
  BY Zenon, <1>4 DEF Attach
<1>6. ok => Granted(r, fids)
  BY <1>3 DEF Granted, SourceKind, Req, CanReserveExisting
<1>7. ok \in BOOLEAN /\ fids \in [Fid -> FidState]
  BY DEF TypeOK
<1> QED
  BY Zenon, <1>1, <1>2, <1>5, <1>6, <1>7 DEF AdmitsAs

\* Twalk admits in the common form: in place it holds its fid, otherwise it
\* shares the source and reserves newfid as new.
LEMMA WalkAdmits ==
    ASSUME TypeOK, NEW tag \in Tag, NEW fid \in Fid, NEW newfid \in Fid,
           NEW n \in 0..MaxNames, NEW valid \in BOOLEAN,
           Walk(tag, fid, newfid, n, valid)
    PROVE  \E r \in Request, ok \in BOOLEAN, fd \in [Fid -> FidState] :
              AdmitsAs(tag, r, ok, fd)
<1> DEFINE key == NextKey(tag)
           walkable == /\ valid
                       /\ HasFid(fid)
                       /\ fids[fid].open_mode = "none"
                       /\ n > 0 => fids[fid].qid = "dir"
           r == Req(key, "walk", fid, newfid, fids[fid].qid, "none", n)
<1>1. r \in Request
  BY Zenon, ReqType DEF Kind, OpenMode, TypeOK, FidState
<1>2. r.key = key /\ fids \in [Fid -> FidState]
  BY DEF Req, TypeOK
<1>3. CASE newfid = fid
  <2> DEFINE ok == walkable /\ CanReserveExisting(fid)
  <2>1. NewFidsOf(r) = {} /\ HeldFidsOf(r) = {fid} /\ SharedFidsOf(r) = {}
    BY <1>3 DEF Req, NewFidsOf, HeldFidsOf, SharedFidsOf
  <2>2. Exclusives(r) = ReserveExisting(fid, key) /\ Shareds(r) = {}
    BY <1>2, <2>1 DEF Exclusives, Shareds
  <2>3. Admit(r, ok, Exclusives(r), Shareds(r), fids)
    BY <1>3, <2>2 DEF Walk
  <2>4. ok => Granted(r, fids)
    BY <2>1 DEF Granted, SourceKind, Req, CanReserveExisting
  <2> QED
    BY Zenon, <1>1, <1>2, <2>3, <2>4 DEF AdmitsAs
<1>4. CASE newfid # fid
  <2> DEFINE ok == walkable /\ CanReserveShared(fid) /\ CanReserveNew(newfid)
  <2>1. NewFidsOf(r) = {newfid} /\ HeldFidsOf(r) = {} /\ SharedFidsOf(r) = {fid}
    BY <1>4 DEF Req, NewFidsOf, HeldFidsOf, SharedFidsOf
  <2>2. /\ Exclusives(r) = ReserveNew(newfid, key)
        /\ Shareds(r) = ReserveShared(fid, key)
    BY <1>2, <2>1 DEF Exclusives, Shareds
  <2>3. Admit(r, ok, Exclusives(r), Shareds(r), fids)
    BY <1>4, <2>2 DEF Walk
  <2>4. ok => Granted(r, fids)
    BY <2>1 DEF Granted, SourceKind, Req, CanReserveShared
  <2> QED
    BY Zenon, <1>1, <1>2, <2>3, <2>4 DEF AdmitsAs
<1> QED
  BY <1>3, <1>4

\* Tread admits in the common form: only a directory read holds its fid.
LEMMA ReadAdmits ==
    ASSUME TypeOK, NEW tag \in Tag, NEW fid \in Fid, NEW offset \in Offset,
           Read(tag, fid, offset)
    PROVE  \E r \in Request, ok \in BOOLEAN, fd \in [Fid -> FidState] :
              AdmitsAs(tag, r, ok, fd)
<1> DEFINE key == NextKey(tag)
           state == fids[fid]
           held == IF state.qid = "dir" THEN {fid} ELSE {}
           r == Req(key, "read", fid, NOFID, state.qid, "none", offset)
           ok == /\ HasFid(fid)
                 /\ \/ state.qid = "auth"
                    \/ /\ PermitsRead(state.open_mode)
                       /\ state.qid = "dir" =>
                             offset \in {0, state.directory_offset}
                 /\ state.qid = "dir" => CanReserveExisting(fid)
<1>1. r \in Request
  BY Zenon, ReqType DEF Kind, OpenMode, TypeOK, FidState
<1>2. r.key = key /\ fids \in [Fid -> FidState]
  BY DEF Req, TypeOK
<1>3. NewFidsOf(r) = {} /\ HeldFidsOf(r) = held /\ SharedFidsOf(r) = {}
  BY DEF Req, NewFidsOf, HeldFidsOf, SharedFidsOf
<1>4. /\ Exclusives(r) = IF state.qid = "dir" THEN ReserveExisting(fid, key)
                                              ELSE {}
      /\ Shareds(r) = {}
  BY <1>2, <1>3 DEF Exclusives, Shareds
<1>5. Admit(r, ok, Exclusives(r), Shareds(r), fids)
  BY Zenon, <1>4 DEF Read
<1>6. ok => Granted(r, fids)
  BY <1>3 DEF Granted, SourceKind, Req, CanReserveExisting
<1>7. ok \in BOOLEAN
  OBVIOUS
<1> QED
  BY Zenon, <1>1, <1>2, <1>5, <1>6, <1>7 DEF AdmitsAs

\* Topen admits in the common form: it holds its unopened fid.
LEMMA OpenAdmits ==
    ASSUME TypeOK, NEW tag \in Tag, NEW fid \in Fid, NEW mode \in Modes,
           Open(tag, fid, mode)
    PROVE  \E r \in Request, ok \in BOOLEAN, fd \in [Fid -> FidState] :
              AdmitsAs(tag, r, ok, fd)
<1> DEFINE key == NextKey(tag)
           r == Req(key, "open", fid, NOFID, fids[fid].qid, mode, 0)
           ok == /\ HasFid(fid)
                 /\ fids[fid].open_mode = "none"
                 /\ IsValidMode(mode)
                 /\ fids[fid].qid = "dir" => IsDirectoryMode(mode)
                 /\ CanReserveExisting(fid)
<1>1. r \in Request
  BY FidReqType DEF Kind, OpenMode
<1>2. r.key = key /\ fids \in [Fid -> FidState]
  BY DEF Req, TypeOK
<1>3. NewFidsOf(r) = {} /\ HeldFidsOf(r) = {fid} /\ SharedFidsOf(r) = {}
  BY DEF Req, NewFidsOf, HeldFidsOf, SharedFidsOf
<1>4. Exclusives(r) = ReserveExisting(fid, key) /\ Shareds(r) = {}
  BY <1>2, <1>3 DEF Exclusives, Shareds
<1>5. Admit(r, ok, Exclusives(r), Shareds(r), fids)
  BY Zenon, <1>4 DEF Open
<1>6. ok => Granted(r, fids)
  BY <1>3 DEF Granted, SourceKind, Req, CanReserveExisting
<1>7. ok \in BOOLEAN
  BY DEF HasFid, EnsureAvailable
<1> QED
  BY Zenon, <1>1, <1>2, <1>5, <1>6, <1>7 DEF AdmitsAs

\* Tcreate admits in the common form: it holds its unopened directory fid.
LEMMA CreateAdmits ==
    ASSUME TypeOK, NEW tag \in Tag, NEW fid \in Fid, NEW mode \in Modes,
           NEW dir \in BOOLEAN,
           Create(tag, fid, mode, dir)
    PROVE  \E r \in Request, ok \in BOOLEAN, fd \in [Fid -> FidState] :
              AdmitsAs(tag, r, ok, fd)
<1> DEFINE key == NextKey(tag)
           r == Req(key, "create", fid, NOFID, fids[fid].qid, mode, 0)
           ok == /\ HasFid(fid)
                 /\ fids[fid].open_mode = "none"
                 /\ fids[fid].qid = "dir"
                 /\ IsValidMode(mode)
                 /\ dir => IsDirectoryMode(mode)
                 /\ CanReserveExisting(fid)
<1>1. r \in Request
  BY FidReqType DEF Kind, OpenMode
<1>2. r.key = key /\ fids \in [Fid -> FidState]
  BY DEF Req, TypeOK
<1>3. NewFidsOf(r) = {} /\ HeldFidsOf(r) = {fid} /\ SharedFidsOf(r) = {}
  BY DEF Req, NewFidsOf, HeldFidsOf, SharedFidsOf
<1>4. Exclusives(r) = ReserveExisting(fid, key) /\ Shareds(r) = {}
  BY <1>2, <1>3 DEF Exclusives, Shareds
<1>5. Admit(r, ok, Exclusives(r), Shareds(r), fids)
  BY Zenon, <1>4 DEF Create
<1>6. ok => Granted(r, fids)
  BY <1>3 DEF Granted, SourceKind, Req, CanReserveExisting
<1>7. ok \in BOOLEAN
  BY DEF HasFid, EnsureAvailable
<1> QED
  BY Zenon, <1>1, <1>2, <1>5, <1>6, <1>7 DEF AdmitsAs

\* Twrite admits in the common form: it reserves nothing.
LEMMA WriteAdmits ==
    ASSUME TypeOK, NEW tag \in Tag, NEW fid \in Fid, NEW valid \in BOOLEAN,
           Write(tag, fid, valid)
    PROVE  \E r \in Request, ok \in BOOLEAN, fd \in [Fid -> FidState] :
              AdmitsAs(tag, r, ok, fd)
<1> DEFINE key == NextKey(tag)
           r == Req(key, "write", fid, NOFID, fids[fid].qid, "none", 0)
           ok == /\ valid
                 /\ HasFid(fid)
                 /\ \/ fids[fid].qid = "auth"
                    \/ fids[fid].qid # "dir" /\ PermitsWrite(fids[fid].open_mode)
<1>1. r \in Request
  BY FidReqType DEF Kind, OpenMode
<1>2. r.key = key /\ fids \in [Fid -> FidState]
  BY DEF Req, TypeOK
<1>3. NewFidsOf(r) = {} /\ HeldFidsOf(r) = {} /\ SharedFidsOf(r) = {}
  BY DEF Req, NewFidsOf, HeldFidsOf, SharedFidsOf
<1>4. Exclusives(r) = {} /\ Shareds(r) = {}
  BY <1>2, <1>3 DEF Exclusives, Shareds
<1>5. Admit(r, ok, Exclusives(r), Shareds(r), fids)
  BY Zenon, <1>4 DEF Write
<1>6. ok => Granted(r, fids)
  BY <1>3 DEF Granted, SourceKind, Req
<1>7. ok \in BOOLEAN
  BY DEF HasFid, EnsureAvailable
<1> QED
  BY Zenon, <1>1, <1>2, <1>5, <1>6, <1>7 DEF AdmitsAs

\* Tclunk and Tremove admit in the common form: they hold the fid they take
\* out of the table.
LEMMA RetireAdmits ==
    ASSUME TypeOK, NEW tag \in Tag, NEW fid \in Fid, NEW kind \in {"clunk", "remove"},
           RetireFid(tag, fid, kind)
    PROVE  \E r \in Request, ok \in BOOLEAN, fd \in [Fid -> FidState] :
              AdmitsAs(tag, r, ok, fd)
<1> DEFINE key == NextKey(tag)
           r == Req(key, kind, fid, NOFID, fids[fid].qid, "none", 0)
           ok == CanRetire(fid)
<1>1. r \in Request
  BY FidReqType DEF Kind, OpenMode
<1>2. r.key = key /\ fids \in [Fid -> FidState]
  BY DEF Req, TypeOK
<1>3. NewFidsOf(r) = {} /\ HeldFidsOf(r) = {fid} /\ SharedFidsOf(r) = {}
  BY DEF Req, NewFidsOf, HeldFidsOf, SharedFidsOf
<1>4. Exclusives(r) = ReserveExisting(fid, key) /\ Shareds(r) = {}
  BY <1>2, <1>3 DEF Exclusives, Shareds
<1>5. Admit(r, ok, Exclusives(r), Shareds(r), [fids EXCEPT ![fid] = Unbound])
  BY <1>4 DEF RetireFid
<1>6. ok => Granted(r, [fids EXCEPT ![fid] = Unbound])
  BY <1>3 DEF Granted, SourceKind, Req, CanRetire
<1>7. ok \in BOOLEAN /\ [fids EXCEPT ![fid] = Unbound] \in [Fid -> FidState]
  BY <1>2 DEF Unbound, FidStateNew, FidState, OpenMode, Offset, CanRetire
<1> QED
  BY Zenon, <1>1, <1>2, <1>5, <1>6, <1>7 DEF AdmitsAs

\* Tstat admits in the common form: it reserves nothing.
LEMMA StatAdmits ==
    ASSUME TypeOK, NEW tag \in Tag, NEW fid \in Fid,
           Stat(tag, fid)
    PROVE  \E r \in Request, ok \in BOOLEAN, fd \in [Fid -> FidState] :
              AdmitsAs(tag, r, ok, fd)
<1> DEFINE key == NextKey(tag)
           r == Req(key, "stat", fid, NOFID, fids[fid].qid, "none", 0)
           ok == HasFid(fid)
<1>1. r \in Request
  BY FidReqType DEF Kind, OpenMode
<1>2. r.key = key /\ fids \in [Fid -> FidState]
  BY DEF Req, TypeOK
<1>3. NewFidsOf(r) = {} /\ HeldFidsOf(r) = {} /\ SharedFidsOf(r) = {}
  BY DEF Req, NewFidsOf, HeldFidsOf, SharedFidsOf
<1>4. Exclusives(r) = {} /\ Shareds(r) = {}
  BY <1>2, <1>3 DEF Exclusives, Shareds
<1>5. Admit(r, ok, Exclusives(r), Shareds(r), fids)
  BY <1>4 DEF Stat
<1>6. ok => Granted(r, fids)
  BY <1>3 DEF Granted, SourceKind, Req
<1>7. ok \in BOOLEAN
  BY DEF HasFid, EnsureAvailable
<1> QED
  BY <1>1, <1>2, <1>5, <1>6, <1>7 DEF AdmitsAs

\* Twstat admits in the common form: it holds its fid.
LEMMA WstatAdmits ==
    ASSUME TypeOK, NEW tag \in Tag, NEW fid \in Fid, NEW valid \in BOOLEAN,
           Wstat(tag, fid, valid)
    PROVE  \E r \in Request, ok \in BOOLEAN, fd \in [Fid -> FidState] :
              AdmitsAs(tag, r, ok, fd)
<1> DEFINE key == NextKey(tag)
           r == Req(key, "wstat", fid, NOFID, fids[fid].qid, "none", 0)
           ok == HasFid(fid) /\ valid /\ CanReserveExisting(fid)
<1>1. r \in Request
  BY FidReqType DEF Kind, OpenMode
<1>2. r.key = key /\ fids \in [Fid -> FidState]
  BY DEF Req, TypeOK
<1>3. NewFidsOf(r) = {} /\ HeldFidsOf(r) = {fid} /\ SharedFidsOf(r) = {}
  BY DEF Req, NewFidsOf, HeldFidsOf, SharedFidsOf
<1>4. Exclusives(r) = ReserveExisting(fid, key) /\ Shareds(r) = {}
  BY <1>2, <1>3 DEF Exclusives, Shareds
<1>5. Admit(r, ok, Exclusives(r), Shareds(r), fids)
  BY <1>4 DEF Wstat
<1>6. ok => Granted(r, fids)
  BY <1>3 DEF Granted, SourceKind, Req, CanReserveExisting
<1>7. ok \in BOOLEAN
  BY DEF HasFid, EnsureAvailable
<1> QED
  BY Zenon, <1>1, <1>2, <1>5, <1>6, <1>7 DEF AdmitsAs

\* Trenameat admits in the common form: it shares both directories.
LEMMA RenameAtAdmits ==
    ASSUME TypeOK, NEW tag \in Tag, NEW fid \in Fid, NEW newdirfid \in Fid,
           NEW valid \in BOOLEAN,
           RenameAt(tag, fid, newdirfid, valid)
    PROVE  \E r \in Request, ok \in BOOLEAN, fd \in [Fid -> FidState] :
              AdmitsAs(tag, r, ok, fd)
<1> DEFINE key == NextKey(tag)
           r == Req(key, "renameat", fid, newdirfid, fids[fid].qid, "none", 0)
           ok == /\ variant = "9P2000.R"
                 /\ valid
                 /\ \A f \in {fid, newdirfid} :
                       HasFid(f) /\ fids[f].qid = "dir" /\ CanReserveShared(f)
<1>1. r \in Request
  BY FidReqType DEF Kind, OpenMode
<1>2. r.key = key /\ fids \in [Fid -> FidState]
  BY DEF Req, TypeOK
<1>3. NewFidsOf(r) = {} /\ HeldFidsOf(r) = {}
          /\ SharedFidsOf(r) = {fid, newdirfid}
  BY DEF Req, NewFidsOf, HeldFidsOf, SharedFidsOf
<1>4. Exclusives(r) = {} /\ Shareds(r) = ReserveShared(fid, key)
                                        \cup ReserveShared(newdirfid, key)
  BY <1>2, <1>3 DEF Exclusives, Shareds
<1>5. Admit(r, ok, Exclusives(r), Shareds(r), fids)
  BY Zenon, <1>4 DEF RenameAt
<1>6. ok => Granted(r, fids)
  BY <1>3 DEF Granted, SourceKind, Req, CanReserveShared
<1>7. ok \in BOOLEAN
  BY DEF HasFid, EnsureAvailable
<1> QED
  BY Zenon, <1>1, <1>2, <1>5, <1>6, <1>7 DEF AdmitsAs

\* Treferrals admits in the common form: it shares its fid.
LEMMA ReferralsAdmits ==
    ASSUME TypeOK, NEW tag \in Tag, NEW fid \in Fid,
           Referrals(tag, fid)
    PROVE  \E r \in Request, ok \in BOOLEAN, fd \in [Fid -> FidState] :
              AdmitsAs(tag, r, ok, fd)
<1> DEFINE key == NextKey(tag)
           r == Req(key, "referrals", fid, NOFID, fids[fid].qid, "none", 0)
           ok == variant = "9P2000.R" /\ HasFid(fid) /\ CanReserveShared(fid)
<1>1. r \in Request
  BY FidReqType DEF Kind, OpenMode
<1>2. r.key = key /\ fids \in [Fid -> FidState]
  BY DEF Req, TypeOK
<1>3. NewFidsOf(r) = {} /\ HeldFidsOf(r) = {} /\ SharedFidsOf(r) = {fid}
  BY DEF Req, NewFidsOf, HeldFidsOf, SharedFidsOf
<1>4. Exclusives(r) = {} /\ Shareds(r) = ReserveShared(fid, key)
  BY <1>2, <1>3 DEF Exclusives, Shareds
<1>5. Admit(r, ok, Exclusives(r), Shareds(r), fids)
  BY <1>4 DEF Referrals
<1>6. ok => Granted(r, fids)
  BY <1>3 DEF Granted, SourceKind, Req, CanReserveShared
<1>7. ok \in BOOLEAN
  BY DEF HasFid, EnsureAvailable
<1> QED
  BY Zenon, <1>1, <1>2, <1>5, <1>6, <1>7 DEF AdmitsAs

\* Every admission is an Admit of a typed request that reserves exactly what
\* Exclusives and Shareds say, and is dispatched only when Granted.
LEMMA AdmitFidAdmits ==
    ASSUME TypeOK, NEW tag \in Tag, NEW fid \in Fid, AdmitFid(tag, fid)
    PROVE  \E r \in Request, ok \in BOOLEAN, fd \in [Fid -> FidState] :
              AdmitsAs(tag, r, ok, fd)
<1> DEFINE Goal == \E r \in Request, ok \in BOOLEAN, fd \in [Fid -> FidState] :
                      AdmitsAs(tag, r, ok, fd)
<1> SUFFICES Goal
  OBVIOUS
<1> HIDE DEF Goal
<1>1. ASSUME NEW valid \in BOOLEAN,
             \/ Auth(tag, fid, valid)
             \/ \E afid \in Fid \cup {NOFID} : Attach(tag, fid, afid, valid)
             \/ \E newfid \in Fid, n \in 0..MaxNames :
                   Walk(tag, fid, newfid, n, valid)
             \/ Write(tag, fid, valid)
             \/ Wstat(tag, fid, valid)
             \/ \E newdirfid \in Fid : RenameAt(tag, fid, newdirfid, valid)
      PROVE  Goal
  BY <1>1, AuthAdmits, AttachAdmits, WalkAdmits, WriteAdmits, WstatAdmits,
     RenameAtAdmits DEF Goal
<1>2. ASSUME NEW mode \in Modes,
             \/ Open(tag, fid, mode)
             \/ \E dir \in BOOLEAN : Create(tag, fid, mode, dir)
      PROVE  Goal
  BY <1>2, OpenAdmits, CreateAdmits DEF Goal
<1>3. ASSUME NEW offset \in Offset, Read(tag, fid, offset)
      PROVE  Goal
  BY <1>3, ReadAdmits DEF Goal
<1>4. ASSUME Clunk(tag, fid) \/ Remove(tag, fid)
      PROVE  Goal
  BY <1>4, RetireAdmits DEF Goal, Clunk, Remove
<1>5. ASSUME Stat(tag, fid) \/ Referrals(tag, fid)
      PROVE  Goal
  BY <1>5, StatAdmits, ReferralsAdmits DEF Goal
<1> QED
  BY <1>1, <1>2, <1>3, <1>4, <1>5 DEF AdmitFid

-----------------------------------------------------------------------------
(* Completion in one form.                                                 *)

\* No request but r holds f.
HeldByNoOther(r, f) ==
    /\ \A e \in ReleaseReservations(exclusive, {r.key}) : e.fid # f
    /\ \A s \in ReleaseReservations(shared, {r.key}) : s.fid # f

\* What a completion binds, if it binds anything: a new fid of the request or
\* an existing one that it holds, held by nobody else.
Binds(r, fd, f, state) ==
    /\ fd = [fids EXCEPT ![f] = state]
    /\ HeldByNoOther(r, f)
    /\ \/ f \in NewFidsOf(r)
       \/ f \in HeldFidsOf(r) /\ f = r.fid /\ SourceKind(r)
    /\ \/ QidAllowed(state.qid)
       \/ SourceKind(r) /\ state.qid = r.qid
       \/ state.qid = fids[f].qid

CompletesAs(r, fd) ==
    /\ Complete(r, fd)
    /\ fd = fids \/ \E f \in Fid, state \in FidState : Binds(r, fd, f, state)

\* bind_fid and insert_new_fid either refuse or bind the one fid asked for,
\* which no other request holds.
LEMMA BindFidBinds ==
    ASSUME NEW r, NEW f \in Fid, NEW state \in FidState,
           \/ f \in NewFidsOf(r)
           \/ f \in HeldFidsOf(r) /\ f = r.fid /\ SourceKind(r),
           \/ QidAllowed(state.qid)
           \/ SourceKind(r) /\ state.qid = r.qid
           \/ state.qid = fids[f].qid
    PROVE  /\ \/ BindFid(f, state, r.key) = fids
              \/ Binds(r, BindFid(f, state, r.key), f, state)
           /\ \/ InsertNewFid(f, state, r.key) = fids
              \/ Binds(r, InsertNewFid(f, state, r.key), f, state)
BY Zenon DEF BindFid, InsertNewFid, Binds, HeldByNoOther

\* FidState::new and FidState::opened return fid states with the given qid.
LEMMA StateTypes ==
    ASSUME NEW qid \in QidType \cup {"none"}, NEW mode \in OpenMode
    PROVE  /\ FidStateNew(qid) \in FidState
           /\ FidStateOpened(qid, mode) \in FidState
           /\ FidStateNew(qid).qid = qid
           /\ FidStateOpened(qid, mode).qid = qid
BY DEF FidStateNew, FidStateOpened, FidState, Offset, OpenMode

\* complete of any request is stale, or completes in the common form: it binds
\* at most one fid, of the request's own.
LEMMA CompleteRequestCompletes ==
    ASSUME TypeOK, NEW r \in Request, CompleteRequest(r)
    PROVE  CompleteStale(r) \/ \E fd : CompletesAs(r, fd)
<1> DEFINE Goal == \E fd : CompletesAs(r, fd)
<1> HIDE DEF Goal
<1>0. r.qid \in QidType \cup {"none"} /\ r.mode \in OpenMode /\ r.fid \in Fid
  BY DEF Request
<1>1. CASE CompleteUnbound(r)
  BY <1>1 DEF CompleteUnbound, CompletesAs, Goal
<1>2. CASE CompleteAuth(r)
  <2> DEFINE state == FidStateOpened("auth", "rdwr")
  <2>1. state \in FidState /\ QidAllowed(state.qid)
    BY StateTypes DEF QidType, OpenMode, QidAllowed
  <2>2. r.fid \in NewFidsOf(r)
    BY <1>0, <1>2 DEF CompleteAuth, NewFidsOf
  <2> QED
    BY <1>0, <1>2, <2>1, <2>2, BindFidBinds DEF CompleteAuth, CompletesAs, Goal
<1>3. ASSUME NEW qid \in QidType, CompleteAttach(r, qid)
      PROVE  Goal
  <2>1. FidStateNew(qid) \in FidState /\ QidAllowed(FidStateNew(qid).qid)
    BY <1>3, StateTypes DEF CompleteAttach, OpenMode
  <2>2. r.fid \in NewFidsOf(r)
    BY <1>0, <1>3 DEF CompleteAttach, NewFidsOf
  <2> QED
    BY <1>0, <1>3, <2>1, <2>2, BindFidBinds DEF CompleteAttach, CompletesAs, Goal
<1>4. ASSUME NEW qid \in QidType, CompleteWalk(r, qid)
      PROVE  Goal
  <2>1. /\ FidStateNew(qid) \in FidState /\ QidAllowed(FidStateNew(qid).qid)
        /\ FidStateNew(r.qid) \in FidState /\ FidStateNew(r.qid).qid = r.qid
    BY <1>0, <1>4, StateTypes DEF CompleteWalk, OpenMode
  <2>2. r.kind = "walk" /\ r.fid2 \in Fid /\ SourceKind(r)
    BY <1>4 DEF CompleteWalk, Request, SourceKind
  <2>3. CASE r.fid2 # r.fid
    <3>1. r.fid2 \in NewFidsOf(r)
      BY <2>2, <2>3 DEF NewFidsOf
    <3> QED
      BY <1>4, <2>1, <2>2, <2>3, <3>1, BindFidBinds
      DEF CompleteWalk, CompletesAs, Goal
  <2>4. CASE r.fid2 = r.fid
    <3>1. r.fid \in HeldFidsOf(r)
      BY <2>2, <2>4 DEF HeldFidsOf
    <3> QED
      BY <1>0, <1>4, <2>1, <2>2, <2>4, <3>1, BindFidBinds
      DEF CompleteWalk, CompletesAs, Goal
  <2> QED
    BY <2>3, <2>4
<1>5. ASSUME NEW qid \in QidType, CompleteOpen(r, qid)
      PROVE  Goal
  <2>1. /\ FidStateOpened(qid, r.mode) \in FidState
        /\ QidAllowed(FidStateOpened(qid, r.mode).qid)
    BY <1>0, <1>5, StateTypes DEF CompleteOpen
  <2>2. r.fid \in HeldFidsOf(r) /\ SourceKind(r)
    BY <1>0, <1>5 DEF CompleteOpen, HeldFidsOf, SourceKind
  <2> QED
    BY <1>0, <1>5, <2>1, <2>2, BindFidBinds DEF CompleteOpen, CompletesAs, Goal
<1>6. ASSUME NEW len \in ReadLen, CompleteReadDir(r, len)
      PROVE  Goal
  <2> DEFINE state == [fids[r.fid] EXCEPT !.directory_offset = r.n + len]
  <2>1. r.n + len \in Offset
    BY <1>6 DEF CompleteReadDir, Request, Offset, ReadLen
  <2>2. state \in FidState /\ state.qid = fids[r.fid].qid
    BY <1>0, <2>1 DEF TypeOK, FidState
  <2>3. r.fid \in HeldFidsOf(r) /\ SourceKind(r)
    BY <1>0, <1>6 DEF CompleteReadDir, HeldFidsOf, SourceKind
  <2>4. Complete(r, BindFid(r.fid, state, r.key))
    BY <1>6 DEF CompleteReadDir
  <2> HIDE DEF state
  <2> QED
    BY <1>0, <2>2, <2>3, <2>4, BindFidBinds DEF CompletesAs, Goal
<1> QED
  BY <1>1, <1>2, <1>3, <1>4, <1>5, <1>6 DEF CompleteRequest, Goal

-----------------------------------------------------------------------------
(* The shapes of a step.                                                   *)

VersionStep == \E requested \in Variant \cup {"other", "small"} : Version(requested)
AdmitStep ==
    \E tag \in Tag, r \in Request, ok \in BOOLEAN, fd \in [Fid -> FidState] :
        AdmitsAs(tag, r, ok, fd)
FlushStep == \E tag, oldtag \in Tag : Flush(tag, oldtag)
StaleStep == \E r \in inflight : CompleteStale(r)
CompleteStep == \E r \in inflight : \E fd : CompletesAs(r, fd)

\* Every step of a session is one of five shapes.
LEMMA StepShapes ==
    ASSUME TypeOK, Next
    PROVE  VersionStep \/ AdmitStep \/ FlushStep \/ StaleStep \/ CompleteStep
<1>1. ASSUME NEW tag \in Tag, NEW fid \in Fid, AdmitFid(tag, fid)
      PROVE  AdmitStep
  BY <1>1, AdmitFidAdmits DEF AdmitStep
<1>2. ASSUME NEW r \in inflight, CompleteRequest(r)
      PROVE  StaleStep \/ CompleteStep
  <2>1. r \in Request
    BY DEF TypeOK
  <2> QED
    BY <1>2, <2>1, CompleteRequestCompletes DEF StaleStep, CompleteStep
<1> QED
  BY <1>1, <1>2 DEF Next, VersionStep, FlushStep

-----------------------------------------------------------------------------
(* Type correctness.                                                       *)

\* Init establishes TypeOK: a new session has no fids and no requests.
LEMMA InitTypeOK == Init => TypeOK
<1>1. [f \in Fid |-> Unbound] \in [Fid -> FidState]
  BY DEF Unbound, FidStateNew, FidState, OpenMode, Offset
<1>2. Init => negotiated \in BOOLEAN
  BY Zenon DEF Init
<1>3. 0 \in 0..MaxGeneration
  OBVIOUS
<1> QED
  BY <1>1, <1>2, <1>3 DEF Init, TypeOK

\* Every step of a session preserves TypeOK.
LEMMA NextTypeOK ==
    ASSUME TypeOK, [Next]_vars
    PROVE  TypeOK'
<1>1. CASE VersionStep
  <2>1. PICK requested \in Variant \cup {"other", "small"} : Version(requested)
    BY <1>1 DEF VersionStep
  <2>2. Accept(requested) \in Variant \cup {"none"}
    BY DEF Accept, Variant
  <2>3. [f \in Fid |-> Unbound] \in [Fid -> FidState]
    BY DEF Unbound, FidStateNew, FidState, OpenMode, Offset
  <2> QED
    BY <2>1, <2>2, <2>3 DEF Version, TypeOK
<1>2. CASE AdmitStep
  <2>1. PICK tag \in Tag, r \in Request, ok \in BOOLEAN,
             fd \in [Fid -> FidState] : AdmitsAs(tag, r, ok, fd)
    BY <1>2 DEF AdmitStep
  <2>2. r.key \in RequestKey /\ Exclusives(r) \subseteq Reservation
            /\ Shareds(r) \subseteq SharedReservation
    BY ReservationsType DEF Request
  <2> QED
    BY <2>1, <2>2 DEF AdmitsAs, Admit, TypeOK, ReleaseReservations
<1>3. CASE FlushStep
  BY <1>3 DEF FlushStep, Flush, TypeOK, ReleaseReservations
<1>4. CASE StaleStep
  BY <1>4 DEF StaleStep, CompleteStale, TypeOK
<1>5. CASE CompleteStep
  <2>1. PICK r \in inflight : \E fd : CompletesAs(r, fd)
    BY <1>5 DEF CompleteStep
  <2>2. PICK fd : CompletesAs(r, fd)
    BY <2>1
  <2>3. fd \in [Fid -> FidState]
    BY <2>2 DEF CompletesAs, Binds, TypeOK
  <2> QED
    BY <2>2, <2>3 DEF CompletesAs, Complete, TypeOK, ReleaseReservations
<1>6. CASE UNCHANGED vars
  BY <1>6 DEF vars, TypeOK
<1> QED
  BY <1>1, <1>2, <1>3, <1>4, <1>5, <1>6, StepShapes

\* The variables of a session always have their types: no admission, flush,
\* reset or completion, in any order, leaves a malformed fid, reservation,
\* key or request behind.
THEOREM TypeCorrect == Spec => []TypeOK
BY InitTypeOK, NextTypeOK, PTL DEF Spec

-----------------------------------------------------------------------------
(* Request keys.                                                           *)

\* Every step preserves KeysFresh: begin stamps each request with a generation
\* no request in flight has, and reset keeps counting.
LEMMA NextKeysFresh ==
    ASSUME TypeOK, KeysFresh, [Next]_vars
    PROVE  KeysFresh'
<1> USE DEF KeysFresh
<1>0. /\ next_generation \in Nat
      /\ \A r \in inflight : r.key.generation \in Nat
  BY DEF TypeOK, Request, RequestKey
<1>1. CASE VersionStep
  BY <1>0, <1>1 DEF VersionStep, Version
<1>2. CASE AdmitStep
  <2>1. PICK tag \in Tag, r \in Request, ok \in BOOLEAN,
             fd \in [Fid -> FidState] : AdmitsAs(tag, r, ok, fd)
    BY <1>2 DEF AdmitStep
  <2>2. r.key.generation = next_generation /\ r.key.tag = tag
    BY <2>1 DEF AdmitsAs, NextKey, Key
  <2>3. CASE ok /\ live' = live \cup {r.key} /\ inflight' = inflight \cup {r}
    BY <1>0, <2>1, <2>2, <2>3 DEF AdmitsAs, Admit, IsLive
  <2>4. CASE UNCHANGED <<live, inflight>>
    BY <1>0, <2>1, <2>4 DEF AdmitsAs, Admit
  <2> QED
    BY <2>1, <2>3, <2>4 DEF AdmitsAs, Admit
<1>3. CASE FlushStep
  BY <1>0, <1>3 DEF FlushStep, Flush
<1>4. CASE StaleStep
  BY <1>0, <1>4 DEF StaleStep, CompleteStale, Finishes
<1>5. CASE CompleteStep
  BY <1>0, <1>5 DEF CompleteStep, CompletesAs, Complete
<1>6. CASE UNCHANGED vars
  BY <1>6 DEF vars
<1> QED
  BY <1>1, <1>2, <1>3, <1>4, <1>5, <1>6, StepShapes

\* No key is issued twice while a completion can still name it, across any
\* number of flushes and version resets.
THEOREM KeysStayFresh == Spec => []KeysFresh
<1>1. Init => KeysFresh
  BY DEF Init, KeysFresh
<1> QED
  BY <1>1, InitTypeOK, NextTypeOK, NextKeysFresh, PTL DEF Spec

-----------------------------------------------------------------------------
(* The reservation ledger.                                                 *)

\* ReservationLedger element by element.
LEMMA LedgerElements ==
    ReservationLedger <=>
        /\ \A e : e \in exclusive <=>
                     \E r \in inflight : r.key \in live /\ e \in Exclusives(r)
        /\ \A s : s \in shared <=>
                     \E r \in inflight : r.key \in live /\ s \in Shareds(r)
BY DEF ReservationLedger, LiveRequests

\* Giving up a set of keys keeps the ledger.
LEMMA ReleaseKeepsLedger ==
    ASSUME TypeOK, ReservationLedger, NEW keys,
           exclusive' = ReleaseReservations(exclusive, keys),
           shared' = ReleaseReservations(shared, keys),
           live' = live \ keys,
           inflight' \subseteq inflight,
           \A r \in inflight : r.key \in live' => r \in inflight'
    PROVE  ReservationLedger'
<1>1. \A r \in inflight : /\ \A e \in Exclusives(r) : e.request = r.key
                          /\ \A s \in Shareds(r) : s.request = r.key
  BY ReservationsType DEF TypeOK
<1>2. \A e : e \in exclusive' <=>
                \E r \in inflight' : r.key \in live' /\ e \in Exclusives(r)
  BY <1>1, LedgerElements DEF ReleaseReservations
<1>3. \A s : s \in shared' <=>
                \E r \in inflight' : r.key \in live' /\ s \in Shareds(r)
  BY <1>1, LedgerElements DEF ReleaseReservations
<1> QED
  BY <1>2, <1>3 DEF ReservationLedger, LiveRequests

\* A key that is about to be issued holds nothing yet.
LEMMA FreshKeyHoldsNothing ==
    ASSUME TypeOK, KeysFresh, ReservationLedger, NEW tag \in Tag
    PROVE  /\ \A e \in exclusive : e.request # NextKey(tag)
           /\ \A s \in shared : s.request # NextKey(tag)
<1>1. \A r \in inflight : r.key # NextKey(tag)
  <2>1. \A r \in inflight : r.key.generation \in Nat
                                /\ r.key.generation < next_generation
    BY DEF TypeOK, Request, RequestKey, KeysFresh
  <2>2. NextKey(tag).generation = next_generation /\ next_generation \in Nat
    BY DEF NextKey, Key, TypeOK
  <2> QED
    BY <2>1, <2>2
<1>2. \A r \in inflight : /\ \A e \in Exclusives(r) : e.request = r.key
                          /\ \A s \in Shareds(r) : s.request = r.key
  BY ReservationsType DEF TypeOK
<1> QED
  BY <1>1, <1>2, LedgerElements

\* A request that fails its checks leaves the reservations as they were.
LEMMA RefusalReservesNothing ==
    ASSUME TypeOK, KeysFresh, ReservationLedger,
           NEW tag \in Tag, NEW r \in Request, r.key = NextKey(tag)
    PROVE  /\ ReleaseReservations(exclusive \cup Exclusives(r), {r.key}) = exclusive
           /\ ReleaseReservations(shared \cup Shareds(r), {r.key}) = shared
BY FreshKeyHoldsNothing, ReservationsType DEF ReleaseReservations

\* An admission either dispatches the request with its reservations, or
\* changes nothing but the generation counter.
LEMMA AdmitOutcome ==
    ASSUME TypeOK, KeysFresh, ReservationLedger,
           NEW tag \in Tag, NEW r \in Request, NEW ok \in BOOLEAN,
           NEW fd \in [Fid -> FidState], AdmitsAs(tag, r, ok, fd)
    PROVE  /\ UNCHANGED <<negotiated, variant>>
           /\ \A q \in inflight : q.key # r.key
           /\ \/ /\ Granted(r, fd)
                 /\ live' = live \cup {r.key}
                 /\ inflight' = inflight \cup {r}
                 /\ exclusive' = exclusive \cup Exclusives(r)
                 /\ shared' = shared \cup Shareds(r)
                 /\ fids' = fd
              \/ UNCHANGED <<live, inflight, exclusive, shared, fids>>
<1>1. \A q \in inflight : q.key # r.key
  <2>1. \A q \in inflight : q.key.generation \in Nat
                                /\ q.key.generation < next_generation
    BY DEF TypeOK, Request, RequestKey, KeysFresh
  <2>2. r.key.generation = next_generation /\ next_generation \in Nat
    BY DEF AdmitsAs, NextKey, Key, TypeOK
  <2> QED
    BY <2>1, <2>2
<1>2. r.key = NextKey(tag)
  BY DEF AdmitsAs
<1> QED
  BY <1>1, <1>2, RefusalReservesNothing DEF AdmitsAs, Admit

\* Every step preserves the ledger.
LEMMA NextLedger ==
    ASSUME TypeOK, KeysFresh, ReservationLedger, [Next]_vars
    PROVE  ReservationLedger'
<1>1. CASE VersionStep
  BY <1>1 DEF VersionStep, Version, ReservationLedger, LiveRequests
<1>2. CASE AdmitStep
  <2>1. PICK tag \in Tag, r \in Request, ok \in BOOLEAN,
             fd \in [Fid -> FidState] : AdmitsAs(tag, r, ok, fd)
    BY <1>2 DEF AdmitStep
  <2>2. CASE UNCHANGED <<live, inflight, exclusive, shared, fids>>
    BY <2>2 DEF ReservationLedger, LiveRequests
  <2>3. CASE /\ live' = live \cup {r.key}
             /\ inflight' = inflight \cup {r}
             /\ exclusive' = exclusive \cup Exclusives(r)
             /\ shared' = shared \cup Shareds(r)
    <3>1. \A q \in inflight : q.key # r.key
      BY <2>1, AdmitOutcome
    <3>2. \A q : q \in LiveRequests' <=> q \in LiveRequests \/ q = r
      BY <2>3, <3>1 DEF LiveRequests
    <3>3. exclusive' = UNION {Exclusives(q) : q \in LiveRequests'}
      BY <2>3, <3>2 DEF ReservationLedger
    <3>4. shared' = UNION {Shareds(q) : q \in LiveRequests'}
      BY <2>3, <3>2 DEF ReservationLedger
    <3> QED
      BY <3>3, <3>4 DEF ReservationLedger
  <2> QED
    BY <2>1, <2>2, <2>3, AdmitOutcome
<1>3. CASE FlushStep
  <2>1. PICK tag \in Tag, oldtag \in Tag : Flush(tag, oldtag)
    BY <1>3 DEF FlushStep
  <2> DEFINE keys == FlushCancels(live \cup {NextKey(tag)}, oldtag)
  <2> HIDE DEF keys
  <2>2. /\ exclusive' = ReleaseReservations(exclusive, keys)
        /\ shared' = ReleaseReservations(shared, keys)
        /\ live' = live \ keys
        /\ inflight' = inflight
    BY <2>1 DEF Flush, keys
  <2> QED
    BY <2>2, ReleaseKeepsLedger
<1>4. CASE StaleStep
  <2>1. PICK r \in inflight : CompleteStale(r)
    BY <1>4 DEF StaleStep
  <2>2. LiveRequests' = LiveRequests
    BY <2>1 DEF CompleteStale, LiveRequests, Finishes
  <2> QED
    BY <2>1, <2>2 DEF CompleteStale, ReservationLedger
<1>5. CASE CompleteStep
  <2>1. PICK r \in inflight : \E fd : CompletesAs(r, fd)
    BY <1>5 DEF CompleteStep
  <2>2. /\ exclusive' = ReleaseReservations(exclusive, {r.key})
        /\ shared' = ReleaseReservations(shared, {r.key})
        /\ live' = live \ {r.key}
        /\ inflight' = inflight \ {r}
    BY <2>1 DEF CompletesAs, Complete
  <2> QED
    BY <2>2, ReleaseKeepsLedger
<1>6. CASE UNCHANGED vars
  BY <1>6 DEF vars, ReservationLedger, LiveRequests
<1> QED
  BY <1>1, <1>2, <1>3, <1>4, <1>5, <1>6, StepShapes

-----------------------------------------------------------------------------
(* Reserved fids do not change.                                            *)

FrozenStep ==
    \A f \in Fid :
        (\E e \in (exclusive \cap exclusive') \cup (shared \cap shared') :
            e.fid = f)
        => fids'[f] = fids[f]

\* What a request holds, by fid.
LEMMA ReservedFids ==
    ASSUME NEW r
    PROVE  /\ \A f \in NewFidsOf(r) :
                 [fid |-> f, request |-> r.key, new_fid |-> TRUE] \in Exclusives(r)
           /\ \A f \in HeldFidsOf(r) :
                 [fid |-> f, request |-> r.key, new_fid |-> FALSE] \in Exclusives(r)
           /\ \A f \in SharedFidsOf(r) :
                 [fid |-> f, request |-> r.key] \in Shareds(r)
           /\ \A e \in Exclusives(r) :
                 \/ e.new_fid = TRUE /\ e.fid \in NewFidsOf(r)
                 \/ e.new_fid = FALSE /\ e.fid \in HeldFidsOf(r)
           /\ \A s \in Shareds(r) : s.fid \in SharedFidsOf(r)
<1>1. ASSUME NEW e \in Exclusives(r)
      PROVE  \/ e.new_fid = TRUE /\ e.fid \in NewFidsOf(r)
             \/ e.new_fid = FALSE /\ e.fid \in HeldFidsOf(r)
  BY ExclusivesElement
<1>2. \A s \in Shareds(r) : s.fid \in SharedFidsOf(r)
  BY SharedsElement
<1>3. \A f \in NewFidsOf(r) :
         [fid |-> f, request |-> r.key, new_fid |-> TRUE] \in Exclusives(r)
  BY ExclusivesElement
<1>4. \A f \in HeldFidsOf(r) :
         [fid |-> f, request |-> r.key, new_fid |-> FALSE] \in Exclusives(r)
  BY ExclusivesElement
<1>5. \A f \in SharedFidsOf(r) : [fid |-> f, request |-> r.key] \in Shareds(r)
  BY SharedsElement
<1> QED
  BY Zenon, <1>1, <1>2, <1>3, <1>4, <1>5

\* No step changes a fid that a request goes on holding.
LEMMA NextFrozen ==
    ASSUME TypeOK, KeysFresh, ReservationLedger, [Next]_vars
    PROVE  FrozenStep
<1>1. CASE VersionStep
  BY <1>1 DEF VersionStep, Version, FrozenStep
<1>2. CASE AdmitStep
  <2>1. PICK tag \in Tag, r \in Request, ok \in BOOLEAN,
             fd \in [Fid -> FidState] : AdmitsAs(tag, r, ok, fd)
    BY <1>2 DEF AdmitStep
  <2>2. CASE UNCHANGED <<live, inflight, exclusive, shared, fids>>
    BY <2>2 DEF FrozenStep
  <2>3. CASE Granted(r, fd) /\ fids' = fd
    <3>1. CASE fd = fids
      BY <2>3, <3>1 DEF FrozenStep
    <3>2. CASE r.kind \in {"clunk", "remove"} /\ fd = [fids EXCEPT ![r.fid] = Unbound]
      <4>1. r.fid \in HeldFidsOf(r)
        BY <3>2 DEF HeldFidsOf, Request
      <4>2. EnsureUnreserved(r.fid)
        BY <2>3, <4>1 DEF Granted
      <4>3. \A f \in Fid : f # r.fid => fids'[f] = fids[f]
        BY <2>3, <3>2 DEF TypeOK
      <4> QED
        BY <4>2, <4>3 DEF FrozenStep, EnsureUnreserved, EnsureAvailable
    <3> QED
      BY <2>3, <3>1, <3>2 DEF Granted
  <2> QED
    BY <2>1, <2>2, <2>3, AdmitOutcome
<1>3. CASE FlushStep
  BY <1>3 DEF FlushStep, Flush, FrozenStep
<1>4. CASE StaleStep
  BY <1>4 DEF StaleStep, CompleteStale, FrozenStep
<1>5. CASE CompleteStep
  <2>1. PICK r \in inflight : \E fd : CompletesAs(r, fd)
    BY <1>5 DEF CompleteStep
  <2>2. PICK fd : CompletesAs(r, fd)
    BY <2>1
  <2>3. CASE fd = fids
    BY <2>2, <2>3 DEF CompletesAs, Complete, FrozenStep
  <2>4. ASSUME NEW f \in Fid, NEW state \in FidState, Binds(r, fd, f, state)
        PROVE  FrozenStep
    <3>1. \A g \in Fid : g # f => fids'[g] = fids[g]
      BY Zenon, <2>2, <2>4 DEF CompletesAs, Complete, Binds, TypeOK
    <3>2. /\ \A e \in exclusive' : e.fid # f
          /\ \A t \in shared' : t.fid # f
      BY Zenon, <2>2, <2>4 DEF CompletesAs, Complete, Binds, HeldByNoOther
    <3> QED
      BY <3>1, <3>2 DEF FrozenStep
  <2> QED
    BY <2>2, <2>3, <2>4 DEF CompletesAs
<1>6. CASE UNCHANGED vars
  BY <1>6 DEF vars, FrozenStep
<1> QED
  BY <1>1, <1>2, <1>3, <1>4, <1>5, <1>6, StepShapes

-----------------------------------------------------------------------------
(* Reservations exclude each other.                                        *)

\* Every step preserves the exclusion of reservations.
LEMMA NextExclude ==
    ASSUME TypeOK, KeysFresh, ReservationLedger, ReservationsExclude, [Next]_vars
    PROVE  ReservationsExclude'
<1>0. FrozenStep
  BY NextFrozen
<1>1. CASE VersionStep
  BY <1>1 DEF VersionStep, Version, ReservationsExclude
<1>2. CASE AdmitStep
  <2>1. PICK tag \in Tag, r \in Request, ok \in BOOLEAN,
             fd \in [Fid -> FidState] : AdmitsAs(tag, r, ok, fd)
    BY <1>2 DEF AdmitStep
  <2>2. CASE UNCHANGED <<live, inflight, exclusive, shared, fids>>
    BY Zenon, <2>2 DEF ReservationsExclude, Bound
  <2>3. CASE /\ Granted(r, fd)
             /\ exclusive' = exclusive \cup Exclusives(r)
             /\ shared' = shared \cup Shareds(r)
             /\ fids' = fd
    <3>1. \A f \in NewFidsOf(r) : ~Bound(f) /\ EnsureUnreserved(f)
      BY <2>3 DEF Granted, CanReserveNew, ContainsFid
    <3>2. \A f \in HeldFidsOf(r) : Bound(f) /\ EnsureUnreserved(f)
      BY <2>3 DEF Granted
    <3>3. \A f \in SharedFidsOf(r) : Bound(f) /\ EnsureAvailable(f)
      BY Zenon, <2>3 DEF Granted
    <3>4. HeldFidsOf(r) \cap SharedFidsOf(r) = {}
      BY DEF HeldFidsOf, SharedFidsOf
    <3>5. \A d, e \in Exclusives(r) : d.fid = e.fid => d = e
      <4>1. \A e \in Exclusives(r) :
               \/ e = [fid |-> e.fid, request |-> r.key, new_fid |-> TRUE]
                  /\ e.fid \in NewFidsOf(r)
               \/ e = [fid |-> e.fid, request |-> r.key, new_fid |-> FALSE]
                  /\ e.fid \in HeldFidsOf(r)
        BY ExclusivesElement
      <4> QED
        BY Zenon, <3>1, <3>2, <4>1
    <3>6. \A d, e \in exclusive' : d.fid = e.fid => d = e
      BY Zenon, <2>3, <3>1, <3>2, <3>5, ReservedFids
      DEF ReservationsExclude, EnsureUnreserved, EnsureAvailable
    <3>7. \A e \in exclusive', t \in shared' : e.fid # t.fid
      BY Zenon, <2>3, <3>1, <3>2, <3>3, <3>4, ReservedFids
      DEF ReservationsExclude, EnsureUnreserved, EnsureAvailable
    <3>8. \A t \in shared' : Bound(t.fid)'
      <4>1. CASE fd = fids
        BY Zenon, <2>3, <3>3, <4>1, ReservedFids DEF ReservationsExclude, Bound
      <4>2. CASE r.kind \in {"clunk", "remove"}
                    /\ fd = [fids EXCEPT ![r.fid] = Unbound]
        <5>1. SharedFidsOf(r) = {}
          BY <4>2 DEF SharedFidsOf
        <5>2. shared' = shared /\ \A t \in shared : t.fid \in Fid
          BY Zenon, <2>3, <5>1, ReservedFids DEF TypeOK, SharedReservation
        <5> QED
          BY <1>0, <5>2 DEF FrozenStep, ReservationsExclude, Bound
      <4> QED
        BY Zenon, <2>3, <4>1, <4>2 DEF Granted
    <3>9. \A e \in exclusive' : e.new_fid => ~Bound(e.fid)'
      <4>1. \A f \in Fid : ~Bound(f) => ~Bound(f)'
        BY Zenon, <2>3 DEF Granted, Bound, TypeOK
      <4>2. \A e \in exclusive' : e.fid \in Fid
        BY <2>3, ReservationsType DEF TypeOK, Reservation
      <4>3. \A e \in exclusive' : e.new_fid => ~Bound(e.fid)
        BY Zenon, <2>3, <3>1, ReservedFids DEF ReservationsExclude
      <4> QED
        BY <4>1, <4>2, <4>3
    <3> QED
      BY Zenon, <3>6, <3>7, <3>8, <3>9 DEF ReservationsExclude
  <2> QED
    BY <2>1, <2>2, <2>3, AdmitOutcome
<1>3. CASE FlushStep
  BY Zenon, <1>3 DEF FlushStep, Flush, ReservationsExclude, ReleaseReservations,
     Bound
<1>4. CASE StaleStep
  BY <1>4 DEF StaleStep, CompleteStale, ReservationsExclude, Bound
<1>5. CASE CompleteStep
  <2>1. /\ exclusive' \subseteq exclusive
        /\ shared' \subseteq shared
    BY <1>5 DEF CompleteStep, CompletesAs, Complete, ReleaseReservations
  <2>2. /\ \A e \in exclusive : e.fid \in Fid
        /\ \A t \in shared : t.fid \in Fid
    BY DEF TypeOK, Reservation, SharedReservation
  <2>3. /\ \A e \in exclusive' : fids'[e.fid] = fids[e.fid]
        /\ \A t \in shared' : fids'[t.fid] = fids[t.fid]
    BY <1>0, <2>1, <2>2 DEF FrozenStep
  <2> QED
    BY <2>1, <2>3 DEF ReservationsExclude, Bound
<1>6. CASE UNCHANGED vars
  BY <1>6 DEF vars, ReservationsExclude, Bound
<1> QED
  BY <1>1, <1>2, <1>3, <1>4, <1>5, <1>6, StepShapes

-----------------------------------------------------------------------------
(* What a live request relies on stays as it was admitted.                 *)

\* A fid that a request goes on holding across a step does not change.
LEMMA HeldAcrossStep ==
    ASSUME TypeOK, ReservationLedger, ReservationLedger', FrozenStep,
           NEW r \in LiveRequests, r \in LiveRequests',
           NEW f \in HeldFidsOf(r) \cup SharedFidsOf(r)
    PROVE  fids'[f] = fids[f]
<1>1. f \in Fid
  BY DEF HeldFidsOf, SharedFidsOf
<1>2. Exclusives(r) \subseteq exclusive \cap exclusive'
  BY DEF ReservationLedger
<1>3. Shareds(r) \subseteq shared \cap shared'
  BY DEF ReservationLedger
<1>4. \E e \in (exclusive \cap exclusive') \cup (shared \cap shared') : e.fid = f
  <2>1. CASE f \in HeldFidsOf(r)
    <3> DEFINE e == [fid |-> f, request |-> r.key, new_fid |-> FALSE]
    <3>1. e \in Exclusives(r) /\ e.fid = f
      BY Zenon, <2>1, ReservedFids
    <3> QED
      BY <1>2, <3>1
  <2>2. CASE f \in SharedFidsOf(r)
    <3> DEFINE e == [fid |-> f, request |-> r.key]
    <3>1. e \in Shareds(r) /\ e.fid = f
      BY Zenon, <2>2, ReservedFids
    <3> QED
      BY <1>3, <3>1
  <2> QED
    BY <2>1, <2>2
<1> QED
  BY <1>1, <1>4 DEF FrozenStep

\* A step leaves at most one request live that was not, and that one has just
\* been granted.
LEMMA NewlyLive ==
    ASSUME TypeOK, KeysFresh, ReservationLedger, [Next]_vars,
           NEW r \in LiveRequests', r \notin LiveRequests
    PROVE  /\ \E fd : Granted(r, fd) /\ fids' = fd
           /\ variant' = variant
<1>1. CASE VersionStep
  BY <1>1 DEF VersionStep, Version, LiveRequests
<1>2. CASE AdmitStep
  <2>1. PICK tag \in Tag, q \in Request, ok \in BOOLEAN,
             fd \in [Fid -> FidState] : AdmitsAs(tag, q, ok, fd)
    BY <1>2 DEF AdmitStep
  <2>2. UNCHANGED <<negotiated, variant>> /\ \A p \in inflight : p.key # q.key
    BY <2>1, AdmitOutcome
  <2>3. CASE UNCHANGED <<live, inflight, exclusive, shared, fids>>
    BY <2>3 DEF LiveRequests
  <2>4. CASE /\ Granted(q, fd)
             /\ live' = live \cup {q.key}
             /\ inflight' = inflight \cup {q}
             /\ fids' = fd
    BY <2>2, <2>4 DEF LiveRequests
  <2> QED
    BY <2>1, <2>3, <2>4, AdmitOutcome
<1>3. CASE FlushStep
  BY <1>3 DEF FlushStep, Flush, LiveRequests
<1>4. CASE StaleStep
  BY <1>4 DEF StaleStep, CompleteStale, LiveRequests
<1>5. CASE CompleteStep
  BY <1>5 DEF CompleteStep, CompletesAs, Complete, LiveRequests
<1>6. CASE UNCHANGED vars
  BY <1>6 DEF vars, LiveRequests
<1> QED
  BY <1>1, <1>2, <1>3, <1>4, <1>5, <1>6, StepShapes

\* A fid held for a request other than a clunk or remove stays bound.
HeldFidsBound ==
    \A r \in LiveRequests : r.kind \notin {"clunk", "remove"} =>
        \A f \in HeldFidsOf(r) : Bound(f)

\* Every step keeps held fids bound.
LEMMA NextHeldFidsBound ==
    ASSUME TypeOK, KeysFresh, ReservationLedger, HeldFidsBound, [Next]_vars
    PROVE  HeldFidsBound'
<1>1. FrozenStep /\ ReservationLedger'
  BY NextFrozen, NextLedger
<1>2. SUFFICES ASSUME NEW r \in LiveRequests', r.kind \notin {"clunk", "remove"},
                      NEW f \in HeldFidsOf(r)
               PROVE  Bound(f)'
  BY DEF HeldFidsBound
<1>3. CASE r \in LiveRequests
  BY <1>1, <1>2, <1>3, HeldAcrossStep DEF HeldFidsBound, Bound
<1>4. CASE r \notin LiveRequests
  BY <1>2, <1>4, NewlyLive DEF Granted, Bound
<1> QED
  BY <1>3, <1>4

\* The fid of a request that hands its qid to the backend is reserved.
LEMMA SourceReserved ==
    ASSUME NEW r \in Request, SourceKind(r)
    PROVE  r.fid \in HeldFidsOf(r) \cup SharedFidsOf(r)
BY DEF SourceKind, Request, HeldFidsOf, SharedFidsOf

\* Every step keeps the source of every live request as its admission saw it.
LEMMA NextSourceStable ==
    ASSUME TypeOK, KeysFresh, ReservationLedger, SourceStable, [Next]_vars
    PROVE  SourceStable'
<1>1. FrozenStep /\ ReservationLedger' /\ TypeOK'
  BY NextFrozen, NextLedger, NextTypeOK
<1>2. SUFFICES ASSUME NEW r \in LiveRequests'
               PROVE  /\ SourceKind(r) => Bound(r.fid)' /\ fids'[r.fid].qid = r.qid
                      /\ r.kind \in {"walk", "open", "create"} =>
                             fids'[r.fid].open_mode = "none"
  BY Zenon DEF SourceStable, SourceKind
<1>3. r \in Request
  BY <1>1 DEF LiveRequests, TypeOK
<1>4. r.kind \in {"walk", "open", "create"} => SourceKind(r)
  BY DEF SourceKind
<1>5. CASE r \in LiveRequests
  <2>1. SourceKind(r) => fids'[r.fid] = fids[r.fid]
    BY <1>1, <1>2, <1>3, <1>5, SourceReserved, HeldAcrossStep
  <2> QED
    BY Zenon, <1>4, <1>5, <2>1 DEF SourceStable, SourceKind, Bound
<1>6. CASE r \notin LiveRequests
  <2>1. SourceKind(r) => r.kind \notin {"clunk", "remove"}
    BY DEF SourceKind
  <2> QED
    BY <1>2, <1>4, <1>6, <2>1, NewlyLive DEF Granted, Bound
<1> QED
  BY <1>5, <1>6

-----------------------------------------------------------------------------
(* The limit on fids.                                                      *)

\* The fids in use are finitely many, so that they can be counted.
LEMMA FidSetsFinite ==
    /\ IsFiniteSet(BoundFids) /\ Cardinality(BoundFids) \in Nat
    /\ IsFiniteSet(NewFids) /\ Cardinality(NewFids) \in Nat
<1>1. BoundFids \in SUBSET Fid /\ NewFids \in SUBSET Fid
  BY DEF BoundFids, NewFids
<1> QED
  BY <1>1, FS_Subset, FS_CardinalityType

\* A subset of a finite set is no larger.
LEMMA SmallerSet ==
    ASSUME NEW S, NEW T, IsFiniteSet(T), S \subseteq T
    PROVE  IsFiniteSet(S) /\ Cardinality(S) \in Nat /\ Cardinality(T) \in Nat
               /\ Cardinality(S) <= Cardinality(T)
BY FS_Subset, FS_CardinalityType

\* One more element adds at most one to the size of a finite set.
LEMMA OneMore ==
    ASSUME NEW S, NEW f, IsFiniteSet(S)
    PROVE  /\ IsFiniteSet(S \cup {f})
           /\ Cardinality(S \cup {f}) \in Nat
           /\ Cardinality(S \cup {f}) <= Cardinality(S) + 1
<1>1. /\ IsFiniteSet(S \cup {f})
      /\ \/ Cardinality(S \cup {f}) = Cardinality(S)
         \/ Cardinality(S \cup {f}) = Cardinality(S) + 1
  BY FS_AddElement, Zenon
<1>2. Cardinality(S) \in Nat /\ Cardinality(S \cup {f}) \in Nat
  BY <1>1, FS_CardinalityType
<1> QED
  BY <1>1, <1>2

\* Every step stays within max_fids: an admission that reserves a new fid
\* checked the count, and a completion binds what was counted as reserved.
LEMMA NextFidLimit ==
    ASSUME TypeOK, KeysFresh, ReservationLedger, ReservationsExclude, FidLimit,
           SourceStable, [Next]_vars
    PROVE  FidLimit'
<1> DEFINE B == BoundFids
           N == NewFids
<1>0. /\ IsFiniteSet(B) /\ IsFiniteSet(N)
      /\ Cardinality(B) \in Nat /\ Cardinality(N) \in Nat
      /\ Cardinality(B) + Cardinality(N) <= MaxFids
  BY FidSetsFinite DEF FidLimit, FidCount
<1>s. ASSUME B' \subseteq B, N' \subseteq N
      PROVE  FidLimit'
  <2>1. /\ Cardinality(B') \in Nat /\ Cardinality(B') <= Cardinality(B)
        /\ Cardinality(N') \in Nat /\ Cardinality(N') <= Cardinality(N)
    BY <1>0, <1>s, SmallerSet
  <2> QED
    BY <1>0, <2>1 DEF FidLimit, FidCount
<1>1. CASE VersionStep
  <2>1. B' = {} /\ N' = {}
    BY <1>1 DEF VersionStep, Version, BoundFids, NewFids, Bound
  <2> QED
    BY <1>s, <2>1
<1>2. CASE AdmitStep
  <2>1. PICK tag \in Tag, r \in Request, ok \in BOOLEAN,
             fd \in [Fid -> FidState] : AdmitsAs(tag, r, ok, fd)
    BY <1>2 DEF AdmitStep
  <2>2. CASE UNCHANGED <<live, inflight, exclusive, shared, fids>>
    BY Zenon, <1>s, <2>2 DEF BoundFids, NewFids, Bound
  <2>3. CASE /\ Granted(r, fd)
             /\ exclusive' = exclusive \cup Exclusives(r)
             /\ fids' = fd
    <3>1. B' \subseteq B
      BY Zenon, <2>3 DEF Granted, BoundFids, Bound, TypeOK
    <3>2. N' \subseteq N \cup NewFidsOf(r)
      BY Zenon, <2>3, ReservedFids DEF NewFids
    <3>3. CASE NewFidsOf(r) = {}
      BY <1>s, <3>1, <3>2, <3>3
    <3>4. ASSUME NEW f \in NewFidsOf(r)
          PROVE  FidLimit'
      <4>1. NewFidsOf(r) = {f}
        BY Zenon, <2>3 DEF Granted
      <4>2. Cardinality(B) + Cardinality(N) < MaxFids
        BY Zenon, <2>3 DEF Granted, CanReserveNew, FidCount
      <4>3. /\ IsFiniteSet(N \cup {f})
            /\ Cardinality(N \cup {f}) \in Nat
            /\ Cardinality(N \cup {f}) <= Cardinality(N) + 1
        BY Zenon, <1>0, OneMore
      <4>4. /\ Cardinality(B') \in Nat /\ Cardinality(B') <= Cardinality(B)
            /\ Cardinality(N') \in Nat
            /\ Cardinality(N') <= Cardinality(N \cup {f})
        BY <1>0, <3>1, <3>2, <4>1, <4>3, SmallerSet
      <4> HIDE DEF B, N
      <4>5. Cardinality(B') + Cardinality(N') <= MaxFids
        BY <1>0, <4>2, <4>3, <4>4
      <4> QED
        BY <4>5 DEF FidLimit, FidCount, B, N
    <3> QED
      BY <3>3, <3>4
  <2> QED
    BY <2>1, <2>2, <2>3, AdmitOutcome
<1>3. CASE FlushStep
  BY Zenon, <1>3, <1>s DEF FlushStep, Flush, BoundFids, NewFids, Bound,
     ReleaseReservations
<1>4. CASE StaleStep
  BY <1>4, <1>s DEF StaleStep, CompleteStale, BoundFids, NewFids, Bound
<1>5. CASE CompleteStep
  <2>1. PICK r \in inflight : \E fd : CompletesAs(r, fd)
    BY <1>5 DEF CompleteStep
  <2>2. PICK fd : CompletesAs(r, fd)
    BY <2>1
  <2>3. /\ exclusive' = ReleaseReservations(exclusive, {r.key})
        /\ fids' = fd
        /\ r \in LiveRequests
    BY <2>2 DEF CompletesAs, Complete, Finishes, LiveRequests
  <2>4. N' \subseteq N
    BY <2>3 DEF NewFids, ReleaseReservations
  <2>5. CASE fd = fids
    BY <1>s, <2>3, <2>4, <2>5 DEF BoundFids, Bound
  <2>6. ASSUME NEW f \in Fid, NEW state \in FidState, Binds(r, fd, f, state)
        PROVE  FidLimit'
    <3>1. B' \subseteq B \cup {f}
      BY Zenon, <2>3, <2>6 DEF Binds, BoundFids, Bound, TypeOK
    <3>2. CASE f \in NewFidsOf(r)
      <4>1. [fid |-> f, request |-> r.key, new_fid |-> TRUE] \in exclusive
        BY Zenon, <2>3, <3>2, ReservedFids DEF ReservationLedger
      <4>2. f \in N
        BY <4>1 DEF NewFids
      <4>3. f \notin N'
        BY Zenon, <2>3, <2>6 DEF Binds, HeldByNoOther, NewFids
      <4>4. /\ IsFiniteSet(N \ {f})
            /\ Cardinality(N \ {f}) = Cardinality(N) - 1
        BY <1>0, <4>2, FS_RemoveElement
      <4>5. /\ IsFiniteSet(B \cup {f})
            /\ Cardinality(B \cup {f}) \in Nat
            /\ Cardinality(B \cup {f}) <= Cardinality(B) + 1
        BY Zenon, <1>0, OneMore
      <4>6. /\ Cardinality(B') \in Nat
            /\ Cardinality(B') <= Cardinality(B \cup {f})
        BY <3>1, <4>5, SmallerSet
      <4>7. /\ Cardinality(N') \in Nat
            /\ Cardinality(N') <= Cardinality(N \ {f})
        BY <2>4, <4>3, <4>4, SmallerSet
      <4> HIDE DEF B, N
      <4>8. Cardinality(B') + Cardinality(N') <= MaxFids
        BY <1>0, <4>4, <4>5, <4>6, <4>7
      <4> QED
        BY <4>8 DEF FidLimit, FidCount, B, N
    <3>3. CASE f = r.fid /\ SourceKind(r)
      <4>1. Bound(f)
        BY <2>3, <3>3 DEF SourceStable, SourceKind
      <4>2. B' \subseteq B
        BY <3>1, <4>1 DEF BoundFids
      <4> QED
        BY <1>s, <2>4, <4>2
    <3> QED
      BY <2>6, <3>2, <3>3 DEF Binds
  <2> QED
    BY <2>2, <2>5, <2>6 DEF CompletesAs
<1>6. CASE UNCHANGED vars
  BY <1>s, <1>6 DEF vars, BoundFids, NewFids, Bound
<1> QED
  BY <1>1, <1>2, <1>3, <1>4, <1>5, <1>6, StepShapes

-----------------------------------------------------------------------------
(* The dialect.                                                            *)

\* Every step preserves PlainDialect: validate_qid_variant guards what a
\* completion binds, and Tversion clears the fid table.
LEMMA NextPlainDialect ==
    ASSUME TypeOK, KeysFresh, ReservationLedger, SourceStable, PlainDialect,
           [Next]_vars
    PROVE  PlainDialect'
<1>1. ASSUME variant' # "9P2000.R", NEW r \in LiveRequests'
      PROVE  r.kind \notin {"renameat", "referrals"}
  <2>1. CASE VersionStep
    BY <2>1 DEF VersionStep, Version, LiveRequests
  <2>2. CASE variant' = variant
    <3>1. CASE r \in LiveRequests
      BY <1>1, <2>2, <3>1 DEF PlainDialect
    <3>2. CASE r \notin LiveRequests
      BY <1>1, <2>2, <3>2, NewlyLive DEF Granted
    <3> QED
      BY <3>1, <3>2
  <2>3. VersionStep \/ variant' = variant
    <3>1. AdmitStep => variant' = variant
      BY DEF AdmitStep, AdmitsAs, Admit
    <3>2. FlushStep \/ StaleStep => variant' = variant
      BY Zenon DEF FlushStep, Flush, StaleStep, CompleteStale
    <3>3. CompleteStep => variant' = variant
      BY DEF CompleteStep, CompletesAs, Complete
    <3>4. UNCHANGED vars => variant' = variant
      BY DEF vars
    <3> QED
      BY <3>1, <3>2, <3>3, <3>4, StepShapes
  <2> QED
    BY <2>1, <2>2, <2>3
<1>2. ASSUME variant' # "9P2000.R", NEW f \in Fid
      PROVE  fids'[f].qid # "symlink"
  <2>0. Unbound.qid # "symlink"
    BY DEF Unbound, FidStateNew
  <2>1. CASE VersionStep
    BY <2>0, <2>1 DEF VersionStep, Version
  <2>2. CASE AdmitStep
    <3>1. PICK tag \in Tag, r \in Request, ok \in BOOLEAN,
               fd \in [Fid -> FidState] : AdmitsAs(tag, r, ok, fd)
      BY <2>2 DEF AdmitStep
    <3>2. fids[f].qid # "symlink"
      BY <1>2, <3>1, AdmitOutcome DEF PlainDialect
    <3>3. fids' = fids \/ fids' = [fids EXCEPT ![r.fid] = Unbound]
      <4>1. (Granted(r, fd) /\ fids' = fd) \/ fids' = fids
        BY <3>1, AdmitOutcome
      <4> QED
        BY Zenon, <4>1 DEF Granted
    <3>4. fids'[f] = fids[f] \/ fids'[f] = Unbound
      BY <3>3 DEF TypeOK
    <3> QED
      BY <2>0, <3>2, <3>4
  <2>3. CASE FlushStep
    BY Zenon, <1>2, <2>3 DEF FlushStep, Flush, PlainDialect
  <2>4. CASE StaleStep
    BY <1>2, <2>4 DEF StaleStep, CompleteStale, PlainDialect
  <2>5. CASE CompleteStep
    <3>1. PICK r \in inflight : \E fd : CompletesAs(r, fd)
      BY <2>5 DEF CompleteStep
    <3>2. PICK fd : CompletesAs(r, fd)
      BY <3>1
    <3>3. fids' = fd /\ variant' = variant /\ r \in LiveRequests
      BY <3>2 DEF CompletesAs, Complete, Finishes, LiveRequests
    <3>4. \A g \in Fid : fids[g].qid # "symlink"
      BY <1>2, <3>3 DEF PlainDialect
    <3>5. CASE fd = fids
      BY <3>3, <3>4, <3>5
    <3>6. ASSUME NEW g \in Fid, NEW state \in FidState, Binds(r, fd, g, state)
          PROVE  fids'[f].qid # "symlink"
      <4>1. r.fid \in Fid
        BY DEF TypeOK, Request
      <4>2. SourceKind(r) => fids[r.fid].qid = r.qid
        BY <3>3 DEF SourceStable, SourceKind
      <4>3. state.qid # "symlink"
        BY Zenon, <1>2, <3>3, <3>4, <3>6, <4>1, <4>2 DEF Binds, QidAllowed
      <4> QED
        BY <3>3, <3>4, <3>6, <4>3 DEF Binds, TypeOK
    <3> QED
      BY <3>2, <3>5, <3>6 DEF CompletesAs
  <2>6. CASE UNCHANGED vars
    BY <1>2, <2>6 DEF vars, PlainDialect
  <2> QED
    BY <2>1, <2>2, <2>3, <2>4, <2>5, <2>6, StepShapes
<1> QED
  BY <1>1, <1>2 DEF PlainDialect

-----------------------------------------------------------------------------
(* The theorems.                                                           *)

\* The inductive invariant.  FidLimit needs the ledger (a completion binds a
\* fid that counted already, as reserved) and SourceStable (or replaces one
\* that was bound); those need the freshness of keys.
SessionInv ==
    /\ TypeOK
    /\ KeysFresh
    /\ ReservationLedger
    /\ ReservationsExclude
    /\ SourceStable
    /\ HeldFidsBound
    /\ FidLimit
    /\ PlainDialect

\* A new session satisfies the inductive invariant.
LEMMA InitInv == Init => SessionInv
<1> SUFFICES ASSUME Init PROVE SessionInv
  OBVIOUS
<1>1. TypeOK
  BY InitTypeOK
<1>2. KeysFresh /\ ReservationLedger /\ ReservationsExclude /\ SourceStable
          /\ HeldFidsBound
  BY Zenon DEF Init, KeysFresh, ReservationLedger, ReservationsExclude,
     SourceStable,
     HeldFidsBound, LiveRequests
<1>3. BoundFids = {} /\ NewFids = {}
  BY DEF Init, BoundFids, NewFids, Bound
<1>4. FidLimit
  BY <1>3, FS_EmptySet DEF FidLimit, FidCount
<1>5. PlainDialect
  BY DEF Init, PlainDialect, LiveRequests, Unbound, FidStateNew
<1> QED
  BY <1>1, <1>2, <1>4, <1>5 DEF SessionInv

\* Every step preserves the inductive invariant.
LEMMA NextInv == SessionInv /\ [Next]_vars => SessionInv'
BY NextTypeOK, NextKeysFresh, NextLedger, NextExclude, NextSourceStable,
   NextHeldFidsBound, NextFidLimit, NextPlainDialect DEF SessionInv

\* The inductive invariant holds throughout.
THEOREM SessionInvariant == Spec => []SessionInv
BY InitInv, NextInv, PTL DEF Spec

\* No reservation is leaked or dropped early: neither an error return of
\* admit_after_begin, a Tflush, a Tversion nor a completion leaves one behind.
THEOREM LedgerHolds == Spec => []ReservationLedger
BY SessionInvariant, PTL DEF SessionInv

\* A fid is never held by two requests of which one may change it.
THEOREM ExclusionHolds == Spec => []ReservationsExclude
BY SessionInvariant, PTL DEF SessionInv

\* Bound and promised fids stay within max_fids.
THEOREM FidLimitHolds == Spec => []FidLimit
BY SessionInvariant, PTL DEF SessionInv

\* The fid a live request started from is still what its admission saw.
THEOREM SourceStaysStable == Spec => []SourceStable
BY SessionInvariant, PTL DEF SessionInv

\* A plain 9P2000 session holds no symlink fid and no extension request.
THEOREM PlainDialectHolds == Spec => []PlainDialect
BY SessionInvariant, PTL DEF SessionInv

\* The inductive invariant implies CompletionApplies.
LEMMA InvCompletionApplies == SessionInv => CompletionApplies
<1> SUFFICES ASSUME SessionInv, NEW r \in LiveRequests, NEW e \in Exclusives(r)
             PROVE  /\ \A d \in ReleaseReservations(exclusive, {r.key}) :
                           d.fid # e.fid
                    /\ \A s \in shared : s.fid # e.fid
                    /\ e.new_fid => ~Bound(e.fid) /\ Cardinality(BoundFids) < MaxFids
                    /\ ~e.new_fid => (Bound(e.fid) \/ r.kind \in {"clunk", "remove"})
  BY DEF CompletionApplies
<1>1. r \in Request /\ e \in exclusive /\ e.request = r.key /\ e.fid \in Fid
  <2>1. r \in Request
    BY DEF SessionInv, TypeOK, LiveRequests
  <2>2. e \in exclusive
    BY DEF SessionInv, ReservationLedger
  <2> QED
    BY <2>1, <2>2, ReservationsType DEF SessionInv, TypeOK, Reservation
<1>2. \A d \in ReleaseReservations(exclusive, {r.key}) : d.fid # e.fid
  BY <1>1 DEF SessionInv, ReservationsExclude, ReleaseReservations
<1>3. \A s \in shared : s.fid # e.fid
  BY <1>1 DEF SessionInv, ReservationsExclude
<1>4. ASSUME e.new_fid
      PROVE  ~Bound(e.fid) /\ Cardinality(BoundFids) < MaxFids
  <2>1. ~Bound(e.fid)
    BY <1>1, <1>4 DEF SessionInv, ReservationsExclude
  <2>2. e.fid \in NewFids
    BY <1>1, <1>4 DEF NewFids
  <2>3. Cardinality(NewFids) # 0
    BY <2>2, FidSetsFinite, FS_EmptySet
  <2>4. Cardinality(BoundFids) + Cardinality(NewFids) <= MaxFids
    BY DEF SessionInv, FidLimit, FidCount
  <2> QED
    BY <2>1, <2>3, <2>4, FidSetsFinite
<1>5. ASSUME ~e.new_fid
      PROVE  Bound(e.fid) \/ r.kind \in {"clunk", "remove"}
  <2>1. e.fid \in HeldFidsOf(r)
    BY Zenon, <1>5, ReservedFids
  <2> QED
    BY <2>1 DEF SessionInv, HeldFidsBound
<1> QED
  BY <1>2, <1>3, <1>4, <1>5

\* apply_completion never fails for a reason of the session's own.
THEOREM CompletionsApply == Spec => []CompletionApplies
BY SessionInvariant, InvCompletionApplies, PTL

\* No step changes a fid that a request goes on holding.
THEOREM ReservedFidsStayFrozen == Spec => ReservedFidsFrozen
<1>1. SessionInv /\ [Next]_vars => FrozenStep
  BY NextFrozen DEF SessionInv
<1> QED
  BY <1>1, SessionInvariant, PTL DEF Spec, ReservedFidsFrozen, FrozenStep

=============================================================================
