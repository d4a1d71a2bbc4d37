------------------------------ MODULE PatchBody ------------------------------
(***************************************************************************)
(* PATCH with the body it reads: the handler of patch.rs over the memory   *)
(* store, fed by one of the adapters of BodyStream, under an exclusive     *)
(* locker or under none.  TusHandler takes the body in one step; here the  *)
(* connection, the payload task, the lock, the checksum and the write of   *)
(* several requests interleave.  All clients send pieces of one file, and  *)
(* a byte is its place in that file.                                       *)
(***************************************************************************)
EXTENDS BodyStream, MemoryStore

CONSTANTS
  Sizes,    (* lengths an upload is created with, or NoLen *)
  Lengths,  (* lengths a client declares later             *)
  MaxSize,  (* config.max_size; 0 is no limit              *)
  Unlocked, (* bound: adapters tried without a locker too  *)
  Checked,  (* bound: requests that may carry a checksum   *)
  NoReq,    (* no request                                  *)
  NoId,     (* no upload                                   *)
  NoSum     (* a request without Upload-Checksum           *)

ASSUME PatchAssumption ==
  /\ \A s \in Bodies : (s.lo + 1)..s.hi \subseteq Bytes
  /\ Sizes \subseteq Nat \union {NoLen} /\ Lengths \subseteq Nat
  /\ MaxSize \in Nat
  /\ NoReq \notin Reqs /\ NoId \notin Ids
  /\ NoSum \notin Seq(Bytes) /\ NoUpload \notin Uploads

VARIABLES
  locking,  (* the handler has a locker                                     *)
  owner,    (* owner[id]: the request that holds the lock of id, or NoReq   *)
  pc,       (* where the request is in handle()                             *)
  job       (* its locals                                                   *)

vars == <<streamVars, store, locking, owner, pc, job>>

(* The upload, Upload-Offset, the bytes that the digest in Upload-Checksum *)
(* was made of, and the bytes that went through the hasher.  A digest      *)
(* stands for its bytes: no two bodies have the same.                      *)
Blank == [id |-> NoId, at |-> 0, sum |-> NoSum, hashed |-> <<>>]

Init ==
  /\ StreamInit
  /\ \E size \in Sizes :
       store = [id \in Ids |-> NewUpload(size, size = NoLen, "plain", <<>>)]
  /\ locking \in BOOLEAN /\ (locking \/ adapter \in Unlocked)
  /\ owner = [id \in Ids |-> NoReq]
  /\ pc = [r \in Reqs |-> "idle"]
  /\ job = [r \in Reqs |-> Blank]

Id(r) == job[r].id
Current(r) == store[Id(r)]
Goto(r, l) == pc' = [pc EXCEPT ![r] = l]

(* The handler returns, or its future is dropped: the guard releases the   *)
(* lock, and the reader goes with the request.                             *)
End(r) ==
  /\ Goto(r, "idle")
  /\ job' = [job EXCEPT ![r] = Blank]
  /\ owner' = [id \in Ids |-> IF owner[id] = r THEN NoReq ELSE owner[id]]
  /\ SetBody(r, Dropped(body[r]))
  /\ UNCHANGED <<store, locking>>

-----------------------------------------------------------------------------
(* The digest of the client: of the body it sends, or of something else,   *)
(* when the body or the header was damaged on the way.                     *)
Sums(r, s) == {NoSum} \union IF r \in Checked THEN {BytesOf(s), <<Zero>>} ELSE {}

(* Rocket collects the body before it calls the handler.                   *)
Arrive(r, id, s, sum) ==
  /\ pc[r] = "idle"
  /\ Open(r, s)
  /\ Goto(r, IF adapter = "rocket" THEN "collect" ELSE "lock")
  /\ job' = [job EXCEPT ![r] = [Blank EXCEPT !.id = id, !.at = s.lo, !.sum = sum]]
  /\ UNCHANGED <<store, locking, owner>>

Gather(r) ==
  /\ pc[r] = "collect"
  /\ Collect(r)
  /\ Goto(r, IF body'[r].reader = "ready" THEN "lock" ELSE "collect")
  /\ UNCHANGED <<store, locking, owner, job>>

Lock(r) ==
  /\ pc[r] = "lock"
  /\ locking => owner[Id(r)] = NoReq
  /\ owner' = IF locking THEN [owner EXCEPT ![Id(r)] = r] ELSE owner
  /\ Goto(r, "load")
  /\ UNCHANGED <<streamVars, store, locking, job>>

(* lock_timeout has passed: 408. *)
LockTimeout(r) ==
  /\ pc[r] = "lock" /\ locking /\ owner[Id(r)] # NoReq
  /\ End(r)

(* Mutated form: the offset of the client is not compared. *)
LoadAnyOffset(r) ==
  /\ pc[r] = "load" /\ Exists(Id(r))
  /\ \/ Goto(r, "read")
     \/ Current(r).deferred /\ Current(r).size = NoLen /\ Goto(r, "declare")
  /\ UNCHANGED <<streamVars, store, locking, owner, job>>

(* get_info and the offset; a deferred upload may get its length now.      *)
Load(r) ==
  /\ pc[r] = "load" /\ Exists(Id(r))
  /\ Current(r).offset = job[r].at
  /\ \/ Goto(r, "read")
     \/ Current(r).deferred /\ Current(r).size = NoLen /\ Goto(r, "declare")
  /\ UNCHANGED <<streamVars, store, locking, owner, job>>

TooLarge(n) == MaxSize > 0 /\ n > MaxSize

Declare(r, n) ==
  /\ pc[r] = "declare" /\ ~TooLarge(n)
  /\ DeclareLength(Id(r), n)
  /\ Goto(r, "read")
  /\ UNCHANGED <<streamVars, locking, owner, job>>

(* read_to_end asks the reader, and the reader its source.                 *)
Fetch(r) ==
  /\ pc[r] = "read"
  /\ Fill(r)
  /\ UNCHANGED <<store, locking, owner, pc, job>>

(* ChecksumReader::poll_read hashes what the inner reader has just added.  *)
ReadBody(r, n) ==
  /\ pc[r] = "read"
  /\ Read(r, n)
  /\ job' = [job EXCEPT ![r].hashed =
               @ \o BytesOf(Span(body[r].cur.lo, body[r].cur.lo + n))]
  /\ UNCHANGED <<store, locking, owner, pc>>

Verified(r) == job[r].sum \in {NoSum, job[r].hashed}

(* Mutated form: the body is written before it is verified. *)
WriteUnverified(r) ==
  /\ pc[r] = "read" /\ body[r].reader = "eof"
  /\ WriteChunk(Id(r), job[r].at, body[r].got)
  /\ SetBody(r, Dropped(body[r]))
  /\ Goto(r, "info")
  /\ UNCHANGED <<locking, owner, job>>

(* The body has ended and passed verify(): write_chunk, with the offset    *)
(* the client gave.  The reader is dropped.                                *)
Write(r) ==
  /\ pc[r] = "read" /\ body[r].reader = "eof" /\ Verified(r)
  /\ WriteChunk(Id(r), job[r].at, body[r].got)
  /\ SetBody(r, Dropped(body[r]))
  /\ Goto(r, "info")
  /\ UNCHANGED <<locking, owner, job>>

(* get_info again, events, 204; finalize has nothing to do in this store.  *)
Answer(r) ==
  /\ pc[r] = "info"
  /\ End(r)

(* 460, before anything is written. *)
Mismatch(r) ==
  /\ pc[r] = "read" /\ body[r].reader = "eof" /\ ~Verified(r)
  /\ End(r)

(* OffsetMismatch, EntityTooLarge, UploadLengthAlreadySet, a body that     *)
(* broke off, ExceedsUploadLength.                                         *)
Refuse(r) ==
  /\ \/ pc[r] = "load" /\ Current(r).offset # job[r].at
     \/ pc[r] = "declare" /\ Current(r).size # NoLen
     \/ pc[r] = "declare" /\ \E n \in Lengths : TooLarge(n)
     \/ pc[r] \in {"collect", "read"} /\ body[r].reader = "failed"
     \/ pc[r] = "read" /\ body[r].reader = "eof" /\ Verified(r)
          /\ Exceeds(Current(r), job[r].at, body[r].got)
  /\ End(r)

(* The server drops the handler's future, as when the client went away.    *)
Cancel(r) == pc[r] # "idle" /\ End(r)

(* The connection and the payload task live beside the handler.            *)
Beside(r) ==
  /\ Break(r) \/ Task(r)
  /\ UNCHANGED <<store, locking, owner, pc, job>>

Handle(r) ==
  \/ Gather(r) \/ Lock(r) \/ LockTimeout(r) \/ Load(r)
  \/ \E n \in Lengths : Declare(r, n)
  \/ Fetch(r) \/ \E n \in 1..(body[r].cur.hi - body[r].cur.lo) : ReadBody(r, n)
  \/ Write(r) \/ Answer(r) \/ Mismatch(r) \/ Refuse(r)

Next ==
  \E r \in Reqs :
    \/ \E id \in Ids, s \in Bodies : \E sum \in Sums(r, s) : Arrive(r, id, s, sum)
    \/ Handle(r) \/ Cancel(r) \/ Beside(r)

Spec == Init /\ [][Next]_vars

(* The runtime polls a handler and a payload task that can go on, and a    *)
(* wait for the lock ends by lock_timeout.  That a poll of the connection  *)
(* yields at last is an assumption about the client, not about the code:   *)
(* it sends on or goes away.                                               *)
Fairness ==
  \A r \in Reqs :
    /\ WF_vars(Handle(r))
    /\ WF_vars(Task(r) /\ UNCHANGED <<store, locking, owner, pc, job>>)

FairSpec == Spec /\ Fairness

-----------------------------------------------------------------------------
PCs == {"idle", "collect", "lock", "load", "declare", "read", "info"}

JobType ==
  [id : Ids \union {NoId}, at : Nat, sum : Seq(Bytes) \union {NoSum}, hashed : Seq(Nat)]

(* The channel of the Actix adapter never holds more than its capacity,    *)
(* whatever the handler waits for.                                         *)
TypeOK ==
  /\ store \in [Ids -> Uploads]
  /\ locking \in BOOLEAN
  /\ owner \in [Ids -> Reqs \union {NoReq}]
  /\ pc \in [Reqs -> PCs]
  /\ job \in [Reqs -> JobType]
  /\ \A r \in Reqs : /\ pc[r] = "idle" => job[r] = Blank
                     /\ pc[r] # "idle" => Id(r) \in Ids
                     /\ Len(body[r].queue) <= Capacity

(* patch.rs 111-124, checksum.rs 89-116: bytes are written only when the   *)
(* body came through to its end, and all of them, or what Rocket's limit   *)
(* left of them; with a checksum, only when it is the checksum of just     *)
(* these.  And no request is refused for a checksum that is right, however *)
(* its body was cut up on the way.                                         *)
WholeBodyOrNothing ==
  [][\A r \in Reqs :
       LET ask == body[r].ask
           through == BytesOf(Span(ask.lo, ask.lo + Reach(body[r])))
       IN /\ Write(r) => body[r].got = through /\ job[r].sum \in {NoSum, through}
          /\ Mismatch(r) => job[r].sum # through]_vars

(* memory store.rs 86-119: the store trusts the offset it is given.  Even  *)
(* with no locker, when requests that read the same offset write over each *)
(* other and the offset goes back, the bytes it holds are the first bytes  *)
(* of the file, with no gap below the offset; under a locker the offset is *)
(* their number.                                                           *)
StoredIsFile ==
  \A id \in Ids :
    /\ store[id].data = BytesOf(Span(0, Len(store[id].data)))
    /\ store[id].offset <= Len(store[id].data)
    /\ locking => store[id].offset = Len(store[id].data)

(* A request is answered, or dropped, and nothing of it is left: neither a *)
(* wait for the lock while the channel is full, nor a channel that nobody  *)
(* reads any more, holds up the payload task for ever (scope.rs 78-93).    *)
Ends == \A r \in Reqs : pc[r] # "idle" ~> pc[r] = "idle" /\ body[r] = NoBody

=============================================================================
