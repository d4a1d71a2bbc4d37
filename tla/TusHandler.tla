----------------------------- MODULE TusHandler -----------------------------
(***************************************************************************)
(* fileloft-core/src/handler: POST, PATCH, HEAD, GET and DELETE over a     *)
(* MemoryStore and an exclusive locker.  Each request is one async task;   *)
(* an action is the code between two awaits that touch shared state, pc    *)
(* names the await it stands at.  What the client sends is chosen at the   *)
(* step that first reads it.  The lock is free or one request's; who gets  *)
(* it, and when, is what MemoryLocker models.                              *)
(***************************************************************************)
EXTENDS MemoryStore

CONSTANTS
  Reqs,        (* request slots; a slot's bytes are the slot itself        *)
  NoReq,       (* nobody holds the lock                                    *)
  NoId,        (* the request is for no upload yet                         *)
  MaxLen,      (* bound: the longest body and the largest offset or length *)
  MaxSize,     (* Config.max_size, 0 for none                              *)
  Locking,     (* TRUE: an exclusive locker; FALSE: NoLocker               *)
  Enabled,     (* the extensions and Config switches that are on           *)
  ChosenIds,   (* IDs a pre_create hook may put in place of the new UUID   *)
  Listening,   (* whether a subscriber uses an ID before the 201 is sent   *)
  Sizes,       (* Upload-Length values of POST; NoLen is no header         *)
  FinalLists   (* lists of partials in Upload-Concat: final                *)

Options ==
  {"creation-with-upload", "creation-defer-length", "termination",
   "concatenation", "cleanup-concat-partials", "expiration", "download", "hooks"}

ASSUME HandlerAssumption ==
  /\ NoReq \notin Reqs /\ NoId \notin Ids
  /\ NoUpload \notin Uploads \union Seq(Bytes)
  /\ Reqs \subseteq Bytes
  /\ MaxLen \in Nat /\ MaxSize \in Nat
  /\ Locking \in BOOLEAN /\ Listening \in BOOLEAN
  /\ Enabled \subseteq Options
  /\ ChosenIds \subseteq Ids
  /\ Sizes \subseteq 0..MaxLen \union {NoLen}
  /\ FinalLists \subseteq Seq(Ids)

VARIABLES
  owner,      (* owner[id]: the request that holds the lock of id, or NoReq *)
  pc,         (* pc[r]: where the handler of r stands                       *)
  job,        (* job[r]: its local variables                                *)
  expired,    (* uploads whose expires_at has passed                        *)
  used,       (* IDs ever given to an upload: a UUID is not drawn twice     *)
  known,      (* IDs that left the server, in a 201 or an event             *)
  reported,   (* reported[id]: the largest Upload-Offset a client was told  *)
  lastEvent   (* lastEvent[id]: the last event about id on the channel      *)

observed == <<known, reported, lastEvent>>
vars == <<store, owner, pc, job, expired, used, known, reported, lastEvent>>

Lengths == 0..MaxLen
Chunk(r, n) == [i \in 1..n |-> r]
On(option) == option \in Enabled

LockPCs == {"patch_lock", "get_lock", "delete_lock"}
PatchPCs == {"patch_load", "patch_declare", "patch_write", "patch_info", "patch_emit"}
GetPCs == {"get_load", "get_read"}
DeletePCs == {"delete_hook", "delete_remove", "delete_emit"}
PostPCs ==
  {"post_create", "post_fetch", "post_collect", "post_concat", "post_body",
   "post_info", "post_look", "post_remove", "post_emit", "post_reread", "post_announce"}
FinishPCs == {"finish", "finalize"}
PCs ==
  {"idle"} \union LockPCs \union PatchPCs \union GetPCs \union DeletePCs
    \union PostPCs \union FinishPCs

Events == {"none", "created", "progress", "finished", "terminated"}

(* No request: the ID, the info last read, the partial at hand, the bytes  *)
(* read from the partials and the bytes written by the POST.               *)
Blank == [id |-> NoId, seen |-> NoUpload, k |-> 1, buf |-> <<>>, wrote |-> 0]

Init ==
  /\ StoreInit
  /\ owner = [id \in Ids |-> NoReq]
  /\ pc = [r \in Reqs |-> "idle"]
  /\ job = [r \in Reqs |-> Blank]
  /\ expired = {} /\ used = {} /\ known = {}
  /\ reported = [id \in Ids |-> 0]
  /\ lastEvent = [id \in Ids |-> "none"]

Id(r) == job[r].id
Current(r) == store[Id(r)]
Goto(r, l) == pc' = [pc EXCEPT ![r] = l]

(* Mutated form: a lock stays with the request that ended. *)
EndKeepsLock(r) ==
  /\ Goto(r, "idle")
  /\ job' = [job EXCEPT ![r] = Blank]
  /\ UNCHANGED owner

(* The handler returns or its future is dropped, and the lock it holds     *)
(* with it: no handler calls release, and the lockers of this repository   *)
(* give a lock up when it is dropped, which lock.rs:3-4 denies.            *)
End(r) ==
  /\ Goto(r, "idle")
  /\ job' = [job EXCEPT ![r] = Blank]
  /\ owner' = [id \in Ids |-> IF owner[id] = r THEN NoReq ELSE owner[id]]

Fail(r) == End(r) /\ UNCHANGED <<store, expired, used, observed>>

Emit(id, event) == lastEvent' = [lastEvent EXCEPT ![id] = event]
Report(id, n) == reported' = [reported EXCEPT ![id] = IF @ < n THEN n ELSE @]
See(r, u) == job' = [job EXCEPT ![r].seen = u]
TooLarge(n) == MaxSize > 0 /\ n > MaxSize

-----------------------------------------------------------------------------
(* Arriving, the lock, leaving *)

AfterLock(l) ==
  CASE l = "patch_lock" -> "patch_load"
    [] l = "get_lock" -> "get_load"
    [] l = "delete_lock" -> "delete_remove"

Lock(r) ==
  /\ pc[r] \in LockPCs
  /\ Locking => owner[Id(r)] = NoReq
  /\ owner' = IF Locking THEN [owner EXCEPT ![Id(r)] = r] ELSE owner
  /\ Goto(r, AfterLock(pc[r]))
  /\ UNCHANGED <<store, job, expired, used, observed>>

(* Mutated form: a wait ends only when the lock is free. *)
LockTimeoutWhenFree(r) ==
  /\ Locking /\ pc[r] \in LockPCs /\ owner[Id(r)] = NoReq
  /\ Fail(r)

(* lock_timeout passes: the request is answered 408. *)
LockTimeout(r) ==
  /\ Locking /\ pc[r] \in LockPCs
  /\ Fail(r)

(* The connection breaks, and the server drops the handler's future. *)
Cancel(r) ==
  /\ pc[r] # "idle"
  /\ Fail(r)

(* A request for an upload that a client or a subscriber was told of, or   *)
(* that the application itself named.                                      *)
Arrive(r, id, l) ==
  /\ pc[r] = "idle"
  /\ id \in known \union ChosenIds
  /\ Goto(r, l)
  /\ job' = [job EXCEPT ![r].id = id]
  /\ UNCHANGED <<store, owner, expired, used, observed>>

(* Time passes an upload's expires_at. *)
Expire(id) ==
  /\ On("expiration") /\ Exists(id) /\ id \notin expired
  /\ expired' = expired \union {id}
  /\ UNCHANGED <<store, owner, pc, job, used, observed>>

-----------------------------------------------------------------------------
(* PATCH *)

(* Mutated form: no lock. *)
PatchArriveUnlocked(r, id) == Arrive(r, id, "patch_load")

PatchArrive(r, id) == Arrive(r, id, "patch_lock")

(* get_upload, get_info and the checks on what the client sent: not final, *)
(* the offset, expiry; a length for a deferred upload is declared first.   *)
PatchAcceptsAnyOffset(r, at) ==   (* mutated: no OffsetMismatch *)
  /\ Current(r).kind # "final"
  /\ Id(r) \notin expired

PatchAccepts(r, at) ==
  /\ Current(r).kind # "final"
  /\ Current(r).offset = at
  /\ Id(r) \notin expired

PatchLoad(r, at) ==
  /\ pc[r] = "patch_load"
  /\ Exists(Id(r)) /\ PatchAccepts(r, at)
  /\ See(r, [Current(r) EXCEPT !.offset = at])   (* client_offset = at *)
  /\ \/ Goto(r, "patch_write")
     \/ Current(r).deferred /\ Current(r).size = NoLen /\ Goto(r, "patch_declare")
  /\ UNCHANGED <<store, owner, expired, used, observed>>

(* The Upload-Length of a deferred upload is stored at once. *)
PatchDeclare(r, n) ==
  /\ pc[r] = "patch_declare"
  /\ ~TooLarge(n)
  /\ DeclareLength(Id(r), n)
  /\ Goto(r, "patch_write")
  /\ UNCHANGED <<owner, job, expired, used, observed>>

(* A checksum header that is malformed or not enabled, bytes that do not   *)
(* match it, or a body that breaks off.                                    *)
PatchBadBody(r) ==
  /\ pc[r] = "patch_write"
  /\ Fail(r)

(* The body is received (and verified, when it has a checksum), then given *)
(* to write_chunk with the client's offset.                                *)
PatchWrite(r, n) ==
  /\ pc[r] = "patch_write"
  /\ WriteChunk(Id(r), job[r].seen.offset, Chunk(r, n))
  /\ Goto(r, "patch_info")
  /\ UNCHANGED <<owner, job, expired, used, observed>>

PatchInfo(r) ==
  /\ pc[r] = "patch_info"
  /\ Exists(Id(r))
  /\ See(r, Current(r))
  /\ Goto(r, "patch_emit")
  /\ UNCHANGED <<store, owner, expired, used, observed>>

(* UploadProgress, and 204 unless the upload is now complete. *)
PatchEmit(r) ==
  /\ pc[r] = "patch_emit"
  /\ Emit(Id(r), "progress")
  /\ IF IsComplete(job[r].seen)
     THEN Goto(r, "finish") /\ UNCHANGED <<owner, job, reported>>
     ELSE End(r) /\ Report(Id(r), job[r].seen.offset)
  /\ UNCHANGED <<store, expired, used, known>>

-----------------------------------------------------------------------------
(* Completion, the same code in PATCH and POST *)

(* pre_finish accepts. *)
Finish(r) ==
  /\ pc[r] = "finish"
  /\ Goto(r, "finalize")
  /\ UNCHANGED <<store, owner, job, expired, used, observed>>

(* finalize (nothing to do in memory), UploadFinished, 204 or 201. *)
Finalize(r) ==
  /\ pc[r] = "finalize"
  /\ Emit(Id(r), "finished")
  /\ known' = known \union {Id(r)}
  /\ Report(Id(r), job[r].seen.offset)
  /\ End(r)
  /\ UNCHANGED <<store, expired, used>>

-----------------------------------------------------------------------------
(* POST.  It never takes a lock. *)

PostArrive(r, size, defer, kind, list) ==
  /\ pc[r] = "idle"
  /\ size = NoLen => defer \/ kind = "final"
  /\ defer => On("creation-defer-length")
  /\ kind = "final" =>
       On("concatenation") /\ list # <<>> /\ ToSet(list) \subseteq known \union ChosenIds
  /\ size # NoLen => ~TooLarge(size)
  /\ See(r, NewUpload(size, defer, kind, IF kind = "final" THEN list ELSE <<>>))
  /\ Goto(r, "post_create")
  /\ UNCHANGED <<store, owner, expired, used, observed>>

(* pre_create accepts, or names another ID; create_upload. *)
PostCreate(r, id) ==
  /\ pc[r] = "post_create"
  /\ id \notin used \/ (On("hooks") /\ id \in ChosenIds)
  /\ CreateUpload(id, job[r].seen)
  /\ job' = [job EXCEPT ![r].id = id]
  /\ Goto(r, IF job[r].seen.kind = "final" THEN "post_fetch" ELSE "post_body")
  /\ used' = used \union {id}
  /\ expired' = expired \ {id}
  /\ reported' = [reported EXCEPT ![id] = 0]
  /\ UNCHANGED <<owner, known, lastEvent>>

Partials(r) == job[r].seen.partials
Partial(r) == Partials(r)[job[r].k]

(* Mutated form: PartialUploadIncomplete is not checked. *)
UsableIncomplete(id) == Exists(id) /\ store[id].kind = "partial"

(* fetch_partial_infos, one get_upload and get_info per partial. *)
Usable(id) == Exists(id) /\ store[id].kind = "partial" /\ IsComplete(store[id])

(* The loop over the partials goes on, or is done and the handler at l. *)
NextPartial(r, again, l) ==
  IF job[r].k < Len(Partials(r))
  THEN job' = [job EXCEPT ![r].k = @ + 1] /\ Goto(r, again)
  ELSE job' = [job EXCEPT ![r].k = 1] /\ Goto(r, l)

PostFetch(r) ==
  /\ pc[r] = "post_fetch"
  /\ Usable(Partial(r))
  /\ NextPartial(r, "post_fetch", "post_collect")
  /\ UNCHANGED <<store, owner, expired, used, observed>>

(* Mutated form: the partials are read last to first. *)
PostCollectReversed(r) ==
  /\ pc[r] = "post_collect"
  /\ \A id \in ToSet(Partials(r)) : Exists(id)
  /\ job' = [job EXCEPT ![r].buf =
                FlattenSeq([i \in DOMAIN Partials(r) |-> store[Reverse(Partials(r))[i]].data])]
  /\ Goto(r, "post_concat")
  /\ UNCHANGED <<store, owner, expired, used, observed>>

(* concatenate, first half: read the bytes of every partial, in order. *)
PostCollect(r) ==
  /\ pc[r] = "post_collect"
  /\ \A id \in ToSet(Partials(r)) : Exists(id)
  /\ job' = [job EXCEPT ![r].buf =
                FlattenSeq([i \in DOMAIN Partials(r) |-> store[Partials(r)[i]].data])]
  /\ Goto(r, "post_concat")
  /\ UNCHANGED <<store, owner, expired, used, observed>>

PostConcat(r) ==
  /\ pc[r] = "post_concat"
  /\ StoreCombined(Id(r), job[r].buf)
  /\ Goto(r, "post_body")
  /\ UNCHANGED <<owner, job, expired, used, observed>>

(* Without creation-with-upload, or without an octet-stream body. *)
PostNoBody(r) ==
  /\ pc[r] = "post_body"
  /\ Goto(r, "post_info")
  /\ UNCHANGED <<store, owner, job, expired, used, observed>>

PostBody(r, n) ==
  /\ pc[r] = "post_body" /\ On("creation-with-upload")
  /\ WriteChunk(Id(r), 0, Chunk(r, n))
  /\ job' = [job EXCEPT ![r].wrote = n]
  /\ Goto(r, "post_info")
  /\ UNCHANGED <<owner, expired, used, observed>>

WroteTooMuch(r) == Current(r).size # NoLen /\ job[r].wrote > Current(r).size

PostInfo(r) ==
  /\ pc[r] = "post_info"
  /\ Exists(Id(r)) /\ ~WroteTooMuch(r)
  /\ See(r, Current(r))
  /\ Goto(r, IF job[r].seen.kind = "final" /\ On("cleanup-concat-partials")
             THEN "post_look" ELSE "post_announce")
  /\ UNCHANGED <<store, owner, expired, used, observed>>

(* Cleanup of the partials, without their locks: get_upload, pre_terminate *)
(* and, as a later step, delete.                                           *)
PostLook(r) ==
  /\ pc[r] = "post_look"
  /\ Exists(Partial(r))
  /\ Goto(r, "post_remove")
  /\ UNCHANGED <<store, owner, job, expired, used, observed>>

PostRemove(r) ==
  /\ pc[r] = "post_remove"
  /\ Delete(Partial(r))
  /\ expired' = expired \ {Partial(r)}
  /\ Goto(r, "post_emit")
  /\ UNCHANGED <<owner, job, used, observed>>

PostEmit(r) ==
  /\ pc[r] = "post_emit"
  /\ Emit(Partial(r), "terminated")
  /\ NextPartial(r, "post_look", "post_reread")
  /\ UNCHANGED <<store, owner, expired, used, known, reported>>

PostReread(r) ==
  /\ pc[r] = "post_reread"
  /\ Exists(Id(r))
  /\ See(r, Current(r))
  /\ Goto(r, "post_announce")
  /\ UNCHANGED <<store, owner, expired, used, observed>>

(* UploadCreated, and 201 unless the upload is already complete. *)
PostAnnounce(r) ==
  /\ pc[r] = "post_announce"
  /\ Emit(Id(r), "created")
  /\ IF IsComplete(job[r].seen)
     THEN /\ Goto(r, "finish")
          /\ known' = IF Listening THEN known \union {Id(r)} ELSE known
          /\ UNCHANGED <<owner, job, reported>>
     ELSE /\ End(r)
          /\ known' = known \union {Id(r)}
          /\ Report(Id(r), job[r].seen.offset)
  /\ UNCHANGED <<store, expired, used>>

-----------------------------------------------------------------------------
(* HEAD, GET and DELETE *)

(* HEAD takes no lock and answers from one read. *)
HeadRequest(r, id) ==
  /\ pc[r] = "idle" /\ id \in known \union ChosenIds
  /\ Exists(id) /\ id \notin expired
  /\ Report(id, store[id].offset)
  /\ UNCHANGED <<store, owner, pc, job, expired, used, known, lastEvent>>

GetArrive(r, id) == On("download") /\ Arrive(r, id, "get_lock")

GetLoad(r) ==
  /\ pc[r] = "get_load"
  /\ Exists(Id(r)) /\ Id(r) \notin expired /\ IsComplete(Current(r))
  /\ See(r, Current(r))
  /\ Goto(r, "get_read")
  /\ UNCHANGED <<store, owner, expired, used, observed>>

(* read_content, which checks again; 200 with Content-Length from the info *)
(* read before and a copy of the bytes.  Neither answer changes anything.  *)
GetRead(r) ==
  /\ pc[r] = "get_read"
  /\ Exists(Id(r)) /\ IsComplete(Current(r))
  /\ Fail(r)

(* Mutated form: the upload is deleted without its lock. *)
DeleteArriveUnlocked(r, id) == On("termination") /\ Arrive(r, id, "delete_remove")

(* pre_terminate is asked before the lock is taken. *)
DeleteArrive(r, id) ==
  /\ On("termination")
  /\ Arrive(r, id, IF On("hooks") THEN "delete_hook" ELSE "delete_lock")

DeleteApproved(r) ==
  /\ pc[r] = "delete_hook"
  /\ Exists(Id(r))
  /\ Goto(r, "delete_lock")
  /\ UNCHANGED <<store, owner, job, expired, used, observed>>

DeleteRemove(r) ==
  /\ pc[r] = "delete_remove"
  /\ Delete(Id(r))
  /\ expired' = expired \ {Id(r)}
  /\ Goto(r, "delete_emit")
  /\ UNCHANGED <<owner, job, used, observed>>

DeleteEmit(r) ==
  /\ pc[r] = "delete_emit"
  /\ Emit(Id(r), "terminated")
  /\ End(r)
  /\ UNCHANGED <<store, expired, used, known, reported>>

-----------------------------------------------------------------------------
(* Errors: the handler answers with an error status; what earlier steps    *)
(* stored stays.                                                           *)

(* A store call finds that the upload is gone. *)
NotFound(r) ==
  \/ /\ pc[r] \in {"patch_load", "patch_declare", "patch_write", "patch_info",
                   "get_load", "get_read", "delete_hook", "delete_remove",
                   "post_concat", "post_body", "post_info", "post_reread"}
     /\ ~Exists(Id(r))
  \/ pc[r] \in {"post_look", "post_remove"} /\ ~Exists(Partial(r))
  \/ pc[r] = "post_collect" /\ \E id \in ToSet(Partials(r)) : ~Exists(id)

(* A pre_create, pre_finish or pre_terminate callback answers Err. *)
Vetoed(r) ==
  On("hooks") /\ pc[r] \in {"post_create", "post_look", "delete_hook", "finish"}

(* A check on the upload, or on the number n the client sent, fails. *)
Refused(r, n) ==
  \/ pc[r] = "post_fetch" /\ ~Usable(Partial(r))
  \/ pc[r] = "patch_declare" /\ TooLarge(n)
  \/ /\ Id(r) # NoId /\ Exists(Id(r))
     /\ \/ pc[r] = "patch_load" /\ ~PatchAccepts(r, n)
        \/ pc[r] = "patch_declare" /\ Current(r).size # NoLen
        \/ pc[r] = "patch_write" /\ Exceeds(Current(r), job[r].seen.offset, Chunk(r, n))
        \/ pc[r] = "post_body" /\ On("creation-with-upload")
             /\ Exceeds(Current(r), 0, Chunk(r, n))
        \/ pc[r] = "post_info" /\ WroteTooMuch(r)
        \/ pc[r] = "get_load" /\ (Id(r) \in expired \/ ~IsComplete(Current(r)))
        \/ pc[r] = "get_read" /\ ~IsComplete(Current(r))

Refuse(r) ==
  /\ NotFound(r) \/ Vetoed(r) \/ \E n \in Lengths : Refused(r, n)
  /\ Fail(r)

-----------------------------------------------------------------------------
Post(r) ==
  \/ \E size \in Sizes, defer \in BOOLEAN, kind \in Kinds,
        list \in FinalLists : PostArrive(r, size, defer, kind, list)
  \/ \E id \in Ids : PostCreate(r, id)
  \/ PostFetch(r) \/ PostCollect(r) \/ PostConcat(r) \/ PostNoBody(r)
  \/ \E n \in Lengths : PostBody(r, n)
  \/ PostInfo(r) \/ PostLook(r) \/ PostRemove(r) \/ PostEmit(r)
  \/ PostReread(r) \/ PostAnnounce(r)

Patch(r) ==
  \/ \E id \in Ids : PatchArrive(r, id)
  \/ PatchBadBody(r)
  \/ \E n \in Lengths :
       PatchLoad(r, n) \/ PatchDeclare(r, n) \/ PatchWrite(r, n)
  \/ PatchInfo(r) \/ PatchEmit(r)

Get(r) ==
  \/ \E id \in Ids : GetArrive(r, id)
  \/ GetLoad(r) \/ GetRead(r)

DeleteReq(r) ==
  \/ \E id \in Ids : DeleteArrive(r, id)
  \/ DeleteApproved(r) \/ DeleteRemove(r) \/ DeleteEmit(r)

Shared(r) ==
  \/ Lock(r) \/ LockTimeout(r) \/ Cancel(r) \/ Refuse(r)
  \/ Finish(r) \/ Finalize(r)

Next ==
  \/ \E r \in Reqs : Post(r) \/ Patch(r) \/ Get(r) \/ DeleteReq(r) \/ Shared(r)
                     \/ \E id \in Ids : HeadRequest(r, id)
  \/ \E id \in Ids : Expire(id)

Spec == Init /\ [][Next]_vars

(* A task that is not waiting for its client's body or for a lock is      *)
(* polled until it answers, and a lock wait is cut off by lock_timeout.    *)
(* Nothing in the code bounds the wait for a body (patch_write, post_body).*)
Answering(r) ==
  /\ pc[r] \notin {"idle", "patch_write", "post_body"}
  /\ \/ Post(r) \/ Patch(r) \/ Get(r) \/ DeleteReq(r)
     \/ Refuse(r) \/ Finish(r) \/ Finalize(r)

Fairness == \A r \in Reqs : WF_vars(Answering(r)) /\ WF_vars(LockTimeout(r))
FairSpec == Spec /\ Fairness

=============================================================================
