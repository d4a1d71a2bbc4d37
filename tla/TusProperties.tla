--------------------------- MODULE TusProperties ---------------------------
(***************************************************************************)
(* What makes the handlers of TusHandler correct.  Most of it holds with a *)
(* locker and fresh IDs only; the runs say which.                          *)
(***************************************************************************)
EXTENDS TusHandler

JobType ==
  [id : Ids \union {NoId}, seen : Uploads \union {NoUpload}, k : Nat \ {0},
   buf : Seq(Bytes), wrote : Nat]

Types ==
  /\ StoreTypeOK
  /\ owner \in [Ids -> Reqs \union {NoReq}]
  /\ pc \in [Reqs -> PCs]
  /\ job \in [Reqs -> JobType]
  /\ expired \subseteq Ids /\ used \subseteq Ids /\ known \subseteq Ids
  /\ reported \in [Ids -> Nat]
  /\ lastEvent \in [Ids -> Events]
  /\ \A r \in Reqs : pc[r] = "idle" => job[r] = Blank

(* A lock is held by a handler that is at work on its upload. *)
HoldPCs == PatchPCs \union GetPCs \union {"delete_remove", "delete_emit"}
Held ==
  \A id \in Ids : owner[id] # NoReq =>
    pc[owner[id]] \in HoldPCs \union FinishPCs /\ Id(owner[id]) = id

TypeOK == Types /\ Held

(* info.rs:159, offset is "bytes successfully written so far": the offset  *)
(* of an upload counts the bytes the store has for it, no fewer, no more.  *)
OffsetCountsBytes == \A id \in Ids : Exists(id) => store[id].offset = Len(store[id].data)

(* The resume point: an Upload-Offset a client was told (201, 204 or HEAD) *)
(* is never taken back while the upload exists, however requests race.     *)
ReportedBytesKept ==
  \A id \in Ids : Exists(id) => reported[id] <= store[id].offset

(* Once an upload is known outside the server, the bytes below its offset  *)
(* are never rewritten and its offset never goes down (patch.rs 56-124).   *)
WrittenBytesKept ==
  [][\A id \in known :
       Exists(id) /\ Exists(id)' => IsPrefix(store[id].data, store[id].data')]_vars

(* UploadTerminated is the last event of an upload: no request that was    *)
(* under way when it was deleted speaks of it afterwards (delete.rs 38-53).*)
NothingAfterTerminated ==
  [][\A id \in Ids : lastEvent[id] = "terminated" => lastEvent'[id] = "terminated"]_vars

(* A final upload that nobody is still assembling: the handler is past     *)
(* concatenate, or it was announced.                                       *)
Assembled(id) ==
  \/ id \in known
  \/ \E r \in Reqs :
       Id(r) = id /\ pc[r] \in {"post_body", "post_info", "post_look", "post_announce"}

(* store.rs:31, "assemble fully-uploaded partials (in order) into this     *)
(* final upload": it holds just their bytes, although the partials are     *)
(* read one by one, without their locks, beside PATCH, DELETE and cleanup. *)
FinalIsConcatenation ==
  \A id \in Ids :
    Assembled(id) /\ Exists(id) /\ store[id].kind = "final"
      /\ (\A p \in ToSet(store[id].partials) : Exists(p))
    => store[id].data =
         FlattenSeq([i \in DOMAIN store[id].partials |->
                       store[store[id].partials[i]].data])

(* Cleanup removes a partial only when its bytes are in the final upload   *)
(* (post.rs:155, "after a successful final concatenation").                *)
CleanupAfterAssembly ==
  [][\A r \in Reqs : PostRemove(r) =>
       Exists(Id(r)) /\ store[Id(r)].data = job[r].buf
         /\ \E i \in 0..Len(job[r].buf) :
              IsPrefix(store[Partial(r)].data, SubSeq(job[r].buf, i + 1, Len(job[r].buf)))]_vars

(* What a service has: bytes, lengths, and the bytes a POST has read from  *)
(* partials and not stored yet.                                            *)
Content == [id \in Ids |-> IF Exists(id) THEN store[id].data ELSE NoUpload]
Length == [id \in Ids |-> IF Exists(id) THEN store[id].size ELSE NoLen]
Gathered == {job[r].buf : r \in {q \in Reqs : pc[q] = "post_concat"}}

Service == INSTANCE ResumableUpload WITH
  content <- Content,
  length <- Length,
  gathered <- Gathered,
  Absent <- NoUpload,
  Chunks <- {Chunk(r, n) : r \in Reqs, n \in Lengths},
  Lengths <- Lengths,
  Lists <- FinalLists

(* The handlers over this store implement a resumable upload service: the  *)
(* bytes of an upload only grow at their end, up to its declared length,   *)
(* and a final one gets the bytes its complete partials had.               *)
ImplementsService == Service!Spec

(* Every request is answered, or waits for its client's body: a holder     *)
(* that is stuck there keeps others at most lock_timeout (patch.rs 45-51). *)
Answered ==
  \A r \in Reqs : pc[r] # "idle" ~> pc[r] \in {"idle", "patch_write", "post_body"}

=============================================================================
