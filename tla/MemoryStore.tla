---------------------------- MODULE MemoryStore ----------------------------
(***************************************************************************)
(* fileloft-store-memory/src/store.rs: a map from upload ID to info and    *)
(* bytes behind a RwLock.  Every store call takes the lock once, so it is  *)
(* one atomic step (concatenate, which takes it twice, is two).  The       *)
(* operators here give a call's guard and its effect on one upload; the    *)
(* handlers that make the calls are in TusHandler.                         *)
(***************************************************************************)
EXTENDS Naturals, SequencesExt

CONSTANTS
  Ids,       (* upload IDs                                         *)
  Bytes,     (* byte values                                        *)
  Zero,      (* the byte a buffer is grown with                    *)
  NoUpload,  (* the map has no entry                               *)
  NoLen      (* an Option<u64> that is None                        *)

ASSUME StoreAssumption ==
  /\ Zero \in Bytes
  /\ NoLen \notin Nat

VARIABLE store   (* MemoryStore.state: the upload of each ID, or NoUpload *)

Kinds == {"plain", "partial", "final"}

(* UploadInfo and the data beside it.  is_partial and is_final are `kind`. *)
Uploads ==
  [size : Nat \union {NoLen}, offset : Nat, deferred : BOOLEAN,
   kind : Kinds, partials : Seq(Ids), data : Seq(Bytes)]

(* UploadInfo::new, then the fields post.rs fills in. *)
NewUpload(size, deferred, kind, partials) ==
  [size |-> size, offset |-> 0, deferred |-> deferred,
   kind |-> kind, partials |-> partials, data |-> <<>>]

(* UploadInfo::is_complete *)
IsComplete(u) == u.size # NoLen /\ u.offset = u.size

Exists(id) == store[id] # NoUpload

StoreInit == store = [id \in Ids |-> NoUpload]

(* create_upload inserts, whatever was there. *)
CreateUpload(id, u) == store' = [store EXCEPT ![id] = u]

(* The buffer after `bytes` is copied in at `offset`: it grows, zero       *)
(* filled, when it is too short, and never shrinks.                        *)
Spliced(data, offset, bytes) ==
  LET end == offset + Len(bytes)
      length == IF Len(data) < end THEN end ELSE Len(data)
  IN [i \in 1..length |->
        IF i \in (offset + 1)..end THEN bytes[i - offset]
        ELSE IF i <= Len(data) THEN data[i] ELSE Zero]

(* Mutated form: the bound is off by one. *)
ExceedsByOne(u, offset, bytes) == u.size # NoLen /\ offset + Len(bytes) > u.size + 1

(* write_chunk's check of the declared size. *)
Exceeds(u, offset, bytes) == u.size # NoLen /\ offset + Len(bytes) > u.size

(* Mutated form: the chunk's length becomes the offset. *)
WrittenFromStart(u, offset, bytes) ==
  [u EXCEPT !.data = Spliced(u.data, offset, bytes), !.offset = Len(bytes)]

Written(u, offset, bytes) ==
  [u EXCEPT !.data = Spliced(u.data, offset, bytes),
            !.offset = offset + Len(bytes)]

(* write_chunk under the write lock: the offset it was given is trusted.   *)
WriteChunk(id, offset, bytes) ==
  /\ Exists(id) /\ ~Exceeds(store[id], offset, bytes)
  /\ store' = [store EXCEPT ![id] = Written(@, offset, bytes)]

(* declare_length *)
DeclareLength(id, n) ==
  /\ Exists(id) /\ store[id].size = NoLen
  /\ store' = [store EXCEPT ![id].size = n, ![id].deferred = FALSE]

(* delete removes the entry. *)
Delete(id) ==
  /\ Exists(id)
  /\ store' = [store EXCEPT ![id] = NoUpload]

(* concatenate, second half: the collected bytes become the upload. *)
StoreCombined(id, bytes) ==
  /\ Exists(id)
  /\ store' = [store EXCEPT ![id].data = bytes, ![id].size = Len(bytes),
                            ![id].offset = Len(bytes), ![id].kind = "final"]

StoreTypeOK == store \in [Ids -> Uploads \union {NoUpload}]

=============================================================================
