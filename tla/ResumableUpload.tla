-------------------------- MODULE ResumableUpload --------------------------
(***************************************************************************)
(* What a resumable upload service promises its clients, whatever store is *)
(* behind it: an upload is created empty, grows only at its end and never  *)
(* beyond its declared length, and exists until it is removed.  Requests,  *)
(* locks and offsets do not appear.  TusHandler over the memory store and  *)
(* an exclusive locker implements it.                                      *)
(***************************************************************************)
EXTENDS Naturals, SequencesExt

CONSTANTS
  Ids,
  Chunks,   (* the byte sequences one request can carry    *)
  Lengths,  (* the lengths clients declare                 *)
  Lists,    (* the uploads they ask to be put together     *)
  Absent,   (* no such upload                              *)
  NoLen     (* the length is not declared yet              *)

VARIABLES
  content,  (* content[id]: the bytes of the upload, or Absent *)
  length,   (* length[id]: its declared length, or NoLen       *)
  gathered  (* bytes read from other uploads, to become one    *)

Present(id) == content[id] # Absent
Complete(id) == Present(id) /\ length[id] = Len(content[id])

Init ==
  /\ content = [id \in Ids |-> Absent]
  /\ length = [id \in Ids |-> NoLen]
  /\ gathered = {}

Create(id, n) ==
  /\ ~Present(id)
  /\ content' = [content EXCEPT ![id] = <<>>]
  /\ length' = [length EXCEPT ![id] = n]
  /\ UNCHANGED gathered

(* Bytes are added behind those already there. *)
Grow(id, chunk) ==
  /\ Present(id)
  /\ length[id] # NoLen => Len(content[id]) + Len(chunk) <= length[id]
  /\ content' = [content EXCEPT ![id] = @ \o chunk]
  /\ UNCHANGED <<length, gathered>>

(* The length of a deferred upload is declared, once. *)
Declare(id, n) ==
  /\ Present(id) /\ length[id] = NoLen
  /\ Len(content[id]) <= n
  /\ length' = [length EXCEPT ![id] = n]
  /\ UNCHANGED <<content, gathered>>

(* It may be less than the upload has: such an upload takes no more bytes  *)
(* and is never complete.  No client that knows its file does this, and    *)
(* no server has to accept it; the handler does (patch.rs 86-90).          *)
DeclareShort(id, n) ==
  /\ Present(id) /\ length[id] = NoLen
  /\ n < Len(content[id])
  /\ length' = [length EXCEPT ![id] = n]
  /\ UNCHANGED <<content, gathered>>

(* Complete uploads are read to be put together, in order.  This is not    *)
(* the moment at which their bytes become an upload: one of them may be    *)
(* removed before that.                                                    *)
Gather(list) ==
  /\ \A id \in ToSet(list) : Complete(id)
  /\ gathered' = gathered \union {FlattenSeq([i \in DOMAIN list |-> content[list[i]]])}
  /\ UNCHANGED <<content, length>>

(* What was read is not needed any more. *)
Forget(bytes) ==
  /\ gathered' = gathered \ {bytes}
  /\ UNCHANGED <<content, length>>

(* An upload that is still empty becomes the concatenation of others. *)
Assemble(id, bytes) ==
  /\ Present(id) /\ content[id] = <<>> /\ bytes \in gathered
  /\ content' = [content EXCEPT ![id] = bytes]
  /\ length' = [length EXCEPT ![id] = Len(bytes)]
  /\ gathered' \in {gathered, gathered \ {bytes}}

Drop(id) ==
  /\ Present(id)
  /\ content' = [content EXCEPT ![id] = Absent]
  /\ length' = [length EXCEPT ![id] = NoLen]
  /\ UNCHANGED gathered

Next ==
  \/ \E id \in Ids :
       \/ \E n \in Lengths \union {NoLen} : Create(id, n)
       \/ \E chunk \in Chunks : Grow(id, chunk)
       \/ \E n \in Lengths : Declare(id, n) \/ DeclareShort(id, n)
       \/ \E bytes \in gathered : Assemble(id, bytes)
       \/ Drop(id)
  \/ \E list \in Lists : Gather(list)
  \/ \E bytes \in gathered : Forget(bytes)

Spec == Init /\ [][Next]_<<content, length, gathered>>

=============================================================================
