------------------------------ MODULE TusProofs ------------------------------
(***************************************************************************)
(* Theorems about the handlers of TusHandler, for any number of requests,  *)
(* uploads and bytes.  Typing needs no more than the assumptions of the    *)
(* modules; the other theorems are about a Deployment.                     *)
(***************************************************************************)
EXTENDS TusProperties, ListTheorems

(* A server whose locker excludes, whose hooks leave the fresh UUID alone  *)
(* and whose subscribers wait for the 201.                                 *)
Deployment == Locking /\ ChosenIds = {} /\ ~Listening

(* Nobody sends bytes along with Upload-Concat: final; the handler would   *)
(* write them over the front of the assembled upload (post.rs 138-150).    *)
NoFinalBody ==
  \A r \in Reqs, n \in Lengths : PostBody(r, n) => job[r].seen.kind # "final"
PlainBodies == [][NoFinalBody]_vars

-----------------------------------------------------------------------------
(* The invariant.  Who holds the lock of an upload, and who is making one. *)

MakePCs == PostPCs \ {"post_create"}
UploadPCs == PCs \ {"idle", "post_create"}

(* A request in MakePCs, or finishing what it made: only it knows the ID.  *)
Making(r) == pc[r] \in MakePCs \union FinishPCs /\ Id(r) \notin known

Typed(r) ==
  /\ pc[r] \in UploadPCs => Id(r) \in Ids
  /\ pc[r] \in PostPCs \union FinishPCs \union {"patch_declare", "patch_write", "patch_emit"}
       => job[r].seen \in Uploads

TypeInv == Types /\ \A r \in Reqs : Typed(r)

Owned(r) ==
  /\ pc[r] = "post_create" => Id(r) = NoId
  /\ pc[r] \in LockPCs \union HoldPCs \union {"delete_hook"} => Id(r) \in known
  /\ pc[r] \in HoldPCs => owner[Id(r)] = r
  /\ pc[r] \in FinishPCs /\ Id(r) \in known => owner[Id(r)] = r
  /\ pc[r] \in MakePCs => Id(r) \notin known

Private(r) ==
  Making(r) =>
    /\ Id(r) \in used /\ Exists(Id(r))
    /\ \A q \in Reqs : Id(q) = Id(r) => q = r

(* A partial that a final upload may rest on: complete, or deleted since.  *)
Good(p) == p \in known /\ (Exists(p) => store[p].kind = "partial" /\ IsComplete(store[p]))

Joined(list) == FlattenSeq([i \in DOMAIN list |-> store[list[i]].data])
AllExist(list) == \A p \in ToSet(list) : Exists(p)

(* What a POST means to create, and what it has created.                   *)
Planned(u) ==
  /\ ToSet(u.partials) \subseteq known
  /\ u.kind = "final" =>
       On("concatenation") /\ u.partials # <<>> /\ u.partials \in FinalLists

Planning(r) ==
  pc[r] = "post_create" =>
    /\ Planned(job[r].seen) /\ job[r].seen.offset = 0 /\ job[r].seen.data = <<>>
    /\ job[r].seen.size \in Sizes /\ job[r].k = 1

Building(r) ==
  /\ pc[r] \in MakePCs =>
       job[r].seen.kind = Current(r).kind /\ Partials(r) = Current(r).partials
  /\ pc[r] \in {"post_fetch", "post_collect", "post_concat"} =>
       Current(r).kind = "final" /\ Current(r).offset = 0
  /\ pc[r] = "post_body" => Current(r).kind = "final" \/ Current(r).offset = 0
  /\ pc[r] \in {"post_look", "post_remove", "post_emit", "post_reread"} =>
       Current(r).kind = "final" /\ On("cleanup-concat-partials")
  /\ pc[r] \in {"post_fetch", "post_look", "post_remove", "post_emit"} =>
       job[r].k \in 1..Len(Partials(r))
  /\ pc[r] \in {"post_collect", "post_concat", "post_body", "post_info"} => job[r].k = 1
  /\ pc[r] = "post_fetch" => \A i \in 1..(job[r].k - 1) : Good(Partials(r)[i])
  /\ pc[r] = "post_emit" => ~Exists(Partial(r))

(* A final upload whose partials have all been fetched, whose bytes have   *)
(* been collected, and into which they have been stored.                   *)
Gathering(r) ==
  Making(r) /\ Current(r).kind = "final" /\ pc[r] # "post_fetch" =>
    /\ \A p \in ToSet(Current(r).partials) : Good(p)
    /\ pc[r] # "post_collect" =>
         /\ \A p \in ToSet(Current(r).partials) : Exists(p) => Within(store[p].data, job[r].buf)
         /\ AllExist(Current(r).partials) => job[r].buf = Joined(Current(r).partials)
         /\ pc[r] # "post_concat" => Current(r).data = job[r].buf

(* What a handler read of an upload before it changes or announces it.     *)
Based(r) ==
  pc[r] \in {"patch_declare", "patch_write"} /\ Exists(Id(r)) =>
    job[r].seen.offset = Current(r).offset /\ Current(r).kind # "final"

Reread(r) ==
  /\ pc[r] \in {"patch_emit", "finish", "finalize", "post_look", "post_remove",
                "post_emit", "post_reread", "post_announce"} /\ Exists(Id(r))
       => job[r].seen = Current(r)
  /\ ~On("cleanup-concat-partials")
       /\ pc[r] \in {"patch_declare", "patch_write", "patch_info", "patch_emit"} \union FinishPCs
       => Exists(Id(r))
  /\ pc[r] = "delete_emit" => ~Exists(Id(r))

Local(r) ==
  Owned(r) /\ Private(r) /\ Planning(r) /\ Building(r) /\ Gathering(r) /\ Based(r) /\ Reread(r)

(* The uploads themselves.                                                 *)
Registered ==
  /\ known \subseteq used
  /\ \A id \in Ids : Exists(id) => id \in used /\ Planned(store[id])
  /\ \A id \in Ids : lastEvent[id] = "terminated" => id \in used /\ ~Exists(id)

FinalsJoined ==
  \A id \in known : Exists(id) /\ store[id].kind = "final" =>
    /\ \A p \in ToSet(store[id].partials) : Good(p)
    /\ AllExist(store[id].partials) => store[id].data = Joined(store[id].partials)

Global == Registered /\ OffsetCountsBytes /\ ReportedBytesKept /\ FinalsJoined

Inv == TypeInv /\ Global /\ \A r \in Reqs : Local(r)

-----------------------------------------------------------------------------
(* Bytes. *)

LEMMA ChunkFacts ==
  ASSUME NEW r \in Reqs, NEW n \in Lengths
  PROVE  n \in Nat /\ Chunk(r, n) \in Seq(Bytes) /\ Len(Chunk(r, n)) = n
  BY HandlerAssumption DEF Chunk, Lengths

LEMMA SplicedFacts ==
  ASSUME NEW data \in Seq(Bytes), NEW offset \in Nat, NEW bytes \in Seq(Bytes)
  PROVE  /\ Spliced(data, offset, bytes) \in Seq(Bytes)
         /\ offset = Len(data) => Spliced(data, offset, bytes) = data \o bytes
<1> DEFINE m == Len(data)
           end == offset + Len(bytes)
           l == IF m < end THEN end ELSE m
           d == Spliced(data, offset, bytes)
<1>1. /\ m \in Nat /\ Len(bytes) \in Nat /\ end \in Nat /\ l \in Nat
      /\ (l <= end \/ l = m)
      /\ \A i \in 1..m : data[i] \in Bytes
      /\ \A i \in 1..Len(bytes) : bytes[i] \in Bytes
  BY LenProperties, ElementOfSeq
<1>2. d = [i \in 1..l |-> IF i \in (offset + 1)..end THEN bytes[i - offset]
                          ELSE IF i <= m THEN data[i] ELSE Zero]
  BY DEF Spliced
<1>3. d \in Seq(Bytes)
  <2>1. ASSUME NEW i \in 1..l PROVE d[i] \in Bytes
    <3>1. CASE i \in (offset + 1)..end
      <4>1. i - offset \in 1..Len(bytes)
        BY <1>1, <3>1
      <4> QED BY <1>1, <1>2, <3>1, <4>1
    <3>2. CASE i \notin (offset + 1)..end
      BY <1>1, <1>2, <3>2, StoreAssumption
    <3> QED BY <3>1, <3>2
  <2>2. l \in Nat /\ d = [i \in 1..l |-> d[i]]
    BY <1>1, <1>2
  <2> HIDE DEF d, l
  <2> QED BY <2>1, <2>2
<1>4. ASSUME offset = m PROVE d = data \o bytes
  <2>1. l = m + Len(bytes) /\ end = m + Len(bytes) /\ Len(d) = l
    BY <1>1, <1>2, <1>4
  <2>2. /\ data \o bytes \in Seq(Bytes) /\ Len(data \o bytes) = m + Len(bytes)
        /\ \A i \in 1..m : (data \o bytes)[i] = data[i]
        /\ \A i \in 1..Len(bytes) : (data \o bytes)[m + i] = bytes[i]
    BY ConcatProperties
  <2>3. ASSUME NEW i \in 1..(m + Len(bytes)) PROVE d[i] = (data \o bytes)[i]
    <3>1. CASE i <= m
      BY <1>1, <1>2, <1>4, <2>1, <2>2, <3>1
    <3>2. CASE ~(i <= m)
      <4>1. i - m \in 1..Len(bytes) /\ m + (i - m) = i /\ i \in (offset + 1)..end
        BY <1>1, <1>4, <2>1, <3>2
      <4>2. d[i] = bytes[i - m]
        BY <1>2, <1>4, <2>1, <4>1
      <4> QED BY <2>2, <4>1, <4>2
    <3> QED BY <3>1, <3>2
  <2> HIDE DEF d
  <2> QED BY <1>3, <2>1, <2>2, <2>3, SeqEqual
<1> QED BY <1>3, <1>4

-----------------------------------------------------------------------------
(* Typing: what each kind of assignment keeps. *)

LEMMA EndType ==
  ASSUME TypeInv, NEW r \in Reqs, End(r)
  PROVE  /\ owner' \in [Ids -> Reqs \union {NoReq}] /\ pc' \in [Reqs -> PCs]
         /\ job' \in [Reqs -> JobType]
         /\ pc'[r] = "idle" /\ job'[r] = Blank
         /\ \A q \in Reqs : q # r => pc'[q] = pc[q] /\ job'[q] = job[q]
         /\ \A q \in Reqs : (pc[q] = "idle" => job[q] = Blank) /\ Typed(q)
              => (pc[q] = "idle" => job[q] = Blank)' /\ Typed(q)'
<1>1. Blank \in JobType
  BY DEF Blank, JobType
<1>2. /\ owner' \in [Ids -> Reqs \union {NoReq}] /\ pc' \in [Reqs -> PCs]
      /\ job' \in [Reqs -> JobType]
      /\ pc'[r] = "idle" /\ job'[r] = Blank
      /\ \A q \in Reqs : q # r => pc'[q] = pc[q] /\ job'[q] = job[q]
  BY <1>1 DEF TypeInv, Types, End, Goto, PCs
<1> QED
  BY <1>2 DEF Typed, Id, UploadPCs, PostPCs, FinishPCs

LEMMA GotoType ==
  ASSUME TypeInv, NEW r \in Reqs, NEW l \in PCs, Goto(r, l)
  PROVE  /\ pc' \in [Reqs -> PCs] /\ pc'[r] = l
         /\ \A q \in Reqs : q # r => pc'[q] = pc[q]
  BY DEF TypeInv, Types, Goto

LEMMA SeeType ==
  ASSUME TypeInv, NEW r \in Reqs, NEW u \in Uploads \union {NoUpload}, See(r, u)
  PROVE  /\ job' \in [Reqs -> JobType]
         /\ job'[r] = [job[r] EXCEPT !.seen = u] /\ job'[r].seen = u
         /\ job'[r].id = job[r].id /\ job'[r].k = job[r].k /\ job'[r].buf = job[r].buf
         /\ \A q \in Reqs : q # r => job'[q] = job[q]
<1>1. job[r] \in JobType /\ job \in [Reqs -> JobType]
  BY DEF TypeInv, Types
<1>2. job' = [job EXCEPT ![r] = [job[r] EXCEPT !.seen = u]]
  BY DEF See
<1>3. [job[r] EXCEPT !.seen = u] \in JobType
  BY <1>1 DEF JobType
<1> QED BY <1>1, <1>2, <1>3 DEF JobType

(* The other requests, and the uploads, stay typed when nothing of theirs  *)
(* changes.                                                                *)
LEMMA TypeInvKeeps ==
  ASSUME TypeInv, NEW r \in Reqs,
         StoreTypeOK', owner' \in [Ids -> Reqs \union {NoReq}],
         pc' \in [Reqs -> PCs], job' \in [Reqs -> JobType],
         expired' \subseteq Ids, used' \subseteq Ids, known' \subseteq Ids,
         reported' \in [Ids -> Nat], lastEvent' \in [Ids -> Events],
         \A q \in Reqs : q # r => pc'[q] = pc[q] /\ job'[q] = job[q],
         pc'[r] = "idle" => job'[r] = Blank,
         Typed(r)'
  PROVE  TypeInv'
<1>1. ASSUME NEW q \in Reqs PROVE (pc[q] = "idle" => job[q] = Blank)' /\ Typed(q)'
  <2>1. CASE q = r
    BY <2>1
  <2>2. CASE q # r
    BY <2>2 DEF TypeInv, Types, Typed, Id
  <2> QED BY <2>1, <2>2
<1> QED BY <1>1 DEF TypeInv, Types

LEMMA FailType == ASSUME TypeInv, NEW r \in Reqs, Fail(r) PROVE TypeInv'
<1>1. End(r) /\ UNCHANGED <<store, expired, used, known, reported, lastEvent>>
  BY DEF Fail, observed
<1>2. Types /\ \A q \in Reqs : (pc[q] = "idle" => job[q] = Blank) /\ Typed(q)
  BY DEF TypeInv, Types
<1>3. /\ owner' \in [Ids -> Reqs \union {NoReq}] /\ pc' \in [Reqs -> PCs]
      /\ job' \in [Reqs -> JobType]
      /\ \A q \in Reqs : (pc[q] = "idle" => job[q] = Blank)' /\ Typed(q)'
  BY <1>1, <1>2, EndType
<1> QED BY <1>1, <1>2, <1>3 DEF TypeInv, Types, StoreTypeOK

(* An upload changed as the store changes it is still an upload. *)
LEMMA UploadFacts ==
  ASSUME NEW u \in Uploads
  PROVE  /\ \A r \in Reqs, n \in Lengths, at \in Nat : Written(u, at, Chunk(r, n)) \in Uploads
         /\ \A n \in Nat : [u EXCEPT !.size = n, !.deferred = FALSE] \in Uploads
         /\ \A n \in Nat : [u EXCEPT !.offset = n] \in Uploads
         /\ \A bytes \in Seq(Bytes) :
              [u EXCEPT !.data = bytes, !.size = Len(bytes), !.offset = Len(bytes),
                        !.kind = "final"] \in Uploads
         /\ u # NoUpload
<1>1. ASSUME NEW r \in Reqs, NEW n \in Lengths, NEW at \in Nat
      PROVE  Written(u, at, Chunk(r, n)) \in Uploads
  <2> DEFINE c == Chunk(r, n)
             d == Spliced(u.data, at, c)
  <2>1. n \in Nat /\ c \in Seq(Bytes) /\ Len(c) = n
    BY ChunkFacts
  <2>2. d \in Seq(Bytes)
    BY <2>1, SplicedFacts DEF Uploads
  <2>3. Written(u, at, c) = [u EXCEPT !.data = d, !.offset = at + Len(c)]
    BY DEF Written
  <2> HIDE DEF c, d
  <2>4. at + Len(c) \in Nat
    BY <2>1
  <2> QED BY <2>2, <2>3, <2>4 DEF Uploads, c
<1>2. ASSUME NEW bytes \in Seq(Bytes)
      PROVE  [u EXCEPT !.data = bytes, !.size = Len(bytes), !.offset = Len(bytes),
                       !.kind = "final"] \in Uploads
  <2>1. Len(bytes) \in Nat /\ "final" \in Kinds
    BY LenProperties DEF Kinds
  <2> QED BY <2>1 DEF Uploads
<1>3. u # NoUpload
  BY HandlerAssumption
<1> QED BY <1>1, <1>2, <1>3 DEF Uploads

(* Where a handler stands and what it has read, put into the store.        *)
LEMMA PutType ==
  ASSUME TypeInv, NEW id, NEW u, store' = [store EXCEPT ![id] = u],
         id \in Ids => u \in Uploads \union {NoUpload}
  PROVE  /\ StoreTypeOK'
         /\ id \in Ids => store'[id] = u
         /\ \A i \in Ids : i # id => store'[i] = store[i]
  BY DEF TypeInv, Types, StoreTypeOK

(* The sequences the partials of an upload hold.                           *)
LEMMA JoinedType ==
  ASSUME StoreTypeOK, NEW list \in Seq(Ids), AllExist(list)
  PROVE  /\ Joined(list) \in Seq(Bytes)
         /\ \A p \in ToSet(list) : Within(store[p].data, Joined(list))
<1> DEFINE seqs == [i \in DOMAIN list |-> store[list[i]].data]
<1>1. /\ Len(list) \in Nat /\ DOMAIN list = 1..Len(list)
      /\ \A i \in 1..Len(list) : list[i] \in Ids
  BY LenProperties, ElementOfSeq
<1>2. ToSet(list) = {list[i] : i \in 1..Len(list)}
  BY <1>1 DEF ToSet
<1>3. \A i \in 1..Len(list) : store[list[i]].data \in Seq(Bytes)
  BY <1>1, <1>2 DEF AllExist, Exists, StoreTypeOK, Uploads
<1>4. seqs \in Seq(Seq(Bytes)) /\ Len(seqs) = Len(list)
      /\ \A i \in 1..Len(list) : seqs[i] = store[list[i]].data
  BY <1>1, <1>3
<1>5. Joined(list) = FlattenSeq(seqs)
  BY DEF Joined
<1> HIDE DEF seqs
<1>6. /\ FlattenSeq(seqs) \in Seq(Bytes)
      /\ \A k \in 1..Len(seqs) : Within(seqs[k], FlattenSeq(seqs))
  BY <1>4, FlattenFacts
<1> QED BY <1>2, <1>4, <1>5, <1>6

-----------------------------------------------------------------------------
(* Typing: one lemma per kind of request, one step per action. *)

LEMMA PatchType == ASSUME TypeInv, NEW r \in Reqs, Patch(r) PROVE TypeInv'
<1> USE DEF observed
<1>0. /\ Types /\ Typed(r) /\ job[r] \in JobType /\ pc[r] \in PCs
      /\ owner \in [Ids -> Reqs \union {NoReq}]
  BY DEF TypeInv, Types
<1>1. ASSUME NEW id \in Ids, PatchArrive(r, id) PROVE TypeInv'
  <2>1. Goto(r, "patch_lock") /\ job' = [job EXCEPT ![r].id = id]
        /\ UNCHANGED <<store, owner, expired, used, known, reported, lastEvent>>
    BY <1>1 DEF PatchArrive, Arrive
  <2>2. /\ job' \in [Reqs -> JobType] /\ job'[r].id = id
        /\ \A q \in Reqs : q # r => job'[q] = job[q]
    BY <1>0, <2>1 DEF Types, JobType
  <2>3. "patch_lock" \in PCs
    BY DEF PCs, LockPCs
  <2>4. pc' \in [Reqs -> PCs] /\ pc'[r] = "patch_lock" /\ \A q \in Reqs : q # r => pc'[q] = pc[q]
    BY <2>1, <2>3, GotoType
  <2>5. Typed(r)'
    BY <2>2, <2>4 DEF Typed, Id, PostPCs, FinishPCs
  <2> QED BY <1>0, <2>1, <2>2, <2>4, <2>5, TypeInvKeeps DEF Types, StoreTypeOK
<1>2. ASSUME PatchBadBody(r) PROVE TypeInv'
  BY <1>2, FailType DEF PatchBadBody
<1>3. ASSUME NEW n \in Lengths, PatchLoad(r, n) PROVE TypeInv'
  <2>1. n \in Nat /\ Id(r) \in Ids /\ Current(r) \in Uploads
    BY <1>0, <1>3, HandlerAssumption
    DEF PatchLoad, Typed, UploadPCs, PCs, PatchPCs, Types, StoreTypeOK, Exists, Current, Lengths
  <2>2. [Current(r) EXCEPT !.offset = n] \in Uploads
    BY <2>1, UploadFacts
  <2>3. See(r, [Current(r) EXCEPT !.offset = n])
        /\ UNCHANGED <<store, owner, expired, used, known, reported, lastEvent>>
    BY <1>3 DEF PatchLoad
  <2>4. /\ job' \in [Reqs -> JobType] /\ job'[r].seen \in Uploads /\ job'[r].id = job[r].id
        /\ \A q \in Reqs : q # r => job'[q] = job[q]
    BY <2>2, <2>3, SeeType
  <2>5. PICK l \in {"patch_write", "patch_declare"} : Goto(r, l)
    BY <1>3 DEF PatchLoad
  <2>6. l \in PCs
    BY DEF PCs, PatchPCs
  <2>7. pc' \in [Reqs -> PCs] /\ pc'[r] = l /\ \A q \in Reqs : q # r => pc'[q] = pc[q]
    BY <2>5, <2>6, GotoType
  <2>8. Typed(r)' /\ pc'[r] # "idle"
    BY <2>1, <2>4, <2>7 DEF Typed, Id
  <2> QED BY <1>0, <2>3, <2>4, <2>7, <2>8, TypeInvKeeps DEF Types, StoreTypeOK
<1>4. ASSUME NEW n \in Lengths, PatchDeclare(r, n) PROVE TypeInv'
  <2>1. n \in Nat /\ Id(r) \in Ids /\ store[Id(r)] \in Uploads /\ job[r].seen \in Uploads
    BY <1>0, <1>4, HandlerAssumption
    DEF PatchDeclare, DeclareLength, Typed, UploadPCs, PCs, PatchPCs, Types, StoreTypeOK,
        Exists, Lengths
  <2>2. [store[Id(r)] EXCEPT !.size = n, !.deferred = FALSE] \in Uploads
    BY <2>1, UploadFacts
  <2>3. store' = [store EXCEPT ![Id(r)] = [store[Id(r)] EXCEPT !.size = n, !.deferred = FALSE]]
    BY <1>0, <1>4, <2>1 DEF PatchDeclare, DeclareLength, Types, StoreTypeOK
  <2>4. StoreTypeOK'
    BY <2>2, <2>3, PutType
  <2>5. Goto(r, "patch_write") /\ UNCHANGED <<owner, job, expired, used, known, reported, lastEvent>>
    BY <1>4 DEF PatchDeclare
  <2>6. "patch_write" \in PCs
    BY DEF PCs, PatchPCs
  <2>7. pc' \in [Reqs -> PCs] /\ pc'[r] = "patch_write" /\ \A q \in Reqs : q # r => pc'[q] = pc[q]
    BY <2>5, <2>6, GotoType
  <2>8. Typed(r)'
    BY <2>1, <2>5, <2>7 DEF Typed, Id
  <2> QED BY <1>0, <2>4, <2>5, <2>7, <2>8, TypeInvKeeps DEF Types
<1>5. ASSUME NEW n \in Lengths, PatchWrite(r, n) PROVE TypeInv'
  <2>1. Id(r) \in Ids /\ store[Id(r)] \in Uploads /\ job[r].seen.offset \in Nat
    BY <1>0, <1>5
    DEF PatchWrite, WriteChunk, Typed, UploadPCs, PCs, PatchPCs, Types, StoreTypeOK, Exists, Uploads
  <2>2. Written(store[Id(r)], job[r].seen.offset, Chunk(r, n)) \in Uploads
    BY <2>1, UploadFacts
  <2>3. store' = [store EXCEPT ![Id(r)] = Written(store[Id(r)], job[r].seen.offset, Chunk(r, n))]
    BY <1>5 DEF PatchWrite, WriteChunk
  <2>4. StoreTypeOK'
    BY <2>2, <2>3, PutType
  <2>5. Goto(r, "patch_info") /\ UNCHANGED <<owner, job, expired, used, known, reported, lastEvent>>
    BY <1>5 DEF PatchWrite
  <2>6. "patch_info" \in PCs
    BY DEF PCs, PatchPCs
  <2>7. pc' \in [Reqs -> PCs] /\ pc'[r] = "patch_info" /\ \A q \in Reqs : q # r => pc'[q] = pc[q]
    BY <2>5, <2>6, GotoType
  <2>8. Typed(r)'
    BY <2>1, <2>5, <2>7 DEF Typed, Id, PostPCs, FinishPCs
  <2> QED BY <1>0, <2>4, <2>5, <2>7, <2>8, TypeInvKeeps DEF Types
<1>6. ASSUME PatchInfo(r) PROVE TypeInv'
  <2>1. Id(r) \in Ids /\ Current(r) \in Uploads
    BY <1>0, <1>6
    DEF PatchInfo, Typed, UploadPCs, PCs, PatchPCs, Types, StoreTypeOK, Exists, Current
  <2>2. See(r, Current(r)) /\ Goto(r, "patch_emit")
        /\ UNCHANGED <<store, owner, expired, used, known, reported, lastEvent>>
    BY <1>6 DEF PatchInfo
  <2>3. /\ job' \in [Reqs -> JobType] /\ job'[r].seen \in Uploads /\ job'[r].id = job[r].id
        /\ \A q \in Reqs : q # r => job'[q] = job[q]
    BY <2>1, <2>2, SeeType
  <2>4. "patch_emit" \in PCs
    BY DEF PCs, PatchPCs
  <2>5. pc' \in [Reqs -> PCs] /\ pc'[r] = "patch_emit" /\ \A q \in Reqs : q # r => pc'[q] = pc[q]
    BY <2>2, <2>4, GotoType
  <2>6. Typed(r)'
    BY <2>1, <2>3, <2>5 DEF Typed, Id
  <2> QED BY <1>0, <2>2, <2>3, <2>5, <2>6, TypeInvKeeps DEF Types, StoreTypeOK
<1>7. ASSUME PatchEmit(r) PROVE TypeInv'
  <2>1. /\ pc[r] = "patch_emit" /\ Emit(Id(r), "progress")
        /\ UNCHANGED <<store, expired, used, known>>
    BY <1>7 DEF PatchEmit
  <2>2. lastEvent' \in [Ids -> Events] /\ job[r].seen \in Uploads /\ Id(r) \in Ids
    BY <1>0, <2>1 DEF Emit, Types, Events, Typed, UploadPCs, PCs, PatchPCs
  <2>3. CASE IsComplete(job[r].seen)
    <3>1. Goto(r, "finish") /\ UNCHANGED <<owner, job, reported>>
      BY <1>7, <2>3 DEF PatchEmit
    <3>2. "finish" \in PCs
      BY DEF PCs, FinishPCs
    <3>3. pc' \in [Reqs -> PCs] /\ pc'[r] = "finish" /\ \A q \in Reqs : q # r => pc'[q] = pc[q]
      BY <3>1, <3>2, GotoType
    <3>4. Typed(r)'
      BY <2>2, <3>1, <3>3 DEF Typed, Id
    <3> QED BY <1>0, <2>1, <2>2, <3>1, <3>3, <3>4, TypeInvKeeps DEF Types, StoreTypeOK
  <2>4. CASE ~IsComplete(job[r].seen)
    <3>1. End(r) /\ Report(Id(r), job[r].seen.offset)
      BY <1>7, <2>4 DEF PatchEmit
    <3>2. reported' \in [Ids -> Nat]
      BY <1>0, <2>2, <3>1 DEF Report, Types, Uploads
    <3> QED BY <1>0, <2>1, <2>2, <3>1, <3>2, EndType, TypeInvKeeps DEF Types, StoreTypeOK, TypeInv
  <2> QED BY <2>3, <2>4
<1> QED BY <1>1, <1>2, <1>3, <1>4, <1>5, <1>6, <1>7 DEF Patch

(* A step from one await to the next, perhaps with a store call.           *)
LEMMA MoveType ==
  ASSUME TypeInv, NEW r \in Reqs, NEW l \in UploadPCs, Goto(r, l), Id(r) \in Ids,
         l \in PostPCs \union FinishPCs \union {"patch_declare", "patch_write", "patch_emit"}
           => job[r].seen \in Uploads,
         UNCHANGED <<job, used>>,
         StoreTypeOK', owner' \in [Ids -> Reqs \union {NoReq}],
         expired' \subseteq Ids, known' \subseteq Ids,
         reported' \in [Ids -> Nat], lastEvent' \in [Ids -> Events]
  PROVE  TypeInv'
<1>1. l \in PCs /\ l # "idle"
  BY DEF UploadPCs
<1>2. pc' \in [Reqs -> PCs] /\ pc'[r] = l /\ \A q \in Reqs : q # r => pc'[q] = pc[q]
  BY <1>1, GotoType
<1>3. Typed(r)'
  BY <1>2 DEF Typed, Id
<1> QED BY <1>1, <1>2, <1>3, TypeInvKeeps DEF TypeInv, Types

(* A step that reads the info of an upload.                                *)
LEMMA ReadType ==
  ASSUME TypeInv, NEW r \in Reqs, NEW l \in UploadPCs, Goto(r, l), Id(r) \in Ids,
         NEW u \in Uploads, See(r, u),
         UNCHANGED <<store, owner, expired, used, observed>>
  PROVE  TypeInv'
<1>1. l \in PCs /\ l # "idle"
  BY DEF UploadPCs
<1>2. pc' \in [Reqs -> PCs] /\ pc'[r] = l /\ \A q \in Reqs : q # r => pc'[q] = pc[q]
  BY <1>1, GotoType
<1>3. /\ job' \in [Reqs -> JobType] /\ job'[r].seen = u /\ job'[r].id = job[r].id
      /\ \A q \in Reqs : q # r => job'[q] = job[q]
  BY SeeType
<1>4. Typed(r)'
  BY <1>2, <1>3 DEF Typed, Id
<1> QED
  BY <1>1, <1>2, <1>3, <1>4, TypeInvKeeps DEF TypeInv, Types, StoreTypeOK, observed

LEMMA ArriveType ==
  ASSUME TypeInv, NEW r \in Reqs, NEW id \in Ids,
         NEW l \in LockPCs \union {"delete_hook"}, Arrive(r, id, l)
  PROVE  TypeInv'
<1>1. Goto(r, l) /\ job' = [job EXCEPT ![r].id = id]
      /\ UNCHANGED <<store, owner, expired, used, known, reported, lastEvent>>
  BY DEF Arrive, observed
<1>2. /\ job' \in [Reqs -> JobType] /\ job'[r].id = id
      /\ \A q \in Reqs : q # r => job'[q] = job[q]
  BY <1>1 DEF TypeInv, Types, JobType
<1>3. l \in PCs /\ l # "idle" /\ l \notin PostPCs \union FinishPCs
      /\ l \notin {"patch_declare", "patch_write", "patch_emit"}
  BY DEF PCs, LockPCs, DeletePCs, PostPCs, FinishPCs
<1>4. pc' \in [Reqs -> PCs] /\ pc'[r] = l /\ \A q \in Reqs : q # r => pc'[q] = pc[q]
  BY <1>1, <1>3, GotoType
<1>5. Typed(r)'
  BY <1>2, <1>3, <1>4 DEF Typed, Id
<1> QED
  BY <1>1, <1>2, <1>3, <1>4, <1>5, TypeInvKeeps DEF TypeInv, Types, StoreTypeOK

LEMMA GetType == ASSUME TypeInv, NEW r \in Reqs, Get(r) PROVE TypeInv'
<1>1. ASSUME NEW id \in Ids, GetArrive(r, id) PROVE TypeInv'
  BY <1>1, ArriveType DEF GetArrive, LockPCs
<1>2. ASSUME GetLoad(r) PROVE TypeInv'
  <2>1. Id(r) \in Ids /\ Current(r) \in Uploads /\ "get_read" \in UploadPCs
    BY <1>2 DEF GetLoad, TypeInv, Typed, UploadPCs, PCs, GetPCs, Types, StoreTypeOK, Exists, Current
  <2> QED BY <1>2, <2>1, ReadType DEF GetLoad
<1>3. ASSUME GetRead(r) PROVE TypeInv'
  BY <1>3, FailType DEF GetRead
<1> QED BY <1>1, <1>2, <1>3 DEF Get

LEMMA DeleteType == ASSUME TypeInv, NEW r \in Reqs, DeleteReq(r) PROVE TypeInv'
<1>0. Types /\ Typed(r)
  BY DEF TypeInv
<1>1. ASSUME NEW id \in Ids, DeleteArrive(r, id) PROVE TypeInv'
  BY <1>1, ArriveType DEF DeleteArrive, LockPCs
<1>2. ASSUME DeleteApproved(r) PROVE TypeInv'
  <2>1. Id(r) \in Ids /\ "delete_lock" \in UploadPCs
        /\ "delete_lock" \notin PostPCs \union FinishPCs
    BY <1>0, <1>2
    DEF DeleteApproved, Typed, UploadPCs, PCs, DeletePCs, LockPCs, PostPCs, FinishPCs
  <2> QED BY <1>0, <1>2, <2>1, MoveType DEF DeleteApproved, Types, StoreTypeOK, observed
<1>3. ASSUME DeleteRemove(r) PROVE TypeInv'
  <2>1. Id(r) \in Ids /\ "delete_emit" \in UploadPCs
        /\ "delete_emit" \notin PostPCs \union FinishPCs
    BY <1>0, <1>3
    DEF DeleteRemove, Typed, UploadPCs, PCs, DeletePCs, PostPCs, FinishPCs
  <2>2. StoreTypeOK'
    BY <1>3, PutType DEF DeleteRemove, Delete
  <2> QED BY <1>0, <1>3, <2>1, <2>2, MoveType DEF DeleteRemove, Types, observed
<1>4. ASSUME DeleteEmit(r) PROVE TypeInv'
  <2>1. lastEvent' \in [Ids -> Events]
    BY <1>0, <1>4 DEF DeleteEmit, Emit, Types, Events
  <2>2. End(r) /\ UNCHANGED <<store, expired, used, known, reported>>
    BY <1>4 DEF DeleteEmit
  <2> QED BY <1>0, <2>1, <2>2, EndType, TypeInvKeeps DEF Types, StoreTypeOK, TypeInv
<1> QED BY <1>1, <1>2, <1>3, <1>4 DEF DeleteReq

LEMMA SharedType == ASSUME TypeInv, NEW r \in Reqs, Shared(r) PROVE TypeInv'
<1>0. Types /\ Typed(r)
  BY DEF TypeInv
<1>1. ASSUME Lock(r) PROVE TypeInv'
  <2>1. Id(r) \in Ids
    BY <1>0, <1>1 DEF Lock, Typed, UploadPCs, PCs, LockPCs
  <2>2. /\ AfterLock(pc[r]) \in UploadPCs
        /\ AfterLock(pc[r]) \notin PostPCs \union FinishPCs
        /\ AfterLock(pc[r]) \notin {"patch_declare", "patch_write", "patch_emit"}
    BY <1>1
    DEF Lock, LockPCs, AfterLock, UploadPCs, PCs, PatchPCs, GetPCs, DeletePCs, PostPCs, FinishPCs
  <2>3. owner' \in [Ids -> Reqs \union {NoReq}]
    BY <1>0, <1>1 DEF Lock, Types
  <2>4. Goto(r, AfterLock(pc[r])) /\ UNCHANGED <<store, job, expired, used, known, reported, lastEvent>>
    BY <1>1 DEF Lock, observed
  <2> HIDE DEF AfterLock
  <2> QED BY <1>0, <2>1, <2>2, <2>3, <2>4, MoveType DEF Types, StoreTypeOK
<1>2. ASSUME LockTimeout(r) \/ Cancel(r) \/ Refuse(r) PROVE TypeInv'
  BY <1>2, FailType DEF LockTimeout, Cancel, Refuse
<1>3. ASSUME Finish(r) PROVE TypeInv'
  <2>1. Id(r) \in Ids /\ "finalize" \in UploadPCs /\ job[r].seen \in Uploads
    BY <1>0, <1>3 DEF Finish, Typed, UploadPCs, PCs, FinishPCs
  <2> QED BY <1>0, <1>3, <2>1, MoveType DEF Finish, Types, StoreTypeOK, observed
<1>4. ASSUME Finalize(r) PROVE TypeInv'
  <2>1. Id(r) \in Ids /\ job[r].seen \in Uploads
    BY <1>0, <1>4 DEF Finalize, Typed, UploadPCs, PCs, FinishPCs
  <2>2. lastEvent' \in [Ids -> Events] /\ reported' \in [Ids -> Nat] /\ known' \subseteq Ids
    BY <1>0, <1>4, <2>1 DEF Finalize, Emit, Report, Types, Events, Uploads
  <2>3. End(r) /\ UNCHANGED <<store, expired, used>>
    BY <1>4 DEF Finalize
  <2> QED BY <1>0, <2>2, <2>3, EndType, TypeInvKeeps DEF Types, StoreTypeOK, TypeInv
<1> QED BY <1>1, <1>2, <1>3, <1>4 DEF Shared

(* The loop over the partials. *)
LEMMA PartialNumber ==
  ASSUME NEW j \in JobType, NEW n \in Nat \ {0}
  PROVE  [j EXCEPT !.k = n] \in JobType
<1> DEFINE Numbers == Nat \ {0}
<1>1. j \in [id : Ids \union {NoId}, seen : Uploads \union {NoUpload}, k : Numbers,
              buf : Seq(Bytes), wrote : Nat] /\ n \in Numbers
  BY DEF JobType
<1> HIDE DEF Numbers
<1>2. [j EXCEPT !.k = n] \in
         [id : Ids \union {NoId}, seen : Uploads \union {NoUpload}, k : Numbers,
          buf : Seq(Bytes), wrote : Nat]
  BY <1>1
<1> QED BY <1>2 DEF JobType, Numbers

LEMMA NextPartialType ==
  ASSUME TypeInv, NEW r \in Reqs, NEW again \in UploadPCs, NEW l \in UploadPCs,
         NextPartial(r, again, l)
  PROVE  /\ pc' \in [Reqs -> PCs] /\ job' \in [Reqs -> JobType]
         /\ job'[r].id = job[r].id /\ job'[r].seen = job[r].seen /\ job'[r].buf = job[r].buf
         /\ \A q \in Reqs : q # r => pc'[q] = pc[q] /\ job'[q] = job[q]
         /\ IF job[r].k < Len(Partials(r)) THEN pc'[r] = again /\ job'[r].k = job[r].k + 1
                                           ELSE pc'[r] = l /\ job'[r].k = 1
<1>0. /\ job \in [Reqs -> JobType] /\ job[r] \in JobType /\ again \in PCs /\ l \in PCs
      /\ pc \in [Reqs -> PCs]
  BY DEF TypeInv, Types, UploadPCs
<1>1. CASE job[r].k < Len(Partials(r))
  <2>1. job' = [job EXCEPT ![r].k = @ + 1] /\ Goto(r, again)
    BY <1>1 DEF NextPartial
  <2>2. [job[r] EXCEPT !.k = @ + 1] \in JobType
    <3>1. job[r].k + 1 \in Nat \ {0}
      BY <1>0 DEF JobType
    <3> QED BY <1>0, <3>1, PartialNumber
  <2>3. job' = [job EXCEPT ![r] = [job[r] EXCEPT !.k = @ + 1]]
    BY <1>0, <2>1
  <2> QED BY <1>0, <1>1, <2>1, <2>2, <2>3 DEF Goto, JobType
<1>2. CASE ~(job[r].k < Len(Partials(r)))
  <2>1. job' = [job EXCEPT ![r].k = 1] /\ Goto(r, l)
    BY <1>2 DEF NextPartial
  <2>2. [job[r] EXCEPT !.k = 1] \in JobType
    BY <1>0, PartialNumber
  <2>3. job' = [job EXCEPT ![r] = [job[r] EXCEPT !.k = 1]]
    BY <1>0, <2>1
  <2> QED BY <1>0, <1>2, <2>1, <2>2, <2>3 DEF Goto, JobType
<1> QED BY <1>1, <1>2

LEMMA NewUploadType ==
  ASSUME NEW size \in Sizes, NEW defer \in BOOLEAN, NEW kind \in Kinds, NEW list \in FinalLists
  PROVE  NewUpload(size, defer, kind, IF kind = "final" THEN list ELSE <<>>) \in Uploads
<1>1. list \in Seq(Ids) /\ <<>> \in Seq(Ids) /\ <<>> \in Seq(Bytes) /\ size \in Nat \union {NoLen}
  BY HandlerAssumption
<1> QED BY <1>1 DEF NewUpload, Uploads

LEMMA PostType == ASSUME TypeInv, NEW r \in Reqs, Post(r) PROVE TypeInv'
<1>0. /\ Types /\ Typed(r) /\ job[r] \in JobType /\ job \in [Reqs -> JobType]
      /\ pc[r] \in MakePCs => /\ pc[r] \in UploadPCs /\ Id(r) \in Ids
                              /\ job[r].seen \in Uploads
                              /\ Partials(r) \in Seq(Ids)
  BY DEF TypeInv, Types, Typed, MakePCs, UploadPCs, PCs, PostPCs, Partials, Uploads
<1>1. ASSUME NEW size \in Sizes, NEW defer \in BOOLEAN, NEW kind \in Kinds, NEW list \in FinalLists,
             PostArrive(r, size, defer, kind, list)
      PROVE  TypeInv'
  <2> DEFINE u == NewUpload(size, defer, kind, IF kind = "final" THEN list ELSE <<>>)
  <2>1. u \in Uploads
    BY NewUploadType
  <2>2. See(r, u) /\ Goto(r, "post_create")
        /\ UNCHANGED <<store, owner, expired, used, known, reported, lastEvent>>
    BY <1>1 DEF PostArrive, observed
  <2> HIDE DEF u
  <2>3. /\ job' \in [Reqs -> JobType] /\ job'[r].seen = u
        /\ \A q \in Reqs : q # r => job'[q] = job[q]
    BY <2>1, <2>2, SeeType
  <2>4. "post_create" \in PCs
    BY DEF PCs, PostPCs
  <2>5. pc' \in [Reqs -> PCs] /\ pc'[r] = "post_create" /\ \A q \in Reqs : q # r => pc'[q] = pc[q]
    BY <2>2, <2>4, GotoType
  <2>6. Typed(r)'
    BY <2>1, <2>3, <2>5 DEF Typed, UploadPCs
  <2> QED BY <1>0, <2>2, <2>3, <2>5, <2>6, TypeInvKeeps DEF Types, StoreTypeOK
<1>2. ASSUME NEW id \in Ids, PostCreate(r, id) PROVE TypeInv'
  <2>1. job[r].seen \in Uploads /\ store' = [store EXCEPT ![id] = job[r].seen]
    BY <1>0, <1>2 DEF PostCreate, CreateUpload, Typed, PostPCs
  <2>2. StoreTypeOK'
    BY <2>1, PutType
  <2>3. /\ job' \in [Reqs -> JobType] /\ job'[r].id = id /\ job'[r].seen = job[r].seen
        /\ \A q \in Reqs : q # r => job'[q] = job[q]
    BY <1>0, <1>2 DEF PostCreate, JobType
  <2>4. PICK l \in {"post_fetch", "post_body"} : Goto(r, l)
    BY <1>2 DEF PostCreate
  <2>5. l \in PCs
    BY DEF PCs, PostPCs
  <2>6. pc' \in [Reqs -> PCs] /\ pc'[r] = l /\ \A q \in Reqs : q # r => pc'[q] = pc[q]
    BY <2>4, <2>5, GotoType
  <2>7. Typed(r)' /\ pc'[r] # "idle"
    BY <2>1, <2>3, <2>6 DEF Typed, Id
  <2>8. /\ used' \subseteq Ids /\ expired' \subseteq Ids /\ reported' \in [Ids -> Nat]
        /\ UNCHANGED <<owner, known, lastEvent>>
    BY <1>0, <1>2 DEF PostCreate, Types
  <2> QED BY <1>0, <2>2, <2>3, <2>6, <2>7, <2>8, TypeInvKeeps DEF Types
<1>3. ASSUME PostFetch(r) PROVE TypeInv'
  <2>1. /\ "post_fetch" \in UploadPCs /\ "post_collect" \in UploadPCs /\ pc[r] \in MakePCs
    BY <1>3 DEF UploadPCs, PCs, PostPCs, PostFetch, MakePCs
  <2>2. /\ pc' \in [Reqs -> PCs] /\ job' \in [Reqs -> JobType] /\ pc'[r] # "idle"
        /\ job'[r].id = job[r].id /\ job'[r].seen = job[r].seen
        /\ \A q \in Reqs : q # r => pc'[q] = pc[q] /\ job'[q] = job[q]
    BY <1>3, <2>1, NextPartialType DEF PostFetch
  <2>3. Typed(r)'
    BY <1>0, <2>1, <2>2 DEF Typed, Id
  <2>4. UNCHANGED <<store, owner, expired, used, known, reported, lastEvent>>
    BY <1>3 DEF PostFetch, observed
  <2> QED BY <1>0, <2>2, <2>3, <2>4, TypeInvKeeps DEF Types, StoreTypeOK
<1>4. ASSUME PostCollect(r) PROVE TypeInv'
  <2>1. /\ job' = [job EXCEPT ![r].buf = Joined(Partials(r))] /\ AllExist(Partials(r))
        /\ pc[r] \in MakePCs /\ Goto(r, "post_concat")
        /\ UNCHANGED <<store, owner, expired, used, known, reported, lastEvent>>
    BY <1>4 DEF PostCollect, observed, Joined, AllExist, MakePCs, PostPCs
  <2>2. Joined(Partials(r)) \in Seq(Bytes)
    BY <1>0, <2>1, JoinedType DEF Types
  <2>3. /\ job' \in [Reqs -> JobType] /\ job'[r].id = job[r].id /\ job'[r].seen = job[r].seen
        /\ \A q \in Reqs : q # r => job'[q] = job[q]
    BY <1>0, <2>1, <2>2 DEF JobType
  <2>4. "post_concat" \in PCs
    BY DEF PCs, PostPCs
  <2>5. pc' \in [Reqs -> PCs] /\ pc'[r] = "post_concat" /\ \A q \in Reqs : q # r => pc'[q] = pc[q]
    BY <2>1, <2>4, GotoType
  <2>6. Typed(r)'
    BY <1>0, <2>1, <2>3, <2>5 DEF Typed, Id
  <2> QED BY <1>0, <2>1, <2>3, <2>5, <2>6, TypeInvKeeps DEF Types, StoreTypeOK
<1>5. ASSUME PostConcat(r) PROVE TypeInv'
  <2>1. /\ pc[r] \in MakePCs /\ "post_body" \in UploadPCs /\ job[r].buf \in Seq(Bytes)
        /\ Exists(Id(r))
    BY <1>0, <1>5 DEF PostConcat, StoreCombined, MakePCs, UploadPCs, PCs, PostPCs, JobType
  <2>2. store[Id(r)] \in Uploads
    BY <1>0, <2>1 DEF Types, StoreTypeOK, Exists
  <2>3. [store[Id(r)] EXCEPT !.data = job[r].buf, !.size = Len(job[r].buf),
                             !.offset = Len(job[r].buf), !.kind = "final"] \in Uploads
    BY <2>1, <2>2, UploadFacts
  <2>4. store' = [store EXCEPT ![Id(r)] =
                    [store[Id(r)] EXCEPT !.data = job[r].buf, !.size = Len(job[r].buf),
                                         !.offset = Len(job[r].buf), !.kind = "final"]]
    BY <1>0, <1>5, <2>1 DEF PostConcat, StoreCombined, Types, StoreTypeOK
  <2>5. StoreTypeOK'
    BY <2>3, <2>4, PutType
  <2> QED BY <1>0, <1>5, <2>1, <2>5, MoveType DEF PostConcat, Types, observed
<1>6. ASSUME PostNoBody(r) PROVE TypeInv'
  <2>1. pc[r] \in MakePCs /\ "post_info" \in UploadPCs
    BY <1>6 DEF PostNoBody, MakePCs, UploadPCs, PCs, PostPCs
  <2> QED BY <1>0, <1>6, <2>1, MoveType DEF PostNoBody, Types, StoreTypeOK, observed
<1>7. ASSUME NEW n \in Lengths, PostBody(r, n) PROVE TypeInv'
  <2>1. /\ pc[r] \in MakePCs /\ "post_info" \in PCs /\ Exists(Id(r)) /\ n \in Nat
        /\ store' = [store EXCEPT ![Id(r)] = Written(store[Id(r)], 0, Chunk(r, n))]
    BY <1>7, ChunkFacts DEF PostBody, WriteChunk, MakePCs, PCs, PostPCs
  <2>2. store[Id(r)] \in Uploads
    BY <1>0, <2>1 DEF Types, StoreTypeOK, Exists
  <2>3. Written(store[Id(r)], 0, Chunk(r, n)) \in Uploads
    BY <2>2, UploadFacts
  <2>4. StoreTypeOK'
    BY <2>1, <2>3, PutType
  <2>5. /\ job' = [job EXCEPT ![r].wrote = n] /\ Goto(r, "post_info")
        /\ UNCHANGED <<owner, expired, used, known, reported, lastEvent>>
    BY <1>7 DEF PostBody, observed
  <2>6. /\ job' \in [Reqs -> JobType] /\ job'[r].id = job[r].id /\ job'[r].seen = job[r].seen
        /\ \A q \in Reqs : q # r => job'[q] = job[q]
    BY <1>0, <2>1, <2>5 DEF JobType
  <2>7. pc' \in [Reqs -> PCs] /\ pc'[r] = "post_info" /\ \A q \in Reqs : q # r => pc'[q] = pc[q]
    BY <2>1, <2>5, GotoType
  <2>8. Typed(r)'
    BY <1>0, <2>1, <2>6, <2>7 DEF Typed, Id
  <2> QED BY <1>0, <2>4, <2>5, <2>6, <2>7, <2>8, TypeInvKeeps DEF Types
<1>8. ASSUME PostInfo(r) PROVE TypeInv'
  <2>1. pc[r] \in MakePCs /\ Exists(Id(r)) /\ See(r, Current(r))
        /\ UNCHANGED <<store, owner, expired, used, observed>>
    BY <1>8 DEF PostInfo, MakePCs, PostPCs
  <2>2. PICK l \in {"post_look", "post_announce"} : Goto(r, l)
    BY <1>8 DEF PostInfo
  <2>3. l \in UploadPCs /\ Current(r) \in Uploads
    BY <1>0, <2>1 DEF UploadPCs, PCs, PostPCs, Types, StoreTypeOK, Exists, Current
  <2> QED BY <1>0, <2>1, <2>2, <2>3, ReadType
<1>9. ASSUME PostLook(r) PROVE TypeInv'
  <2>1. pc[r] \in MakePCs /\ "post_remove" \in UploadPCs
    BY <1>9 DEF PostLook, MakePCs, UploadPCs, PCs, PostPCs
  <2> QED BY <1>0, <1>9, <2>1, MoveType DEF PostLook, Types, StoreTypeOK, observed
<1>10. ASSUME PostRemove(r) PROVE TypeInv'
  <2>1. pc[r] \in MakePCs /\ "post_emit" \in UploadPCs
    BY <1>10 DEF PostRemove, MakePCs, UploadPCs, PCs, PostPCs
  <2>2. StoreTypeOK'
    BY <1>10, PutType DEF PostRemove, Delete
  <2> QED BY <1>0, <1>10, <2>1, <2>2, MoveType DEF PostRemove, Types, observed
<1>11. ASSUME PostEmit(r) PROVE TypeInv'
  <2>1. /\ "post_look" \in UploadPCs /\ "post_reread" \in UploadPCs /\ pc[r] \in MakePCs
    BY <1>11 DEF UploadPCs, PCs, PostPCs, PostEmit, MakePCs
  <2>2. /\ pc' \in [Reqs -> PCs] /\ job' \in [Reqs -> JobType] /\ pc'[r] # "idle"
        /\ job'[r].id = job[r].id /\ job'[r].seen = job[r].seen
        /\ \A q \in Reqs : q # r => pc'[q] = pc[q] /\ job'[q] = job[q]
    BY <1>11, <2>1, NextPartialType DEF PostEmit
  <2>3. Typed(r)'
    BY <1>0, <2>1, <2>2 DEF Typed, Id
  <2>4. /\ lastEvent' \in [Ids -> Events]
        /\ UNCHANGED <<store, owner, expired, used, known, reported>>
    BY <1>0, <1>11 DEF PostEmit, Emit, Types, Events
  <2> QED BY <1>0, <2>2, <2>3, <2>4, TypeInvKeeps DEF Types, StoreTypeOK
<1>12. ASSUME PostReread(r) PROVE TypeInv'
  <2>1. pc[r] \in MakePCs /\ Exists(Id(r)) /\ "post_announce" \in UploadPCs
    BY <1>12 DEF PostReread, MakePCs, PostPCs, UploadPCs, PCs
  <2>2. Current(r) \in Uploads
    BY <1>0, <2>1 DEF Types, StoreTypeOK, Exists, Current
  <2> QED BY <1>0, <1>12, <2>1, <2>2, ReadType DEF PostReread
<1>13. ASSUME PostAnnounce(r) PROVE TypeInv'
  <2>1. /\ pc[r] \in MakePCs /\ "finish" \in UploadPCs
        /\ lastEvent' \in [Ids -> Events] /\ UNCHANGED <<store, expired, used>>
    BY <1>0, <1>13 DEF PostAnnounce, Emit, Types, Events, MakePCs, PostPCs, UploadPCs, PCs, FinishPCs
  <2>2. known' \subseteq Ids
    BY <1>0, <1>13, <2>1 DEF PostAnnounce, Types
  <2>3. CASE IsComplete(job[r].seen)
    BY <1>0, <1>13, <2>1, <2>2, <2>3, MoveType DEF PostAnnounce, Types, StoreTypeOK
  <2>4. CASE ~IsComplete(job[r].seen)
    <3>1. End(r) /\ Report(Id(r), job[r].seen.offset)
      BY <1>13, <2>4 DEF PostAnnounce
    <3>2. reported' \in [Ids -> Nat]
      BY <1>0, <2>1, <3>1 DEF Report, Types, Uploads
    <3> QED BY <1>0, <2>1, <2>2, <3>1, <3>2, EndType, TypeInvKeeps DEF Types, StoreTypeOK, TypeInv
  <2> QED BY <2>3, <2>4
<1> QED
  BY <1>1, <1>2, <1>3, <1>4, <1>5, <1>6, <1>7, <1>8, <1>9, <1>10, <1>11, <1>12, <1>13 DEF Post

LEMMA TypeStep == ASSUME TypeInv, [Next]_vars PROVE TypeInv'
<1>1. CASE UNCHANGED vars
  BY <1>1 DEF vars, TypeInv, Types, StoreTypeOK, Typed, Id
<1>2. ASSUME NEW r \in Reqs, Post(r) PROVE TypeInv'
  BY <1>2, PostType
<1>3. ASSUME NEW r \in Reqs, Patch(r) PROVE TypeInv'
  BY <1>3, PatchType
<1>4. ASSUME NEW r \in Reqs, Get(r) PROVE TypeInv'
  BY <1>4, GetType
<1>5. ASSUME NEW r \in Reqs, DeleteReq(r) PROVE TypeInv'
  BY <1>5, DeleteType
<1>6. ASSUME NEW r \in Reqs, Shared(r) PROVE TypeInv'
  BY <1>6, SharedType
<1>7. ASSUME NEW r \in Reqs, NEW id \in Ids, HeadRequest(r, id) PROVE TypeInv'
  <2>1. store[id].offset \in Nat
    BY <1>7 DEF HeadRequest, TypeInv, Types, StoreTypeOK, Exists, Uploads
  <2>2. reported' \in [Ids -> Nat]
    BY <1>7, <2>1 DEF HeadRequest, Report, TypeInv, Types
  <2> QED BY <1>7, <2>2 DEF HeadRequest, TypeInv, Types, StoreTypeOK, Typed, Id
<1>8. ASSUME NEW id \in Ids, Expire(id) PROVE TypeInv'
  BY <1>8 DEF Expire, TypeInv, Types, StoreTypeOK, Typed, Id, observed
<1> QED
  BY <1>1, <1>2, <1>3, <1>4, <1>5, <1>6, <1>7, <1>8 DEF Next

LEMMA TypeInit == Init => TypeInv
<1> SUFFICES ASSUME Init PROVE TypeInv
  OBVIOUS
<1>1. Blank \in JobType /\ Blank.id = NoId
  BY DEF Blank, JobType
<1> QED
  BY <1>1 DEF Init, StoreInit, TypeInv, Types, StoreTypeOK, Typed, PCs, Events, UploadPCs,
              PostPCs, FinishPCs

(* A lock is held by a handler at work on its upload: what a step of r may *)
(* do without breaking this.                                               *)
Apart(r) == \A q \in Reqs : q # r => pc'[q] = pc[q] /\ job'[q] = job[q]
WorkPCs == HoldPCs \union FinishPCs

Respects(r) ==
  \/ End(r)
  \/ Lock(r)
  \/ owner' = owner /\ Apart(r) /\ pc[r] \notin WorkPCs
  \/ owner' = owner /\ Apart(r) /\ pc'[r] \in WorkPCs /\ Id(r)' = Id(r)

LEMMA HeldKeeps == ASSUME TypeInv, Held, NEW r \in Reqs, Respects(r) PROVE Held'
<1>1. /\ pc \in [Reqs -> PCs] /\ job \in [Reqs -> JobType] /\ owner \in [Ids -> Reqs \union {NoReq}]
      /\ NoReq \notin Reqs
  BY HandlerAssumption DEF TypeInv, Types
<1>2. \A id \in Ids : owner[id] # NoReq =>
        owner[id] \in Reqs /\ pc[owner[id]] \in WorkPCs /\ Id(owner[id]) = id
  BY <1>1 DEF Held, WorkPCs
<1> SUFFICES ASSUME NEW id \in Ids, owner'[id] # NoReq
             PROVE  pc'[owner'[id]] \in WorkPCs /\ job'[owner'[id]].id = id
  BY DEF Held, WorkPCs, Id
<1>3. CASE End(r)
  <2>1. owner'[id] = owner[id] /\ owner[id] # r
    BY <1>1, <1>3 DEF End
  <2>2. pc'[owner[id]] = pc[owner[id]] /\ job'[owner[id]] = job[owner[id]]
    BY <1>2, <1>3, <2>1, EndType
  <2> QED BY <1>2, <2>1, <2>2 DEF Id
<1>4. CASE Lock(r)
  <2>1. /\ pc[r] \in LockPCs /\ job' = job /\ Goto(r, AfterLock(pc[r]))
        /\ owner' = IF Locking THEN [owner EXCEPT ![Id(r)] = r] ELSE owner
    BY <1>4 DEF Lock
  <2>2. AfterLock(pc[r]) \in WorkPCs /\ AfterLock(pc[r]) \in PCs /\ pc[r] \notin WorkPCs
    BY <2>1 DEF AfterLock, LockPCs, WorkPCs, HoldPCs, PatchPCs, GetPCs, FinishPCs, PCs, DeletePCs
  <2>3. pc'[r] \in WorkPCs /\ \A q \in Reqs : q # r => pc'[q] = pc[q]
    BY <2>1, <2>2, GotoType
  <2>4. CASE owner'[id] = owner[id]
    <3>1. owner[id] # r
      BY <1>2, <2>2, <2>4
    <3> QED BY <1>2, <2>1, <2>3, <2>4, <3>1 DEF Id
  <2>5. CASE owner'[id] # owner[id]
    <3>1. id = Id(r) /\ owner'[id] = r
      BY <1>1, <2>1, <2>5
    <3> QED BY <2>1, <2>3, <3>1 DEF Id
  <2> QED BY <2>4, <2>5
<1>5. CASE owner' = owner /\ Apart(r) /\ (pc[r] \notin WorkPCs \/ (pc'[r] \in WorkPCs /\ Id(r)' = Id(r)))
  BY <1>2, <1>5 DEF Apart, Id
<1> QED BY <1>3, <1>4, <1>5 DEF Respects

LEMMA PatchRespects == ASSUME TypeInv, NEW r \in Reqs, Patch(r) PROVE Respects(r)
<1>1. pc \in [Reqs -> PCs] /\ job \in [Reqs -> JobType]
  BY DEF TypeInv, Types
<1>2. /\ {"patch_write", "patch_declare", "patch_info", "patch_emit", "finish"} \subseteq WorkPCs
      /\ "idle" \notin WorkPCs
  BY DEF WorkPCs, HoldPCs, PatchPCs, GetPCs, FinishPCs
<1>3. ASSUME NEW id \in Ids, PatchArrive(r, id) PROVE Respects(r)
  BY <1>1, <1>2, <1>3 DEF PatchArrive, Arrive, Goto, Apart, Respects
<1>4. ASSUME PatchBadBody(r) PROVE Respects(r)
  BY <1>4 DEF PatchBadBody, Fail, Respects
<1>5. ASSUME NEW n \in Lengths, PatchLoad(r, n) PROVE Respects(r)
  <2>1. Apart(r) /\ pc'[r] \in WorkPCs /\ owner' = owner
    BY <1>1, <1>2, <1>5 DEF PatchLoad, See, Goto, Apart
  <2>2. Id(r)' = Id(r)
    BY <1>1, <1>5 DEF PatchLoad, See, Id, JobType
  <2> QED BY <2>1, <2>2 DEF Respects
<1>6. ASSUME NEW n \in Lengths, PatchDeclare(r, n) \/ PatchWrite(r, n) PROVE Respects(r)
  BY <1>1, <1>2, <1>6 DEF PatchDeclare, PatchWrite, Goto, Apart, Id, Respects
<1>7. ASSUME PatchInfo(r) PROVE Respects(r)
  <2>1. Apart(r) /\ pc'[r] \in WorkPCs /\ owner' = owner
    BY <1>1, <1>2, <1>7 DEF PatchInfo, See, Goto, Apart
  <2>2. Id(r)' = Id(r)
    BY <1>1, <1>7 DEF PatchInfo, See, Id, JobType
  <2> QED BY <2>1, <2>2 DEF Respects
<1>8. ASSUME PatchEmit(r) PROVE Respects(r)
  BY <1>1, <1>2, <1>8 DEF PatchEmit, Goto, Apart, Id, Respects
<1> QED BY <1>3, <1>4, <1>5, <1>6, <1>7, <1>8 DEF Patch

LEMMA ServeRespects == ASSUME TypeInv, NEW r \in Reqs, Get(r) \/ DeleteReq(r) PROVE Respects(r)
<1>1. pc \in [Reqs -> PCs] /\ job \in [Reqs -> JobType]
  BY DEF TypeInv, Types
<1>2. {"get_read", "delete_emit"} \subseteq WorkPCs /\ "idle" \notin WorkPCs /\ "delete_hook" \notin WorkPCs
  BY DEF WorkPCs, HoldPCs, PatchPCs, GetPCs, FinishPCs
<1>3. ASSUME NEW id \in Ids, GetArrive(r, id) \/ DeleteArrive(r, id) PROVE Respects(r)
  BY <1>1, <1>2, <1>3 DEF GetArrive, DeleteArrive, Arrive, Goto, Apart, Respects
<1>4. ASSUME GetLoad(r) PROVE Respects(r)
  <2>1. Apart(r) /\ pc'[r] \in WorkPCs /\ owner' = owner
    BY <1>1, <1>2, <1>4 DEF GetLoad, See, Goto, Apart
  <2>2. Id(r)' = Id(r)
    BY <1>1, <1>4 DEF GetLoad, See, Id, JobType
  <2> QED BY <2>1, <2>2 DEF Respects
<1>5. ASSUME GetRead(r) \/ DeleteEmit(r) PROVE Respects(r)
  BY <1>5 DEF GetRead, DeleteEmit, Fail, Respects
<1>6. ASSUME DeleteApproved(r) \/ DeleteRemove(r) PROVE Respects(r)
  BY <1>1, <1>2, <1>6 DEF DeleteApproved, DeleteRemove, Goto, Apart, Id, Respects
<1> QED BY <1>3, <1>4, <1>5, <1>6 DEF Get, DeleteReq

LEMMA PostRespects == ASSUME TypeInv, NEW r \in Reqs, Post(r) PROVE Respects(r)
<1>1. pc \in [Reqs -> PCs] /\ job \in [Reqs -> JobType]
  BY DEF TypeInv, Types
<1>2. pc[r] \in {"idle"} \union PostPCs => pc[r] \notin WorkPCs
  BY DEF WorkPCs, HoldPCs, PatchPCs, GetPCs, FinishPCs, PostPCs
<1>3. pc[r] \in {"idle"} \union PostPCs
  BY DEF Post, PostArrive, PostCreate, PostFetch, PostCollect, PostConcat, PostNoBody, PostBody,
         PostInfo, PostLook, PostRemove, PostEmit, PostReread, PostAnnounce, PostPCs
<1>4. End(r) \/ (owner' = owner /\ Apart(r))
  <2>1. CASE PostFetch(r) \/ PostEmit(r)
    BY <1>1, <2>1 DEF PostFetch, PostEmit, NextPartial, Goto, Apart
  <2>2. CASE PostCollect(r) \/ PostInfo(r) \/ PostReread(r)
    BY <1>1, <2>2 DEF PostCollect, PostInfo, PostReread, See, Goto, Apart
  <2>3. CASE PostConcat(r) \/ PostNoBody(r) \/ PostLook(r) \/ PostRemove(r) \/ PostAnnounce(r)
    BY <1>1, <2>3 DEF PostConcat, PostNoBody, PostLook, PostRemove, PostAnnounce, Goto, Apart
  <2>4. ASSUME NEW id \in Ids, PostCreate(r, id) PROVE owner' = owner /\ Apart(r)
    BY <1>1, <2>4 DEF PostCreate, Goto, Apart
  <2>5. ASSUME NEW n \in Lengths, PostBody(r, n) PROVE owner' = owner /\ Apart(r)
    BY <1>1, <2>5 DEF PostBody, Goto, Apart
  <2>6. ASSUME NEW size \in Sizes, NEW defer \in BOOLEAN, NEW kind \in Kinds,
               NEW list \in FinalLists, PostArrive(r, size, defer, kind, list)
        PROVE  owner' = owner /\ Apart(r)
    BY <1>1, <2>6 DEF PostArrive, See, Goto, Apart
  <2> QED BY <2>1, <2>2, <2>3, <2>4, <2>5, <2>6 DEF Post
<1> QED BY <1>2, <1>3, <1>4 DEF Respects

LEMMA SharedRespects == ASSUME TypeInv, NEW r \in Reqs, Shared(r) PROVE Respects(r)
<1>1. pc \in [Reqs -> PCs] /\ "finalize" \in WorkPCs
  BY DEF TypeInv, Types, WorkPCs, FinishPCs
<1>2. CASE Finish(r)
  BY <1>1, <1>2 DEF Finish, Goto, Apart, Id, Respects
<1> QED BY <1>2 DEF Shared, LockTimeout, Cancel, Refuse, Fail, Finalize, Respects

LEMMA HeldStep == ASSUME TypeInv, Held, [Next]_vars PROVE Held'
<1>1. CASE UNCHANGED vars
  BY <1>1 DEF vars, Held, Id
<1>2. ASSUME NEW r \in Reqs, Post(r) \/ Patch(r) \/ Get(r) \/ DeleteReq(r) \/ Shared(r) PROVE Held'
  BY <1>2, PostRespects, PatchRespects, ServeRespects, SharedRespects, HeldKeeps
<1>3. ASSUME NEW r \in Reqs, NEW id \in Ids, HeadRequest(r, id) PROVE Held'
  BY <1>3 DEF HeadRequest, Held, Id
<1>4. ASSUME NEW id \in Ids, Expire(id) PROVE Held'
  BY <1>4 DEF Expire, Held, Id
<1> QED BY <1>1, <1>2, <1>3, <1>4 DEF Next

(* handler/*.rs: whatever the requests, the interleaving and the options,  *)
(* no handler uses an upload it has not read, an ID it was not given or a  *)
(* partial outside its list; the store, the lock table and the locals keep *)
(* their types; and a lock is held by a handler at work on its upload, so  *)
(* none is left behind by an answer, a timeout or a dropped future.        *)
THEOREM Typing == Spec => []TypeOK
<1>1. Init => TypeInv /\ Held
  BY TypeInit DEF Init, Held
<1>2. TypeInv /\ Held /\ [Next]_vars => TypeInv' /\ Held'
  BY TypeStep, HeldStep
<1>3. TypeInv /\ Held => TypeOK
  BY DEF TypeInv, TypeOK
<1> QED BY <1>1, <1>2, <1>3, PTL DEF Spec

-----------------------------------------------------------------------------
(* What a step of one request leaves to the others. *)

Others(r) ==
  \A q \in Reqs : q # r =>
    /\ pc'[q] = pc[q] /\ job'[q] = job[q]
    /\ \A id \in Ids : owner[id] = q => owner'[id] = q

(* A request changes an upload that nobody had, that it makes, that it has *)
(* locked, or, by cleanup, that it deletes.                                *)
Effect(r) ==
  /\ known \subseteq known' /\ used \subseteq used'
  /\ \A id \in known' : id \in known \/ (id = Id(r) /\ Making(r))
  /\ Id(r)' \in {Id(r), NoId} \union known \union (Ids \ used)
  /\ \A id \in Ids :
       \/ store'[id] = store[id]
       \/ id \notin used
       \/ id = Id(r) /\ Making(r)
       \/ /\ id = Id(r) /\ id \in known /\ owner[id] = r /\ Exists(id)
          /\ Good(id) => store'[id] = NoUpload
       \/ id \in known /\ store'[id] = NoUpload /\ On("cleanup-concat-partials")

LEMMA Undisturbed ==
  ASSUME Deployment, Inv, NEW r \in Reqs, Others(r), Effect(r)
  PROVE  /\ \A p \in known : Good(p) =>
              Good(p)' /\ (store'[p] = store[p] \/ store'[p] = NoUpload)
         /\ \A id \in used : ~Exists(id) => ~Exists(id)'
         /\ \A u \in Uploads : Planned(u) => Planned(u)'
         /\ \A q \in Reqs : q # r =>
              /\ Making(q) => store'[Id(q)] = store[Id(q)] /\ Id(q) \notin known'
              /\ Id(q) \in known /\ owner[Id(q)] = q =>
                   /\ owner'[Id(q)] = q
                   /\ \/ store'[Id(q)] = store[Id(q)]
                      \/ store'[Id(q)] = NoUpload /\ On("cleanup-concat-partials")
<1>1. /\ known \subseteq Ids /\ used \subseteq Ids /\ known \subseteq used
      /\ \A q \in Reqs : Making(q) => Id(q) \in used /\ Exists(Id(q))
                                       /\ \A p \in Reqs : Id(p) = Id(q) => p = q
  BY DEF Inv, TypeInv, Types, Global, Registered, Local, Private
<1>2. \A q \in Reqs : Making(q) => Id(q) \notin known
  BY DEF Making
<1>3. ASSUME NEW p \in known, Good(p)
      PROVE  Good(p)' /\ (store'[p] = store[p] \/ store'[p] = NoUpload)
  <2>1. p \in Ids /\ p \in used /\ p \in known'
    BY <1>1 DEF Effect
  <2>2. store'[p] = store[p] \/ store'[p] = NoUpload
    BY <1>1, <1>2, <1>3, <2>1 DEF Effect
  <2> QED BY <1>3, <2>1, <2>2 DEF Good, Exists
<1>4. ASSUME NEW id \in used, ~Exists(id) PROVE ~Exists(id)'
  BY <1>1, <1>4 DEF Effect, Exists
<1>5. ASSUME NEW u \in Uploads, Planned(u) PROVE Planned(u)'
  BY <1>5 DEF Planned, Effect
<1>6. ASSUME NEW q \in Reqs, q # r, Making(q)
      PROVE  store'[Id(q)] = store[Id(q)] /\ Id(q) \notin known'
  <2>1. Id(q) \in Ids /\ Id(q) \in used /\ Id(q) \notin known /\ Id(q) # Id(r)
    BY <1>1, <1>2, <1>6
  <2> QED BY <2>1 DEF Effect
<1>7. ASSUME NEW q \in Reqs, q # r, Id(q) \in known, owner[Id(q)] = q
      PROVE  /\ owner'[Id(q)] = q
             /\ \/ store'[Id(q)] = store[Id(q)]
                \/ store'[Id(q)] = NoUpload /\ On("cleanup-concat-partials")
  <2>1. Id(q) \in Ids /\ Id(q) \in used
    BY <1>1, <1>7
  <2>2. ~(Id(q) = Id(r) /\ Making(r))
    BY <1>2, <1>7
  <2>3. owner'[Id(q)] = q
    BY <1>7, <2>1 DEF Others
  <2> QED BY <1>7, <2>1, <2>2, <2>3 DEF Effect
<1> QED BY <1>3, <1>4, <1>5, <1>6, <1>7

(* Partials that are still there have not changed, nor has what they make. *)
LEMMA JoinedKeeps ==
  ASSUME NEW list \in Seq(Ids),
         \A p \in ToSet(list) : store'[p] = store[p] \/ store'[p] = NoUpload,
         \A p \in ToSet(list) : store'[p] # NoUpload
  PROVE  /\ AllExist(list)
         /\ FlattenSeq([i \in DOMAIN list |-> store'[list[i]].data]) = Joined(list)
<1>1. \A i \in DOMAIN list : list[i] \in ToSet(list)
  BY DEF ToSet
<1>2. \A p \in ToSet(list) : store'[p] = store[p] /\ Exists(p)
  BY DEF Exists
<1>3. [i \in DOMAIN list |-> store'[list[i]].data] = [i \in DOMAIN list |-> store[list[i]].data]
  BY <1>1, <1>2
<1> QED BY <1>2, <1>3 DEF AllExist, Joined

LEMMA OthersKeep ==
  ASSUME Deployment, Inv, NEW r \in Reqs, Others(r), Effect(r), NEW q \in Reqs, q # r
  PROVE  Local(q)'
<1> DEFINE id == Id(q)
<1>1. /\ pc'[q] = pc[q] /\ job'[q] = job[q] /\ Id(q)' = Id(q)
      /\ Partials(q)' = Partials(q) /\ Partial(q)' = Partial(q)
  BY DEF Others, Id, Partials, Partial
<1>2. Local(q) /\ Typed(q) /\ Types /\ Registered
  BY DEF Inv, TypeInv, Global
<1>3. /\ \A p \in known : Good(p) =>
           Good(p)' /\ (store'[p] = store[p] \/ store'[p] = NoUpload)
      /\ \A i \in used : ~Exists(i) => ~Exists(i)'
      /\ \A u \in Uploads : Planned(u) => Planned(u)'
      /\ Making(q) => store'[id] = store[id] /\ id \notin known'
      /\ id \in known /\ owner[id] = q =>
           /\ owner'[id] = q
           /\ \/ store'[id] = store[id]
              \/ store'[id] = NoUpload /\ On("cleanup-concat-partials")
  BY Undisturbed
<1>4. known \subseteq known' /\ used \subseteq used'
      /\ \A i \in known' : i \in known \/ (i = Id(r) /\ Making(r))
  BY DEF Effect
<1>5. pc[q] \in MakePCs => Making(q)
  BY <1>2 DEF Local, Owned, Making
<1>6. Owned(q)'
  <2>1. pc[q] \in FinishPCs /\ id \in known' => id \in known
    BY <1>3 DEF Making
  <2> QED BY <1>1, <1>2, <1>3, <1>4, <1>5, <2>1 DEF Local, Owned
<1>7. Making(q)' => Making(q)
  BY <1>1, <1>4 DEF Making
<1>8. Private(q)'
  <2> SUFFICES ASSUME Making(q)'
               PROVE  /\ id \in used' /\ store'[id] # NoUpload
                      /\ \A p \in Reqs : Id(p)' = id => p = q
    BY <1>1 DEF Private, Exists
  <2>1. Making(q) /\ id \in used /\ Exists(id) /\ \A p \in Reqs : Id(p) = id => p = q
    BY <1>2, <1>7 DEF Local, Private
  <2>2. store'[id] # NoUpload /\ id \in used'
    BY <1>3, <1>4, <2>1 DEF Exists
  <2>3. ASSUME NEW p \in Reqs, Id(p)' = id PROVE p = q
    <3>1. id \in Ids /\ id \notin known /\ id # NoId
      BY <1>2, <2>1, HandlerAssumption DEF Types, Making
    <3>2. CASE p = r
      BY <2>1, <2>3, <3>1, <3>2 DEF Effect
    <3>3. CASE p # r
      BY <2>1, <2>3, <3>3 DEF Others, Id
    <3> QED BY <3>2, <3>3
  <2> QED BY <2>2, <2>3
<1>9. Planning(q)'
  <2>1. pc[q] = "post_create" => job[q].seen \in Uploads
    BY <1>2 DEF Typed, PostPCs
  <2> QED BY <1>1, <1>2, <1>3, <2>1 DEF Local, Planning
<1>10. ASSUME Making(q)
       PROVE  /\ Current(q)' = Current(q) /\ Current(q) \in Uploads
              /\ Current(q).partials \in Seq(Ids)
              /\ \A p \in ToSet(Current(q).partials) :
                   p \in known /\ p \in used
  <2>1. id \in Ids /\ Exists(id) /\ store'[id] = store[id]
    BY <1>2, <1>3, <1>10 DEF Local, Private, Types
  <2>2. Current(q) \in Uploads /\ Planned(Current(q))
    BY <1>2, <2>1 DEF Registered, Current, Types, StoreTypeOK, Exists
  <2> QED BY <1>1, <1>2, <2>1, <2>2 DEF Current, Planned, Registered, Uploads
<1>11. Building(q)'
  <2> SUFFICES ASSUME pc[q] \in MakePCs PROVE Building(q)'
    BY <1>1 DEF Building, MakePCs, PostPCs
  <2>1. /\ Making(q) /\ Current(q)' = Current(q) /\ Building(q)
        /\ Partials(q) = Current(q).partials
    BY <1>2, <1>5, <1>10 DEF Local, Building
  <2>2. ASSUME pc[q] = "post_fetch", NEW i \in 1..(job[q].k - 1) PROVE Good(Partials(q)[i])'
    <3>1. Good(Partials(q)[i])
      BY <2>1, <2>2 DEF Building
    <3>2. Partials(q)[i] \in known
      BY <3>1 DEF Good
    <3> QED BY <1>1, <1>3, <3>1, <3>2 DEF Good, Exists
  <2>3. ASSUME pc[q] = "post_emit" PROVE ~Exists(Partial(q))'
    <3>1. ~Exists(Partial(q)) /\ job[q].k \in 1..Len(Partials(q))
      BY <2>1, <2>3 DEF Building
    <3>2. Partial(q) \in ToSet(Current(q).partials)
      BY <1>5, <1>10, <2>1, <3>1 DEF Partial, ToSet
    <3> QED BY <1>1, <1>3, <1>5, <1>10, <2>1, <3>1, <3>2 DEF Exists
  <2> QED BY <1>1, <2>1, <2>2, <2>3 DEF Building
<1>12. Gathering(q)'
  <2> SUFFICES ASSUME Making(q), Current(q).kind = "final", pc[q] # "post_fetch"
               PROVE  Gathering(q)'
    BY <1>1, <1>7, <1>10 DEF Gathering
  <2>1. /\ Current(q)' = Current(q) /\ Gathering(q) /\ Current(q).partials \in Seq(Ids)
    BY <1>2, <1>10 DEF Local
  <2> DEFINE list == Current(q).partials
  <2>2. list' = list
    BY <2>1
  <2>3. ASSUME NEW p \in ToSet(list)
        PROVE  /\ Good(p) /\ Good(p)' /\ (store'[p] = store[p] \/ store'[p] = NoUpload)
    BY <1>3, <1>10, <2>1, <2>3 DEF Gathering
  <2>4. CASE pc[q] = "post_collect"
    BY <1>1, <2>2, <2>3, <2>4 DEF Gathering
  <2>5. CASE pc[q] # "post_collect"
    <3>1. ASSUME NEW p \in ToSet(list), Exists(p)' PROVE Within(store'[p].data, job[q].buf)
      BY <2>1, <2>3, <2>5, <3>1 DEF Gathering, Exists
    <3>2. ASSUME AllExist(list)' PROVE job[q].buf = Joined(list)'
      <4>1. \A p \in ToSet(list) : store'[p] = store[p] \/ store'[p] = NoUpload
        BY <2>3
      <4> HIDE DEF list
      <4>2. (\A p \in ToSet(list) : store'[p] # NoUpload) /\ list \in Seq(Ids)
        BY <2>1, <2>2, <3>2 DEF list, AllExist, Exists
      <4>3. /\ AllExist(list)
            /\ FlattenSeq([i \in DOMAIN list |-> store'[list[i]].data]) = Joined(list)
        BY <4>1, <4>2, JoinedKeeps
      <4>4. Joined(list)' = Joined(list)
        BY <2>2, <4>3 DEF Joined
      <4> QED BY <2>1, <2>5, <4>3, <4>4 DEF Gathering, list
    <3>3. pc[q] # "post_concat" => Current(q).data = job[q].buf
      BY <2>1, <2>5 DEF Gathering
    <3> QED BY <1>1, <2>1, <2>2, <2>3, <3>1, <3>2, <3>3 DEF Gathering
  <2> QED BY <2>4, <2>5
<1>13. Based(q)'
  <2> SUFFICES ASSUME pc[q] \in {"patch_declare", "patch_write"}, Exists(Id(q))'
               PROVE  job[q].seen.offset = Current(q)'.offset /\ Current(q)'.kind # "final"
    BY <1>1 DEF Based
  <2>1. id \in known /\ owner[id] = q
    BY <1>2 DEF Local, Owned, HoldPCs, PatchPCs
  <2>2. store'[id] = store[id]
    BY <1>1, <1>3, <2>1 DEF Exists
  <2> QED BY <1>1, <1>2, <2>2 DEF Local, Based, Exists, Current
<1>14. Reread(q)'
  <2>1. /\ pc[q] \in MakePCs \/ pc[q] \in PatchPCs \/ pc[q] \in FinishPCs \/ pc[q] = "delete_emit"
             => \/ store'[id] = store[id]
                \/ On("cleanup-concat-partials") /\ store'[id] = NoUpload
    BY <1>2, <1>3, <1>5 DEF Local, Owned, HoldPCs, Making
  <2>2. pc[q] = "delete_emit" => id \in used
    BY <1>2 DEF Local, Owned, HoldPCs, Registered
  <2>3. pc[q] \in {"patch_emit", "finish", "finalize", "post_look", "post_remove",
                   "post_emit", "post_reread", "post_announce", "patch_declare", "patch_write",
                   "patch_info"} \union FinishPCs
          => pc[q] \in MakePCs \/ pc[q] \in PatchPCs \/ pc[q] \in FinishPCs
    BY DEF MakePCs, PostPCs, PatchPCs, FinishPCs
  <2>4. Reread(q)
    BY <1>2 DEF Local
  <2> HIDE DEF id
  <2>5. store'[id] = store[id] \/ store'[id] = NoUpload \/ pc[q] \notin MakePCs \union PatchPCs \union FinishPCs \union {"delete_emit"}
    BY <2>1
  <2> QED BY <1>1, <1>3, <2>1, <2>2, <2>3, <2>4, <2>5 DEF Reread, Exists, Current, id
<1> QED BY <1>6, <1>8, <1>9, <1>11, <1>12, <1>13, <1>14 DEF Local

-----------------------------------------------------------------------------
(* Steps that change no upload. *)

LEMMA EndFacts ==
  ASSUME TypeInv, NEW r \in Reqs, End(r)
  PROVE  Others(r) /\ Local(r)' /\ Id(r)' = NoId
<1>1. /\ pc'[r] = "idle" /\ job'[r] = Blank
      /\ \A q \in Reqs : q # r => pc'[q] = pc[q] /\ job'[q] = job[q]
  BY EndType
<1>2. \A q \in Reqs, id \in Ids : q # r /\ owner[id] = q => owner'[id] = q
  BY DEF End
<1>3. Id(r)' = NoId
  BY <1>1 DEF Id, Blank
<1>4. Others(r)
  BY <1>1, <1>2 DEF Others
<1>5. Local(r)'
  BY <1>1
  DEF Local, Owned, Private, Making, Planning, Building, Gathering, Based, Reread,
      LockPCs, HoldPCs, PatchPCs, GetPCs, FinishPCs, MakePCs, PostPCs
<1> QED BY <1>3, <1>4, <1>5

LEMMA InvKeeps ==
  ASSUME Deployment, Inv, TypeInv', NEW r \in Reqs, Others(r), Effect(r), Local(r)', Global'
  PROVE  Inv'
<1>1. ASSUME NEW q \in Reqs PROVE Local(q)'
  <2>1. CASE q = r
    BY <2>1
  <2>2. CASE q # r
    BY <2>2, OthersKeep
  <2> QED BY <2>1, <2>2
<1> QED BY <1>1 DEF Inv

LEMMA QuietKeeps ==
  ASSUME Deployment, Inv, TypeInv', NEW r \in Reqs, Others(r), Local(r)',
         Id(r)' \in {Id(r), NoId} \union known,
         UNCHANGED <<store, used, observed>>
  PROVE  Inv'
<1>1. UNCHANGED <<store, used, known, reported, lastEvent>>
  BY DEF observed
<1>2. Effect(r)
  BY <1>1 DEF Effect
<1>3. Global'
  BY <1>1
  DEF Inv, Global, Registered, Exists, Planned, OffsetCountsBytes, ReportedBytesKept,
      FinalsJoined, Good, AllExist, Joined
<1> QED BY <1>2, <1>3, InvKeeps

LEMMA FailKeeps == ASSUME Deployment, Inv, NEW r \in Reqs, Fail(r) PROVE Inv'
<1>1. TypeInv /\ End(r) /\ UNCHANGED <<store, used, observed>>
  BY DEF Inv, Fail
<1> QED BY <1>1, EndFacts, FailType, QuietKeeps

(* A step that reads or decides: the request goes on, its lock stays.      *)
LEMMA StayKeeps ==
  ASSUME Deployment, Inv, TypeInv', NEW r \in Reqs, NEW l \in PCs, Goto(r, l), Local(r)',
         \A q \in Reqs : q # r => job'[q] = job[q],
         Id(r)' \in {Id(r), NoId} \union known,
         UNCHANGED <<store, owner, used, observed>>
  PROVE  Inv'
<1>1. Others(r)
  BY GotoType DEF Others, Inv
<1> QED BY <1>1, QuietKeeps

(* A request that serves an upload it did not make. *)
LEMMA ServeLocal ==
  ASSUME NEW r \in Reqs, NEW l \in LockPCs \union HoldPCs \union {"delete_hook"},
         pc'[r] = l, Id(r)' \in known', l \in HoldPCs => owner'[Id(r)'] = r,
         Based(r)', Reread(r)'
  PROVE  Local(r)'
<1>1. l \notin PostPCs /\ l \notin FinishPCs /\ l # "post_create" /\ l # "idle"
  BY DEF LockPCs, HoldPCs, PatchPCs, GetPCs, PostPCs, FinishPCs
<1>2. Owned(r)' /\ Private(r)' /\ Planning(r)'
  BY <1>1 DEF Owned, Private, Making, Planning, MakePCs
<1>3. Building(r)'
  BY <1>1 DEF Building, MakePCs, PostPCs
<1>4. Gathering(r)'
  BY <1>1 DEF Gathering, Making, MakePCs
<1> QED BY <1>2, <1>3, <1>4 DEF Local

LEMMA ArriveKeeps ==
  ASSUME Deployment, Inv, TypeInv', NEW r \in Reqs, NEW id \in Ids,
         NEW l \in LockPCs \union {"delete_hook"}, Arrive(r, id, l)
  PROVE  Inv'
<1>1. /\ Goto(r, l) /\ job' = [job EXCEPT ![r].id = id] /\ id \in known
      /\ UNCHANGED <<store, owner, expired, used, observed>>
  BY DEF Arrive, Deployment
<1>2. /\ job'[r].id = id /\ \A q \in Reqs : q # r => job'[q] = job[q]
  BY <1>1 DEF Inv, TypeInv, Types, JobType
<1>3. l \in PCs /\ l \notin HoldPCs
  BY DEF PCs, LockPCs, DeletePCs, HoldPCs, PatchPCs, GetPCs
<1>4. pc'[r] = l
  BY <1>1, <1>3, GotoType DEF Inv
<1>5. Based(r)' /\ Reread(r)'
  BY <1>4 DEF Based, Reread, LockPCs, FinishPCs
<1>6. Local(r)'
  BY <1>1, <1>2, <1>3, <1>4, <1>5, ServeLocal DEF observed, Id
<1> QED BY <1>1, <1>2, <1>3, <1>6, StayKeeps DEF Id

LEMMA PatchLoadKeeps ==
  ASSUME Deployment, Inv, TypeInv', NEW r \in Reqs, NEW n \in Lengths, PatchLoad(r, n)
  PROVE  Inv'
<1>1. /\ pc[r] = "patch_load" /\ Exists(Id(r)) /\ PatchAccepts(r, n)
      /\ See(r, [Current(r) EXCEPT !.offset = n])
      /\ UNCHANGED <<store, owner, expired, used, observed>>
  BY DEF PatchLoad
<1>2. TypeInv /\ Types /\ Id(r) \in Ids /\ Id(r) \in known /\ owner[Id(r)] = r
  BY <1>1 DEF Inv, TypeInv, Types, Local, Owned, HoldPCs, PatchPCs
<1>3. n \in Nat /\ Current(r) \in Uploads
  BY <1>1, <1>2, ChunkFacts DEF Types, StoreTypeOK, Exists, Current
<1>4. [Current(r) EXCEPT !.offset = n] \in Uploads
  BY <1>3, UploadFacts
<1>5. /\ job'[r].seen = [Current(r) EXCEPT !.offset = n] /\ job'[r].id = job[r].id
      /\ \A q \in Reqs : q # r => job'[q] = job[q]
  BY <1>1, <1>2, <1>4, SeeType
<1>6. PICK l \in {"patch_write", "patch_declare"} : Goto(r, l)
  BY DEF PatchLoad
<1>7. l \in PCs /\ l \in HoldPCs
  BY DEF PCs, PatchPCs, HoldPCs
<1>8. pc'[r] = l
  BY <1>2, <1>6, <1>7, GotoType
<1>9. Based(r)'
  BY <1>1, <1>3, <1>5, <1>8 DEF Based, PatchAccepts, Current, Id, Uploads
<1>10. Reread(r)'
  BY <1>1, <1>5, <1>8 DEF Reread, Exists, Id, FinishPCs
<1>11. Local(r)'
  BY <1>1, <1>2, <1>5, <1>7, <1>8, <1>9, <1>10, ServeLocal DEF observed, Id
<1> QED BY <1>1, <1>5, <1>6, <1>7, <1>11, StayKeeps DEF Id

LEMMA PatchInfoKeeps ==
  ASSUME Deployment, Inv, TypeInv', NEW r \in Reqs, PatchInfo(r)
  PROVE  Inv'
<1>1. /\ pc[r] = "patch_info" /\ Exists(Id(r)) /\ See(r, Current(r)) /\ Goto(r, "patch_emit")
      /\ UNCHANGED <<store, owner, expired, used, observed>>
  BY DEF PatchInfo
<1>2. TypeInv /\ Types /\ Id(r) \in Ids /\ Id(r) \in known /\ owner[Id(r)] = r
  BY <1>1 DEF Inv, TypeInv, Types, Local, Owned, HoldPCs, PatchPCs
<1>3. Current(r) \in Uploads
  BY <1>1, <1>2 DEF Types, StoreTypeOK, Exists, Current
<1>4. /\ job'[r].seen = Current(r) /\ job'[r].id = job[r].id
      /\ \A q \in Reqs : q # r => job'[q] = job[q]
  BY <1>1, <1>2, <1>3, SeeType
<1>5. "patch_emit" \in PCs /\ "patch_emit" \in HoldPCs
  BY DEF PCs, PatchPCs, HoldPCs
<1>6. pc'[r] = "patch_emit"
  BY <1>1, <1>2, <1>5, GotoType
<1>7. Based(r)' /\ Reread(r)'
  BY <1>1, <1>4, <1>6 DEF Based, Reread, Exists, Current, Id
<1>8. Local(r)'
  BY <1>1, <1>2, <1>4, <1>5, <1>6, <1>7, ServeLocal DEF observed, Id
<1> QED BY <1>1, <1>4, <1>5, <1>8, StayKeeps DEF Id

LEMMA GetLoadKeeps ==
  ASSUME Deployment, Inv, TypeInv', NEW r \in Reqs, GetLoad(r)
  PROVE  Inv'
<1>1. /\ pc[r] = "get_load" /\ Exists(Id(r)) /\ See(r, Current(r)) /\ Goto(r, "get_read")
      /\ UNCHANGED <<store, owner, expired, used, observed>>
  BY DEF GetLoad
<1>2. TypeInv /\ Types /\ Id(r) \in Ids /\ Id(r) \in known /\ owner[Id(r)] = r
  BY <1>1 DEF Inv, TypeInv, Types, Local, Owned, HoldPCs, GetPCs
<1>3. Current(r) \in Uploads
  BY <1>1, <1>2 DEF Types, StoreTypeOK, Exists, Current
<1>4. /\ job'[r].seen = Current(r) /\ job'[r].id = job[r].id
      /\ \A q \in Reqs : q # r => job'[q] = job[q]
  BY <1>1, <1>2, <1>3, SeeType
<1>5. "get_read" \in PCs /\ "get_read" \in HoldPCs
  BY DEF PCs, GetPCs, HoldPCs
<1>6. pc'[r] = "get_read"
  BY <1>1, <1>2, <1>5, GotoType
<1>7. Based(r)' /\ Reread(r)'
  BY <1>6 DEF Based, Reread, FinishPCs
<1>8. Local(r)'
  BY <1>1, <1>2, <1>4, <1>5, <1>6, <1>7, ServeLocal DEF observed, Id
<1> QED BY <1>1, <1>4, <1>5, <1>8, StayKeeps DEF Id

LEMMA DeleteApprovedKeeps ==
  ASSUME Deployment, Inv, TypeInv', NEW r \in Reqs, DeleteApproved(r)
  PROVE  Inv'
<1>1. /\ pc[r] = "delete_hook" /\ Goto(r, "delete_lock")
      /\ UNCHANGED <<store, owner, job, expired, used, observed>>
  BY DEF DeleteApproved
<1>2. TypeInv /\ Id(r) \in known
  BY <1>1 DEF Inv, Local, Owned
<1>3. "delete_lock" \in PCs /\ "delete_lock" \in LockPCs /\ "delete_lock" \notin HoldPCs
  BY DEF PCs, LockPCs, HoldPCs, PatchPCs, GetPCs
<1>4. pc'[r] = "delete_lock"
  BY <1>1, <1>2, <1>3, GotoType
<1>5. Based(r)' /\ Reread(r)'
  BY <1>4 DEF Based, Reread, FinishPCs
<1>6. Local(r)'
  BY <1>1, <1>2, <1>3, <1>4, <1>5, ServeLocal DEF observed, Id
<1> QED BY <1>1, <1>3, <1>6, StayKeeps DEF Id

(* The lock is taken by nobody else, and given by nobody else.             *)
LEMMA LockKeeps ==
  ASSUME Deployment, Inv, TypeInv', NEW r \in Reqs, Lock(r)
  PROVE  Inv'
<1>1. /\ pc[r] \in LockPCs /\ owner[Id(r)] = NoReq /\ owner' = [owner EXCEPT ![Id(r)] = r]
      /\ Goto(r, AfterLock(pc[r]))
      /\ UNCHANGED <<store, job, expired, used, observed>>
  BY DEF Lock, Deployment
<1>2. TypeInv /\ Types /\ Id(r) \in known /\ Id(r) \in Ids
  BY <1>1 DEF Inv, TypeInv, Types, Local, Owned
<1>3. /\ AfterLock(pc[r]) \in PCs /\ AfterLock(pc[r]) \in HoldPCs
      /\ AfterLock(pc[r]) \in {"patch_load", "get_load", "delete_remove"}
  BY <1>1 DEF LockPCs, AfterLock, PCs, PatchPCs, GetPCs, DeletePCs, HoldPCs
<1> DEFINE l == AfterLock(pc[r])
<1> HIDE DEF l
<1>4. pc'[r] = l /\ \A q \in Reqs : q # r => pc'[q] = pc[q]
  BY <1>1, <1>2, <1>3, GotoType DEF l
<1>5. /\ owner'[Id(r)] = r
      /\ \A q \in Reqs, id \in Ids : q # r /\ owner[id] = q => owner'[id] = q
  BY <1>1, <1>2, HandlerAssumption DEF Types
<1>6. Others(r)
  BY <1>1, <1>4, <1>5 DEF Others
<1>7. Based(r)' /\ Reread(r)'
  BY <1>3, <1>4 DEF Based, Reread, FinishPCs, l
<1>8. Local(r)'
  BY <1>1, <1>2, <1>3, <1>4, <1>5, <1>7, ServeLocal DEF observed, Id, l
<1> QED BY <1>1, <1>6, <1>8, QuietKeeps DEF Id

-----------------------------------------------------------------------------
(* A request that makes an upload and goes on.                             *)
LEMMA MakerFacts ==
  ASSUME Inv, NEW r \in Reqs, Making(r)
  PROVE  /\ Id(r) \in Ids /\ Id(r) \in used /\ Id(r) \notin known /\ Exists(Id(r))
         /\ Current(r) \in Uploads /\ Planned(Current(r))
         /\ Current(r).partials \in Seq(Ids)
         /\ job[r].seen \in Uploads /\ job[r] \in JobType
         /\ \A q \in Reqs : Id(q) = Id(r) => q = r
<1>1. /\ Id(r) \in used /\ Exists(Id(r)) /\ used \subseteq Ids
      /\ Id(r) \notin known /\ \A q \in Reqs : Id(q) = Id(r) => q = r
  BY DEF Inv, TypeInv, Types, Local, Private, Making
<1>2. Current(r) \in Uploads /\ Planned(Current(r))
  BY <1>1 DEF Inv, TypeInv, Types, StoreTypeOK, Global, Registered, Exists, Current
<1>3. job[r].seen \in Uploads /\ job[r] \in JobType
  BY DEF Inv, TypeInv, Types, Typed, Making, MakePCs
<1> QED BY <1>1, <1>2, <1>3 DEF Uploads

LEMMA MakerStays ==
  ASSUME Inv, NEW r \in Reqs, Making(r), NEW l \in MakePCs \union FinishPCs, pc'[r] = l,
         Others(r), job'[r].id = job[r].id,
         store'[Id(r)] # NoUpload, known' = known, used' = used
  PROVE  Owned(r)' /\ Private(r)' /\ Planning(r)' /\ Based(r)' /\ Making(r)'
<1>1. /\ Id(r) \in Ids /\ Id(r) \in used /\ Id(r) \notin known
      /\ \A q \in Reqs : Id(q) = Id(r) => q = r
  BY MakerFacts
<1>2. l \notin LockPCs \union HoldPCs \union {"delete_hook", "post_create"}
  BY DEF LockPCs, HoldPCs, PatchPCs, GetPCs, MakePCs, PostPCs, FinishPCs
<1>3. Id(r)' = Id(r) /\ \A q \in Reqs : Id(q)' = Id(q)
  BY DEF Id, Others
<1>4. Owned(r)'
  BY <1>1, <1>2, <1>3 DEF Owned
<1>5. Private(r)'
  BY <1>1, <1>3 DEF Private, Exists
<1>6. Planning(r)' /\ Based(r)'
  BY <1>2 DEF Planning, Based, HoldPCs, PatchPCs
<1>7. Making(r)'
  BY <1>1, <1>3 DEF Making
<1> QED BY <1>4, <1>5, <1>6, <1>7

LEMMA FinishKeeps ==
  ASSUME Deployment, Inv, TypeInv', NEW r \in Reqs, Finish(r)
  PROVE  Inv'
<1>1. /\ pc[r] = "finish" /\ Goto(r, "finalize")
      /\ UNCHANGED <<store, owner, job, expired, used, known>>
      /\ UNCHANGED <<store, owner, used, observed>>
  BY DEF Finish, observed
<1>2. TypeInv /\ Local(r) /\ "finalize" \in PCs /\ "finalize" \in FinishPCs
  BY DEF Inv, PCs, FinishPCs
<1>3. /\ pc'[r] = "finalize" /\ Id(r)' = Id(r) /\ Current(r)' = Current(r)
      /\ \A q \in Reqs : q # r => pc'[q] = pc[q]
  BY <1>1, <1>2, GotoType DEF Id, Current
<1>4. Others(r)
  BY <1>1, <1>3 DEF Others
<1>5. "finalize" \notin LockPCs \union HoldPCs \union MakePCs \union {"delete_hook", "post_create"}
  BY DEF LockPCs, HoldPCs, PatchPCs, GetPCs, MakePCs, PostPCs
<1>6. Owned(r)' /\ Planning(r)' /\ Based(r)' /\ Building(r)'
  BY <1>1, <1>2, <1>3, <1>5 DEF Local, Owned, Planning, Based, Building, FinishPCs
<1>7. Making(r)' => Making(r)
  BY <1>1, <1>3 DEF Making, FinishPCs
<1>8. Private(r)'
  <2> SUFFICES ASSUME Making(r) PROVE Private(r)'
    BY <1>7 DEF Private
  <2> QED BY <1>1, <1>2, <1>3, <1>4, MakerStays, MakerFacts DEF Exists
<1>9. Gathering(r)'
  <2>1. Making(r)' => Gathering(r) /\ Making(r)
    BY <1>2, <1>7 DEF Local
  <2> QED BY <1>1, <1>3, <2>1 DEF Gathering, Good, Exists, AllExist, Joined
<1>10. Reread(r)'
  BY <1>1, <1>2, <1>3 DEF Local, Reread, Exists, FinishPCs
<1>11. Local(r)'
  BY <1>6, <1>8, <1>9, <1>10 DEF Local
<1> QED BY <1>1, <1>2, <1>3, <1>11, StayKeeps

(* The request has read its own upload again, or not looked at it.         *)
LEMMA PostMoveKeeps ==
  ASSUME Deployment, Inv, TypeInv', NEW r \in Reqs, pc[r] \in MakePCs,
         NEW l \in MakePCs, Goto(r, l),
         \A q \in Reqs : q # r => job'[q] = job[q],
         job'[r].id = job[r].id,
         UNCHANGED <<store, owner, used, observed>>,
         Building(r)', Gathering(r)', Reread(r)'
  PROVE  Inv'
<1>1. TypeInv /\ l \in PCs /\ Making(r)
  BY DEF Inv, Local, Owned, Making, MakePCs, PCs
<1>2. pc'[r] = l /\ \A q \in Reqs : q # r => pc'[q] = pc[q]
  BY <1>1, GotoType
<1>3. Others(r)
  BY <1>2 DEF Others
<1>4. UNCHANGED <<store, used, known>> /\ Id(r)' = Id(r)
  BY DEF observed, Id
<1>5. Owned(r)' /\ Private(r)' /\ Planning(r)' /\ Based(r)'
  BY <1>1, <1>2, <1>3, <1>4, MakerStays, MakerFacts DEF Exists
<1>6. Local(r)'
  BY <1>5 DEF Local
<1> QED BY <1>1, <1>4, <1>6, StayKeeps

LEMMA PostFetchKeeps ==
  ASSUME Deployment, Inv, TypeInv', NEW r \in Reqs, PostFetch(r)
  PROVE  Inv'
<1>1. /\ pc[r] = "post_fetch" /\ Usable(Partial(r))
      /\ NextPartial(r, "post_fetch", "post_collect")
      /\ UNCHANGED <<store, owner, expired, used, observed>>
      /\ UNCHANGED <<store, known>>
  BY DEF PostFetch, observed
<1>2. /\ {"post_fetch", "post_collect"} \subseteq MakePCs
      /\ {"post_fetch", "post_collect"} \subseteq UploadPCs /\ pc[r] \in MakePCs
  BY <1>1 DEF MakePCs, PostPCs, UploadPCs, PCs
<1>3. TypeInv /\ Building(r) /\ Making(r)
  BY <1>2 DEF Inv, Local, Owned, Making
<1>4. /\ Current(r) \in Uploads /\ Current(r).partials \in Seq(Ids) /\ job[r] \in JobType
      /\ Planned(Current(r))
  BY <1>3, MakerFacts
<1>5. /\ job'[r].id = job[r].id /\ job'[r].seen = job[r].seen /\ job'[r].buf = job[r].buf
      /\ \A q \in Reqs : q # r => job'[q] = job[q]
      /\ IF job[r].k < Len(Partials(r)) THEN pc'[r] = "post_fetch" /\ job'[r].k = job[r].k + 1
                                        ELSE pc'[r] = "post_collect" /\ job'[r].k = 1
  BY <1>1, <1>2, <1>3, NextPartialType
<1>6. Id(r)' = Id(r) /\ Current(r)' = Current(r) /\ Partials(r)' = Partials(r)
  BY <1>1, <1>5 DEF Id, Current, Partials
<1> DEFINE list == Current(r).partials
           k == job[r].k
<1>7. /\ Partials(r) = list /\ list \in Seq(Ids) /\ Len(list) \in Nat
      /\ DOMAIN list = 1..Len(list) /\ k \in 1..Len(list)
      /\ Current(r).kind = "final" /\ Current(r).offset = 0
      /\ job[r].seen.kind = "final"
      /\ \A i \in 1..(k - 1) : Good(list[i])
  BY <1>1, <1>2, <1>3, <1>4, LenProperties DEF Building
<1>8. Good(list[k])
  <2>1. list[k] \in ToSet(list)
    BY <1>7 DEF ToSet
  <2>2. list[k] \in known
    BY <1>4, <2>1 DEF Planned
  <2> QED BY <1>1, <1>7, <2>2 DEF Partial, Usable, Good
<1>9. \A i \in 1..k : Good(list[i])
  <2>1. \A i \in 1..k : i \in 1..(k - 1) \/ i = k
    BY <1>7
  <2> QED BY <1>7, <1>8, <2>1
<1>10. \A i \in 1..k : /\ list[i] \in known'
                       /\ store'[list[i]] # NoUpload =>
                            store'[list[i]].kind = "partial" /\ IsComplete(store'[list[i]])
  BY <1>1, <1>9 DEF Good, Exists
<1>11. list' = list
  BY <1>6
<1>12. CASE k < Len(list)
  <2>1. pc'[r] = "post_fetch" /\ job'[r].k = k + 1 /\ k + 1 \in 1..Len(list) /\ (k + 1) - 1 = k
    BY <1>5, <1>7, <1>12
  <2>2. Building(r)'
    BY <1>1, <1>2, <1>5, <1>6, <1>7, <1>10, <2>1 DEF Building, Good, Exists
  <2>3. Gathering(r)' /\ Reread(r)'
    BY <2>1 DEF Gathering, Reread, FinishPCs
  <2> QED BY <1>1, <1>2, <1>3, <1>5, <2>1, <2>2, <2>3, PostMoveKeeps DEF NextPartial, Goto, TypeInv, Types, Partials
<1>13. CASE ~(k < Len(list))
  <2>1. pc'[r] = "post_collect" /\ k = Len(list)
    BY <1>5, <1>7, <1>13
  <2>2. Building(r)'
    BY <1>5, <1>6, <1>7, <2>1 DEF Building
  <2>3. \A p \in ToSet(list) : Good(p)'
    BY <1>7, <1>10, <2>1 DEF ToSet, Good, Exists
  <2>4. Gathering(r)'
    BY <1>6, <2>1, <2>3 DEF Gathering
  <2>5. Reread(r)'
    BY <2>1 DEF Reread, FinishPCs
  <2> QED BY <1>1, <1>2, <1>3, <1>5, <1>7, <1>13, <2>2, <2>4, <2>5, PostMoveKeeps DEF NextPartial
<1> QED BY <1>12, <1>13

LEMMA PostCollectKeeps ==
  ASSUME Deployment, Inv, TypeInv', NEW r \in Reqs, PostCollect(r)
  PROVE  Inv'
<1>1. /\ pc[r] = "post_collect" /\ AllExist(Partials(r))
      /\ job' = [job EXCEPT ![r].buf = Joined(Partials(r))]
      /\ Goto(r, "post_concat")
      /\ UNCHANGED <<store, owner, expired, used, observed>>
      /\ UNCHANGED <<store, known>>
  BY DEF PostCollect, observed, AllExist, Joined
<1>2. "post_concat" \in MakePCs /\ "post_concat" \in PCs /\ pc[r] \in MakePCs
  BY <1>1 DEF MakePCs, PostPCs, PCs
<1>3. TypeInv /\ Building(r) /\ Gathering(r) /\ Making(r)
  BY <1>2 DEF Inv, Local, Owned, Making
<1>4. Current(r).partials \in Seq(Ids) /\ job[r] \in JobType /\ job \in [Reqs -> JobType]
  BY <1>3, MakerFacts DEF TypeInv, Types
<1>5. /\ job'[r].id = job[r].id /\ job'[r].seen = job[r].seen /\ job'[r].k = job[r].k
      /\ job'[r].buf = Joined(Partials(r))
      /\ \A q \in Reqs : q # r => job'[q] = job[q]
  BY <1>1, <1>4 DEF JobType
<1>6. pc'[r] = "post_concat"
  BY <1>1, <1>2, <1>3, GotoType
<1>7. Id(r)' = Id(r) /\ Current(r)' = Current(r) /\ Partials(r)' = Partials(r)
  BY <1>1, <1>5 DEF Id, Current, Partials
<1> DEFINE list == Current(r).partials
<1>8. /\ Partials(r) = list /\ Current(r).kind = "final" /\ Current(r).offset = 0
      /\ job[r].seen.kind = "final" /\ \A p \in ToSet(list) : Good(p)
      /\ job[r].k = 1
  BY <1>1, <1>2, <1>3 DEF Building, Gathering
<1>9. Building(r)'
  BY <1>5, <1>6, <1>7, <1>8 DEF Building
<1>10. Gathering(r)'
  <2>1. \A p \in ToSet(list) : Within(store[p].data, Joined(list))
    BY <1>1, <1>3, <1>4, <1>8, JoinedType DEF TypeInv, Types
  <2>2. \A p \in ToSet(list) : Good(p)'
    BY <1>1, <1>8 DEF Good, Exists
  <2>3. Joined(list)' = Joined(list)
    BY <1>1, <1>7 DEF Joined
  <2> QED BY <1>1, <1>5, <1>6, <1>7, <1>8, <2>1, <2>2, <2>3 DEF Gathering
<1>11. Reread(r)'
  BY <1>6 DEF Reread, FinishPCs
<1> QED BY <1>1, <1>2, <1>5, <1>9, <1>10, <1>11, PostMoveKeeps

LEMMA PostNoBodyKeeps ==
  ASSUME Deployment, Inv, TypeInv', NEW r \in Reqs, PostNoBody(r)
  PROVE  Inv'
<1>1. /\ pc[r] = "post_body" /\ Goto(r, "post_info")
      /\ UNCHANGED <<store, owner, job, expired, used, observed>>
      /\ UNCHANGED <<store, known, job>>
  BY DEF PostNoBody, observed
<1>2. "post_info" \in MakePCs /\ "post_info" \in PCs /\ pc[r] \in MakePCs
  BY <1>1 DEF MakePCs, PostPCs, PCs
<1>3. TypeInv /\ Building(r) /\ Gathering(r) /\ Making(r)
  BY <1>2 DEF Inv, Local, Owned, Making
<1>4. pc'[r] = "post_info"
  BY <1>1, <1>2, <1>3, GotoType
<1>5. Id(r)' = Id(r) /\ Current(r)' = Current(r) /\ Partials(r)' = Partials(r)
  BY <1>1 DEF Id, Current, Partials
<1>6. Building(r)'
  BY <1>1, <1>2, <1>3, <1>4, <1>5 DEF Building
<1>7. Gathering(r)'
  BY <1>1, <1>3, <1>4, <1>5 DEF Gathering, Good, Exists, AllExist, Joined
<1>8. Reread(r)'
  BY <1>4 DEF Reread, FinishPCs
<1> QED BY <1>1, <1>2, <1>6, <1>7, <1>8, PostMoveKeeps

LEMMA PostInfoKeeps ==
  ASSUME Deployment, Inv, TypeInv', NEW r \in Reqs, PostInfo(r)
  PROVE  Inv'
<1>1. /\ pc[r] = "post_info" /\ Exists(Id(r)) /\ See(r, Current(r))
      /\ Goto(r, IF job[r].seen.kind = "final" /\ On("cleanup-concat-partials")
                 THEN "post_look" ELSE "post_announce")
      /\ UNCHANGED <<store, owner, expired, used, observed>>
      /\ UNCHANGED <<store, known>>
  BY DEF PostInfo, observed
<1> DEFINE l == IF job[r].seen.kind = "final" /\ On("cleanup-concat-partials")
                THEN "post_look" ELSE "post_announce"
<1>2. l \in MakePCs /\ l \in PCs /\ l \in {"post_look", "post_announce"} /\ pc[r] \in MakePCs
  BY <1>1 DEF MakePCs, PostPCs, PCs
<1>3. TypeInv /\ Building(r) /\ Gathering(r) /\ Making(r)
  BY <1>2 DEF Inv, Local, Owned, Making
<1>4. /\ Current(r) \in Uploads /\ Current(r).partials \in Seq(Ids)
      /\ Planned(Current(r))
  BY <1>3, MakerFacts
<1>5. /\ job'[r].seen = Current(r) /\ job'[r].id = job[r].id /\ job'[r].k = job[r].k
      /\ job'[r].buf = job[r].buf
      /\ \A q \in Reqs : q # r => job'[q] = job[q]
  BY <1>1, <1>3, <1>4, SeeType
<1>6. pc'[r] = l /\ Goto(r, l)
  BY <1>1, <1>2, <1>3, GotoType
<1>7. Id(r)' = Id(r) /\ Current(r)' = Current(r) /\ Partials(r)' = Partials(r)
      /\ Partials(r) = Current(r).partials /\ job[r].seen.kind = Current(r).kind
  BY <1>1, <1>2, <1>3, <1>5 DEF Id, Current, Partials, Building
<1>8. l = "post_look" => Current(r).kind = "final" /\ On("cleanup-concat-partials")
  BY <1>7
<1> HIDE DEF l
<1>9. l = "post_look" => job[r].k \in 1..Len(Partials(r))
  <2> SUFFICES ASSUME l = "post_look" PROVE job[r].k \in 1..Len(Partials(r))
    OBVIOUS
  <2>1. Partials(r) # <<>> /\ Partials(r) \in Seq(Ids) /\ job[r].k = 1
    BY <1>1, <1>3, <1>4, <1>7, <1>8 DEF Planned, Building
  <2>2. Len(Partials(r)) \in Nat \ {0}
    BY <2>1, EmptySeq
  <2> QED BY <2>1, <2>2
<1>10. Building(r)'
  BY <1>2, <1>5, <1>6, <1>7, <1>8, <1>9 DEF Building
<1>11. Gathering(r)'
  BY <1>1, <1>2, <1>3, <1>5, <1>6, <1>7 DEF Gathering, Good, Exists, AllExist, Joined
<1>12. Reread(r)'
  BY <1>2, <1>5, <1>6, <1>7 DEF Reread, FinishPCs
<1> QED BY <1>1, <1>2, <1>5, <1>6, <1>10, <1>11, <1>12, PostMoveKeeps

LEMMA PostLookKeeps ==
  ASSUME Deployment, Inv, TypeInv', NEW r \in Reqs, PostLook(r)
  PROVE  Inv'
<1>1. /\ pc[r] = "post_look" /\ Goto(r, "post_remove")
      /\ UNCHANGED <<store, owner, job, expired, used, observed>>
      /\ UNCHANGED <<store, known, job>>
  BY DEF PostLook, observed
<1>2. "post_remove" \in MakePCs /\ "post_remove" \in PCs /\ pc[r] \in MakePCs
  BY <1>1 DEF MakePCs, PostPCs, PCs
<1>3. TypeInv /\ Building(r) /\ Gathering(r) /\ Reread(r) /\ Making(r)
  BY <1>2 DEF Inv, Local, Owned, Making
<1>4. pc'[r] = "post_remove"
  BY <1>1, <1>2, <1>3, GotoType
<1>5. Id(r)' = Id(r) /\ Current(r)' = Current(r) /\ Partials(r)' = Partials(r)
  BY <1>1 DEF Id, Current, Partials
<1>6. Building(r)'
  BY <1>1, <1>2, <1>3, <1>4, <1>5 DEF Building
<1>7. Gathering(r)'
  BY <1>1, <1>3, <1>4, <1>5 DEF Gathering, Good, Exists, AllExist, Joined
<1>8. Reread(r)'
  BY <1>1, <1>3, <1>4, <1>5 DEF Reread, FinishPCs, Exists
<1> QED BY <1>1, <1>2, <1>6, <1>7, <1>8, PostMoveKeeps

LEMMA PostRereadKeeps ==
  ASSUME Deployment, Inv, TypeInv', NEW r \in Reqs, PostReread(r)
  PROVE  Inv'
<1>1. /\ pc[r] = "post_reread" /\ Exists(Id(r)) /\ See(r, Current(r))
      /\ Goto(r, "post_announce")
      /\ UNCHANGED <<store, owner, expired, used, observed>>
      /\ UNCHANGED <<store, known>>
  BY DEF PostReread, observed
<1>2. "post_announce" \in MakePCs /\ "post_announce" \in PCs /\ pc[r] \in MakePCs
  BY <1>1 DEF MakePCs, PostPCs, PCs
<1>3. TypeInv /\ Building(r) /\ Gathering(r) /\ Making(r)
  BY <1>2 DEF Inv, Local, Owned, Making
<1>4. Current(r) \in Uploads
  BY <1>3, MakerFacts
<1>5. /\ job'[r].seen = Current(r) /\ job'[r].id = job[r].id /\ job'[r].buf = job[r].buf
      /\ \A q \in Reqs : q # r => job'[q] = job[q]
  BY <1>1, <1>3, <1>4, SeeType
<1>6. pc'[r] = "post_announce"
  BY <1>1, <1>2, <1>3, GotoType
<1>7. Id(r)' = Id(r) /\ Current(r)' = Current(r) /\ Partials(r)' = Partials(r)
  BY <1>1, <1>2, <1>3, <1>5 DEF Id, Current, Partials, Building
<1>8. Building(r)'
  BY <1>2, <1>3, <1>5, <1>6, <1>7 DEF Building, Current, Partials
<1>9. Gathering(r)'
  BY <1>1, <1>3, <1>5, <1>6, <1>7 DEF Gathering, Good, Exists, AllExist, Joined
<1>10. Reread(r)'
  BY <1>5, <1>6, <1>7 DEF Reread, FinishPCs
<1> QED BY <1>1, <1>2, <1>5, <1>8, <1>9, <1>10, PostMoveKeeps

LEMMA PostArriveKeeps ==
  ASSUME Deployment, Inv, TypeInv', NEW r \in Reqs,
         NEW size \in Sizes, NEW defer \in BOOLEAN, NEW kind \in Kinds, NEW list \in FinalLists,
         PostArrive(r, size, defer, kind, list)
  PROVE  Inv'
<1> DEFINE partials == IF kind = "final" THEN list ELSE <<>>
           u == NewUpload(size, defer, kind, partials)
<1>1. /\ pc[r] = "idle" /\ See(r, u) /\ Goto(r, "post_create")
      /\ kind = "final" => On("concatenation") /\ list # <<>> /\ ToSet(list) \subseteq known
      /\ UNCHANGED <<store, owner, expired, used, observed>>
      /\ UNCHANGED <<store, known>>
  BY DEF PostArrive, observed, Deployment
<1>2. /\ u \in Uploads /\ u.kind = kind /\ u.partials = partials /\ u.offset = 0 /\ u.data = <<>>
      /\ u.size = size
  BY NewUploadType DEF NewUpload
<1>3. TypeInv /\ job[r].id = NoId /\ job[r].k = 1
  BY <1>1 DEF Inv, TypeInv, Types, Blank
<1>4. ToSet(partials) \subseteq known
  BY <1>1 DEF ToSet
<1> HIDE DEF u
<1>5. /\ job'[r].seen = u /\ job'[r].id = NoId /\ job'[r].k = 1
      /\ \A q \in Reqs : q # r => job'[q] = job[q]
  BY <1>1, <1>2, <1>3, SeeType
<1>6. "post_create" \in PCs /\ "post_create" \notin MakePCs \union FinishPCs \union HoldPCs \union LockPCs
  BY DEF PCs, PostPCs, MakePCs, FinishPCs, HoldPCs, LockPCs, PatchPCs, GetPCs
<1>7. pc'[r] = "post_create"
  BY <1>1, <1>3, <1>6, GotoType
<1>8. Planning(r)'
  BY <1>1, <1>2, <1>4, <1>5, <1>7 DEF Planning, Planned
<1>9. Owned(r)' /\ Private(r)' /\ Building(r)' /\ Gathering(r)' /\ Based(r)' /\ Reread(r)'
  BY <1>5, <1>6, <1>7
  DEF Owned, Private, Making, Building, Gathering, Based, Reread, Id, LockPCs
<1>10. Local(r)'
  BY <1>8, <1>9 DEF Local
<1> QED BY <1>1, <1>5, <1>6, <1>10, StayKeeps DEF Id

-----------------------------------------------------------------------------
(* Steps that tell the world: events, answers and their offsets.           *)
LEMMA EventKeeps ==
  ASSUME Deployment, Inv, TypeInv', NEW r \in Reqs, Others(r), Local(r)',
         Id(r)' \in {Id(r), NoId} \union known,
         UNCHANGED <<store, used>>, known \subseteq known',
         \A id \in known' : id \in known \/ (/\ id = Id(r) /\ Making(r)
                                             /\ pc[r] \notin {"post_fetch", "post_collect", "post_concat"}),
         \A id \in Ids : \/ reported'[id] = reported[id]
                         \/ Exists(id) => reported'[id] <= store[id].offset,
         \A id \in Ids : lastEvent'[id] = "terminated" =>
                           \/ lastEvent[id] = "terminated"
                           \/ id \in used /\ ~Exists(id)
  PROVE  Inv'
<1>1. Effect(r)
  BY DEF Effect
<1>2. Global /\ Typed(r) /\ Local(r) /\ known \subseteq Ids
  BY DEF Inv, TypeInv, Types
<1>3. \A id \in known' : id \in used
  <2>1. Making(r) => Id(r) \in used
    BY <1>2 DEF Local, Private
  <2> QED BY <1>2, <2>1 DEF Global, Registered
<1>4. Registered'
  BY <1>2, <1>3 DEF Global, Registered, Exists, Planned
<1>5. OffsetCountsBytes' /\ ReportedBytesKept'
  BY <1>2 DEF Global, OffsetCountsBytes, ReportedBytesKept, Exists
<1>6. FinalsJoined'
  <2> SUFFICES ASSUME NEW id \in known', Exists(id), store[id].kind = "final"
               PROVE  /\ \A p \in ToSet(store[id].partials) : Good(p)'
                      /\ AllExist(store[id].partials) => store[id].data = Joined(store[id].partials)
    BY DEF FinalsJoined, Exists, AllExist, Joined
  <2>1. \A p \in known : Good(p) => Good(p)'
    BY DEF Good, Exists
  <2>2. CASE id \in known
    BY <1>2, <2>1, <2>2 DEF Global, FinalsJoined, Good
  <2>3. CASE id \notin known
    <3>1. /\ id = Id(r) /\ Making(r)
          /\ pc[r] \notin {"post_fetch", "post_collect", "post_concat"}
      BY <2>3
    <3>2. Current(r) = store[id]
      BY <3>1 DEF Current
    <3> QED BY <1>2, <2>1, <3>1, <3>2 DEF Local, Gathering, Good
  <2> QED BY <2>2, <2>3
<1> QED BY <1>1, <1>4, <1>5, <1>6, InvKeeps DEF Global

(* What Emit and Report do to one upload. *)
LEMMA EmitFacts ==
  ASSUME TypeInv, NEW id \in Ids, NEW event \in Events, Emit(id, event)
  PROVE  lastEvent'[id] = event /\ \A i \in Ids : i # id => lastEvent'[i] = lastEvent[i]
  BY DEF Emit, TypeInv, Types

LEMMA ReportFacts ==
  ASSUME TypeInv, NEW id \in Ids, NEW n \in Nat, Report(id, n)
  PROVE  /\ reported'[id] = (IF reported[id] < n THEN n ELSE reported[id])
         /\ \A i \in Ids : i # id => reported'[i] = reported[i]
  BY DEF Report, TypeInv, Types

LEMMA PatchEmitKeeps ==
  ASSUME Deployment, Inv, TypeInv', NEW r \in Reqs, PatchEmit(r)
  PROVE  Inv'
<1>1. /\ pc[r] = "patch_emit" /\ Emit(Id(r), "progress") /\ UNCHANGED <<store, used, known>>
  BY DEF PatchEmit
<1>2. /\ TypeInv /\ Types /\ Id(r) \in Ids /\ Id(r) \in known /\ owner[Id(r)] = r
      /\ Reread(r) /\ job[r].seen \in Uploads
  BY <1>1 DEF Inv, TypeInv, Types, Local, Owned, HoldPCs, PatchPCs, Typed
<1>3. \A id \in Ids : lastEvent'[id] = "terminated" => lastEvent[id] = "terminated"
  BY <1>1, <1>2, EmitFacts DEF Events
<1>4. CASE IsComplete(job[r].seen)
  <2>1. Goto(r, "finish") /\ UNCHANGED <<owner, job, reported>>
    BY <1>4 DEF PatchEmit
  <2>2. "finish" \in PCs /\ "finish" \in FinishPCs
        /\ "finish" \notin LockPCs \union HoldPCs \union MakePCs \union {"delete_hook", "post_create"}
    BY DEF PCs, FinishPCs, LockPCs, HoldPCs, PatchPCs, GetPCs, MakePCs, PostPCs
  <2>3. pc'[r] = "finish" /\ \A q \in Reqs : q # r => pc'[q] = pc[q]
    BY <1>2, <2>1, <2>2, GotoType
  <2>4. Others(r) /\ Id(r)' = Id(r)
    BY <2>1, <2>3 DEF Others, Id
  <2>5. Owned(r)' /\ Private(r)' /\ Planning(r)' /\ Building(r)' /\ Gathering(r)' /\ Based(r)'
    BY <1>1, <1>2, <2>1, <2>2, <2>3, <2>4
    DEF Owned, Private, Making, Planning, Building, Gathering, Based
  <2>6. Reread(r)'
    BY <1>1, <1>2, <2>1, <2>3, <2>4 DEF Reread, Exists, Current, FinishPCs
  <2>7. Local(r)'
    BY <2>5, <2>6 DEF Local
  <2> QED BY <1>1, <1>3, <2>1, <2>4, <2>7, EventKeeps
<1>5. CASE ~IsComplete(job[r].seen)
  <2>1. End(r) /\ Report(Id(r), job[r].seen.offset)
    BY <1>5 DEF PatchEmit
  <2>2. job[r].seen.offset \in Nat
    BY <1>2 DEF Uploads
  <2>3. ASSUME NEW id \in Ids
        PROVE  \/ reported'[id] = reported[id]
               \/ Exists(id) => reported'[id] <= store[id].offset
    <3>1. Exists(Id(r)) => job[r].seen = store[Id(r)]
      BY <1>1, <1>2 DEF Reread, Current
    <3> QED BY <1>2, <2>1, <2>2, <3>1, ReportFacts
  <2> QED BY <1>1, <1>2, <1>3, <2>1, <2>3, EndFacts, EventKeeps
<1> QED BY <1>4, <1>5

LEMMA FinalizeKeeps ==
  ASSUME Deployment, Inv, TypeInv', NEW r \in Reqs, Finalize(r)
  PROVE  Inv'
<1>1. /\ pc[r] = "finalize" /\ Emit(Id(r), "finished") /\ UNCHANGED <<store, used>>
      /\ known' = known \union {Id(r)} /\ Report(Id(r), job[r].seen.offset) /\ End(r)
  BY DEF Finalize
<1>2. /\ TypeInv /\ Types /\ Id(r) \in Ids /\ Reread(r) /\ job[r].seen \in Uploads
  BY <1>1 DEF Inv, TypeInv, Types, Local, Typed, UploadPCs, PCs, FinishPCs
<1>3. \A id \in Ids : lastEvent'[id] = "terminated" => lastEvent[id] = "terminated"
  BY <1>1, <1>2, EmitFacts DEF Events
<1>4. job[r].seen.offset \in Nat
  BY <1>2 DEF Uploads
<1>5. ASSUME NEW id \in Ids
      PROVE  \/ reported'[id] = reported[id]
             \/ Exists(id) => reported'[id] <= store[id].offset
  <2>1. Exists(Id(r)) => job[r].seen = store[Id(r)]
    BY <1>1, <1>2 DEF Reread, Current
  <2> QED BY <1>1, <1>2, <1>4, <2>1, ReportFacts
<1>6. Id(r) \in known \/ Making(r)
  BY <1>1 DEF Making, FinishPCs
<1> QED BY <1>1, <1>2, <1>3, <1>5, <1>6, EndFacts, EventKeeps

LEMMA PostAnnounceKeeps ==
  ASSUME Deployment, Inv, TypeInv', NEW r \in Reqs, PostAnnounce(r)
  PROVE  Inv'
<1>1. /\ pc[r] = "post_announce" /\ Emit(Id(r), "created") /\ UNCHANGED <<store, used>>
  BY DEF PostAnnounce
<1>2. pc[r] \in MakePCs /\ "finish" \in PCs /\ "finish" \in FinishPCs
      /\ "finish" \notin MakePCs
  BY <1>1 DEF MakePCs, PostPCs, PCs, FinishPCs
<1>3. TypeInv /\ Gathering(r) /\ Reread(r) /\ Making(r)
  BY <1>2 DEF Inv, Local, Owned, Making
<1>4. Id(r) \in Ids /\ Exists(Id(r)) /\ job[r].seen = store[Id(r)] /\ job[r].seen \in Uploads
  BY <1>1, <1>3, MakerFacts DEF Reread, Current
<1>5. \A id \in Ids : lastEvent'[id] = "terminated" => lastEvent[id] = "terminated"
  BY <1>1, <1>3, <1>4, EmitFacts DEF Events
<1>6. CASE IsComplete(job[r].seen)
  <2>1. Goto(r, "finish") /\ UNCHANGED <<owner, job, known, reported>>
    BY <1>6 DEF PostAnnounce, Deployment
  <2>2. pc'[r] = "finish" /\ \A q \in Reqs : q # r => pc'[q] = pc[q]
    BY <1>2, <1>3, <2>1, GotoType
  <2>3. Others(r) /\ Id(r)' = Id(r) /\ Current(r)' = Current(r)
    BY <1>1, <2>1, <2>2 DEF Others, Id, Current
  <2>4. Owned(r)' /\ Private(r)' /\ Planning(r)' /\ Based(r)'
    BY <1>1, <1>2, <1>3, <1>4, <2>1, <2>2, <2>3, MakerStays DEF Exists
  <2>5. Building(r)'
    BY <1>2, <2>2 DEF Building
  <2>6. Gathering(r)'
    BY <1>1, <1>3, <2>1, <2>2, <2>3 DEF Gathering, Good, Exists, AllExist, Joined
  <2>7. Reread(r)'
    BY <1>1, <1>4, <2>1, <2>2, <2>3 DEF Reread, Exists, Current, FinishPCs
  <2>8. Local(r)'
    BY <2>4, <2>5, <2>6, <2>7 DEF Local
  <2> QED BY <1>1, <1>5, <2>1, <2>3, <2>8, EventKeeps
<1>7. CASE ~IsComplete(job[r].seen)
  <2>1. End(r) /\ Report(Id(r), job[r].seen.offset) /\ known' = known \union {Id(r)}
    BY <1>7 DEF PostAnnounce
  <2>2. job[r].seen.offset \in Nat
    BY <1>4 DEF Uploads
  <2>3. ASSUME NEW id \in Ids
        PROVE  \/ reported'[id] = reported[id]
               \/ Exists(id) => reported'[id] <= store[id].offset
    BY <1>3, <1>4, <2>1, <2>2, ReportFacts
  <2> QED BY <1>1, <1>3, <1>5, <2>1, <2>3, EndFacts, EventKeeps
<1> QED BY <1>6, <1>7

LEMMA PostEmitKeeps ==
  ASSUME Deployment, Inv, TypeInv', NEW r \in Reqs, PostEmit(r)
  PROVE  Inv'
<1>1. /\ pc[r] = "post_emit" /\ Emit(Partial(r), "terminated")
      /\ NextPartial(r, "post_look", "post_reread")
      /\ UNCHANGED <<store, owner, expired, used, known, reported>>
  BY DEF PostEmit
<1>2. /\ {"post_look", "post_reread"} \subseteq MakePCs
      /\ {"post_look", "post_reread"} \subseteq UploadPCs /\ pc[r] \in MakePCs
  BY <1>1 DEF MakePCs, PostPCs, UploadPCs, PCs
<1>3. TypeInv /\ Building(r) /\ Gathering(r) /\ Reread(r) /\ Making(r)
      /\ known \subseteq Ids /\ known \subseteq used
  BY <1>2 DEF Inv, TypeInv, Types, Global, Registered, Local, Owned, Making
<1>4. /\ Current(r).partials \in Seq(Ids) /\ job[r] \in JobType /\ Planned(Current(r))
      /\ Exists(Id(r))
  BY <1>3, MakerFacts
<1>5. /\ job'[r].id = job[r].id /\ job'[r].seen = job[r].seen /\ job'[r].buf = job[r].buf
      /\ \A q \in Reqs : q # r => pc'[q] = pc[q] /\ job'[q] = job[q]
      /\ IF job[r].k < Len(Partials(r)) THEN pc'[r] = "post_look" /\ job'[r].k = job[r].k + 1
                                        ELSE pc'[r] = "post_reread" /\ job'[r].k = 1
  BY <1>1, <1>2, <1>3, NextPartialType
<1>6. Id(r)' = Id(r) /\ Current(r)' = Current(r) /\ Partials(r)' = Partials(r) /\ Others(r)
  BY <1>1, <1>5 DEF Id, Current, Partials, Others
<1>7. /\ Partials(r) = Current(r).partials /\ Len(Partials(r)) \in Nat
      /\ DOMAIN Partials(r) = 1..Len(Partials(r)) /\ job[r].k \in 1..Len(Partials(r))
      /\ Current(r).kind = "final" /\ job[r].seen.kind = "final" /\ ~Exists(Partial(r))
      /\ On("cleanup-concat-partials")
  BY <1>1, <1>2, <1>3, <1>4, LenProperties DEF Building
<1>8. Partial(r) \in known /\ Partial(r) \in Ids /\ Partial(r) \in used
  <2>1. Partial(r) \in ToSet(Current(r).partials)
    BY <1>7 DEF Partial, ToSet
  <2> QED BY <1>3, <1>4, <2>1 DEF Planned
<1>9. \A id \in Ids : lastEvent'[id] = "terminated" =>
                        lastEvent[id] = "terminated" \/ (id \in used /\ ~Exists(id))
  BY <1>1, <1>3, <1>7, <1>8, EmitFacts DEF Events
<1>10. pc'[r] \in {"post_look", "post_reread"}
       /\ (pc'[r] = "post_look" => job'[r].k \in 1..Len(Partials(r)))
  BY <1>5, <1>7
<1>11. Building(r)'
  BY <1>2, <1>5, <1>6, <1>7, <1>10 DEF Building
<1>12. Gathering(r)'
  BY <1>1, <1>3, <1>5, <1>6, <1>10 DEF Gathering, Good, Exists, AllExist, Joined
<1>13. Reread(r)'
  BY <1>1, <1>3, <1>5, <1>6, <1>10 DEF Reread, Exists, FinishPCs
<1>14. Owned(r)' /\ Private(r)' /\ Planning(r)' /\ Based(r)'
  BY <1>1, <1>2, <1>3, <1>4, <1>5, <1>6, <1>10, MakerStays DEF Exists
<1>15. Local(r)'
  BY <1>11, <1>12, <1>13, <1>14 DEF Local
<1> QED BY <1>1, <1>6, <1>9, <1>15, EventKeeps

LEMMA DeleteEmitKeeps ==
  ASSUME Deployment, Inv, TypeInv', NEW r \in Reqs, DeleteEmit(r)
  PROVE  Inv'
<1>1. /\ pc[r] = "delete_emit" /\ Emit(Id(r), "terminated") /\ End(r)
      /\ UNCHANGED <<store, used, known, reported>>
  BY DEF DeleteEmit
<1>2. TypeInv /\ Id(r) \in Ids /\ Id(r) \in used /\ ~Exists(Id(r))
  BY <1>1 DEF Inv, TypeInv, Types, Global, Registered, Local, Owned, HoldPCs, Reread
<1>3. \A id \in Ids : lastEvent'[id] = "terminated" =>
                        lastEvent[id] = "terminated" \/ (id \in used /\ ~Exists(id))
  BY <1>1, <1>2, EmitFacts DEF Events
<1> QED BY <1>1, <1>2, <1>3, EndFacts, EventKeeps

(* A HEAD is answered by a request slot that stays free.                   *)
LEMMA HeadKeeps ==
  ASSUME Deployment, Inv, TypeInv', NEW r \in Reqs, NEW id \in Ids, HeadRequest(r, id)
  PROVE  Inv'
<1>1. /\ pc[r] = "idle" /\ Exists(id) /\ Report(id, store[id].offset)
      /\ UNCHANGED <<store, owner, pc, job, used, known, lastEvent>>
  BY DEF HeadRequest
<1>2. TypeInv /\ store[id].offset \in Nat
  BY <1>1 DEF Inv, TypeInv, Types, StoreTypeOK, Exists, Uploads
<1>3. Others(r) /\ Id(r)' = Id(r)
  BY <1>1 DEF Others, Id
<1>4. Local(r)'
  BY <1>1
  DEF Local, Owned, Private, Making, Planning, Building, Gathering, Based, Reread,
      LockPCs, HoldPCs, PatchPCs, GetPCs, FinishPCs, MakePCs, PostPCs
<1>5. \A i \in Ids : \/ reported'[i] = reported[i]
                     \/ Exists(i) => reported'[i] <= store[i].offset
  BY <1>1, <1>2, ReportFacts DEF Inv, Global, ReportedBytesKept
<1> QED BY <1>1, <1>3, <1>4, <1>5, EventKeeps

-----------------------------------------------------------------------------
(* Steps that change one upload.                                           *)
LEMMA FinalsKeep ==
  ASSUME Deployment, Inv, NEW r \in Reqs, Others(r), Effect(r), known' = known,
         \A id \in known : store'[id] # NoUpload /\ store'[id].kind = "final" =>
                             store'[id] = store[id]
  PROVE  FinalsJoined'
<1> SUFFICES ASSUME NEW id \in known, store'[id] # NoUpload, store'[id].kind = "final"
             PROVE  /\ \A p \in ToSet(store'[id].partials) : Good(p)'
                    /\ (\A p \in ToSet(store'[id].partials) : store'[p] # NoUpload) =>
                         store'[id].data =
                           FlattenSeq([i \in DOMAIN store'[id].partials |->
                                         store'[store'[id].partials[i]].data])
  BY DEF FinalsJoined, Exists, AllExist, Joined
<1> DEFINE list == store[id].partials
<1>1. store'[id] = store[id] /\ Exists(id) /\ store[id].kind = "final" /\ id \in Ids
  BY DEF Exists, Inv, TypeInv, Types
<1>2. list \in Seq(Ids) /\ \A p \in ToSet(list) : p \in known
  BY <1>1 DEF Inv, TypeInv, Types, StoreTypeOK, Exists, Uploads, Global, Registered, Planned
<1>3. /\ \A p \in ToSet(list) : Good(p)
      /\ AllExist(list) => store[id].data = Joined(list)
  BY <1>1 DEF Inv, Global, FinalsJoined
<1>4. \A p \in ToSet(list) : Good(p)' /\ (store'[p] = store[p] \/ store'[p] = NoUpload)
  BY <1>2, <1>3, Undisturbed
<1> HIDE DEF list
<1>5. ASSUME \A p \in ToSet(list) : store'[p] # NoUpload
      PROVE  store[id].data = FlattenSeq([i \in DOMAIN list |-> store'[list[i]].data])
  BY <1>2, <1>3, <1>4, <1>5, JoinedKeeps
<1> QED BY <1>1, <1>4, <1>5 DEF list

LEMMA ChangeKeeps ==
  ASSUME Deployment, Inv, TypeInv', NEW r \in Reqs, Others(r), Effect(r), Local(r)',
         NEW x \in Ids, Exists(x) \/ x \notin used,
         \A i \in Ids : i # x => store'[i] = store[i] /\ reported'[i] = reported[i],
         known' = known, lastEvent' = lastEvent,
         store'[x] # NoUpload =>
           /\ x \in used' /\ Planned(store'[x])
           /\ store'[x].offset = Len(store'[x].data) /\ reported'[x] <= store'[x].offset
           /\ x \in known /\ store'[x].kind = "final" => store'[x] = store[x]
  PROVE  Inv'
<1>1. Global /\ used \subseteq used' /\ known \subseteq used
  BY DEF Inv, Effect, Global, Registered
<1>2. Registered'
  <2>1. \A id \in Ids : store'[id] # NoUpload =>
           id \in used' /\ Planned(store'[id])
    BY <1>1 DEF Global, Registered, Exists
  <2>2. \A id \in Ids : lastEvent[id] = "terminated" => id \in used' /\ store'[id] = NoUpload
    BY <1>1 DEF Global, Registered, Exists
  <2> QED BY <1>1, <2>1, <2>2 DEF Registered, Exists, Planned
<1>3. OffsetCountsBytes'
  BY <1>1 DEF Global, OffsetCountsBytes, Exists
<1>4. ReportedBytesKept'
  BY <1>1 DEF Global, ReportedBytesKept, Exists
<1>5. FinalsJoined'
  <2>1. known \subseteq Ids
    BY DEF Inv, TypeInv, Types
  <2> QED BY <2>1, FinalsKeep
<1> QED BY <1>2, <1>3, <1>4, <1>5, InvKeeps DEF Global

LEMMA PatchDeclareKeeps ==
  ASSUME Deployment, Inv, TypeInv', NEW r \in Reqs, NEW n \in Lengths, PatchDeclare(r, n)
  PROVE  Inv'
<1> DEFINE x == Id(r)
           u == [store[x] EXCEPT !.size = n, !.deferred = FALSE]
<1>1. /\ pc[r] = "patch_declare" /\ Exists(x) /\ store[x].size = NoLen
      /\ store' = [store EXCEPT ![x].size = n, ![x].deferred = FALSE]
      /\ Goto(r, "patch_write")
      /\ UNCHANGED <<owner, job, used, known, reported, lastEvent>>
  BY DEF PatchDeclare, DeclareLength, observed
<1>2. /\ TypeInv /\ Types /\ x \in Ids /\ x \in known /\ x \in used /\ owner[x] = r
      /\ Based(r) /\ Global
  BY <1>1 DEF Inv, TypeInv, Types, Global, Registered, Local, Owned, HoldPCs, PatchPCs
<1>3. store[x] \in Uploads /\ n \in Nat /\ x # NoId
  BY <1>1, <1>2, ChunkFacts, HandlerAssumption DEF Types, StoreTypeOK, Exists
<1>4. /\ u \in Uploads /\ u # NoUpload /\ u.kind = store[x].kind /\ u.partials = store[x].partials
      /\ u.data = store[x].data /\ u.offset = store[x].offset
  BY <1>3, UploadFacts DEF Uploads
<1>5. store'[x] = u /\ \A i \in Ids : i # x => store'[i] = store[i]
  BY <1>1, <1>2 DEF Types, StoreTypeOK
<1> HIDE DEF u
<1>6. "patch_write" \in PCs /\ "patch_write" \in HoldPCs
  BY DEF PCs, PatchPCs, HoldPCs
<1>7. pc'[r] = "patch_write" /\ \A q \in Reqs : q # r => pc'[q] = pc[q]
  BY <1>1, <1>2, <1>6, GotoType
<1>8. Others(r) /\ Id(r)' = Id(r)
  BY <1>1, <1>7 DEF Others, Id
<1>9. ~Good(x)
  BY <1>1 DEF Good, IsComplete
<1>10. Effect(r)
  BY <1>1, <1>2, <1>5, <1>8, <1>9 DEF Effect
<1>11. job[r].seen.offset = store[x].offset /\ store[x].kind # "final"
  BY <1>1, <1>2 DEF Based, Current
<1>12. Based(r)'
  BY <1>1, <1>4, <1>5, <1>8, <1>11 DEF Based, Current
<1>13. Reread(r)'
  BY <1>4, <1>5, <1>7, <1>8 DEF Reread, Exists, FinishPCs
<1>14. Local(r)'
  BY <1>1, <1>2, <1>6, <1>7, <1>8, <1>12, <1>13, ServeLocal
<1>15. /\ Planned(u) /\ u.offset = Len(u.data) /\ reported'[x] <= u.offset
  BY <1>1, <1>2, <1>4
  DEF Global, Registered, OffsetCountsBytes, ReportedBytesKept, Planned
<1> HIDE DEF x
<1> QED BY <1>1, <1>2, <1>4, <1>5, <1>8, <1>10, <1>11, <1>14, <1>15, ChangeKeeps

(* A chunk written where the bytes end makes them longer, and is empty     *)
(* when the upload is complete.                                            *)
LEMMA WrittenFacts ==
  ASSUME NEW u \in Uploads, u.offset = Len(u.data),
         NEW r \in Reqs, NEW n \in Lengths, ~Exceeds(u, u.offset, Chunk(r, n))
  PROVE  LET w == Written(u, u.offset, Chunk(r, n))
         IN /\ w \in Uploads /\ w # NoUpload
            /\ w.kind = u.kind /\ w.partials = u.partials /\ w.size = u.size
            /\ w.data = u.data \o Chunk(r, n) /\ w.offset = u.offset + n
            /\ w.offset = Len(w.data) /\ u.offset <= w.offset
            /\ IsComplete(u) => w = u
<1> DEFINE c == Chunk(r, n)
           d == Spliced(u.data, u.offset, c)
           w == Written(u, u.offset, c)
<1>1. n \in Nat /\ c \in Seq(Bytes) /\ Len(c) = n /\ u.offset \in Nat /\ u.data \in Seq(Bytes)
  BY ChunkFacts DEF Uploads
<1>2. d = u.data \o c
  BY <1>1, SplicedFacts
<1>3. Len(u.data \o c) = u.offset + n
  <2>1. Len(u.data \o c) = Len(u.data) + Len(c)
    BY <1>1, ConcatProperties, Zenon
  <2> QED BY <1>1, <2>1
<1>4. w = [u EXCEPT !.data = d, !.offset = u.offset + Len(c)]
  BY DEF Written
<1>5. w \in Uploads /\ w # NoUpload
  BY <1>1, UploadFacts
<1> HIDE DEF c, d
<1>6. /\ w.kind = u.kind /\ w.partials = u.partials /\ w.size = u.size
      /\ w.data = d /\ w.offset = u.offset + n
  BY <1>1, <1>4 DEF Uploads
<1>7. ASSUME IsComplete(u) PROVE w = u
  <2>1. n = 0
    BY <1>1, <1>7 DEF IsComplete, Exceeds, c
  <2>2. c = <<>>
    BY <1>1, <2>1, EmptySeq
  <2>3. d = u.data
    BY <1>1, <1>2, <2>2, ConcatEmptySeq
  <2>4. u.offset + Len(c) = u.offset
    BY <1>1, <2>1
  <2> QED BY <1>4, <2>3, <2>4 DEF Uploads
<1> QED BY <1>1, <1>2, <1>3, <1>5, <1>6, <1>7 DEF c

LEMMA PatchWriteKeeps ==
  ASSUME Deployment, Inv, TypeInv', NEW r \in Reqs, NEW n \in Lengths, PatchWrite(r, n)
  PROVE  Inv'
<1> DEFINE x == Id(r)
           u == Written(store[x], job[r].seen.offset, Chunk(r, n))
<1>1. /\ pc[r] = "patch_write" /\ Exists(x)
      /\ ~Exceeds(store[x], job[r].seen.offset, Chunk(r, n))
      /\ store' = [store EXCEPT ![x] = u]
      /\ Goto(r, "patch_info")
      /\ UNCHANGED <<owner, job, used, known, reported, lastEvent>>
  BY DEF PatchWrite, WriteChunk, observed
<1>2. /\ TypeInv /\ Types /\ x \in Ids /\ x \in known /\ x \in used /\ owner[x] = r
      /\ Based(r) /\ Global
  BY <1>1 DEF Inv, TypeInv, Types, Global, Registered, Local, Owned, HoldPCs, PatchPCs
<1>3. store[x] \in Uploads
  BY <1>1, <1>2 DEF Types, StoreTypeOK, Exists
<1>4. job[r].seen.offset = store[x].offset /\ store[x].kind # "final"
      /\ store[x].offset = Len(store[x].data) /\ reported[x] <= store[x].offset
      /\ Planned(store[x])
  BY <1>1, <1>2 DEF Based, Current, Global, OffsetCountsBytes, ReportedBytesKept, Registered
<1>5. /\ u \in Uploads /\ u # NoUpload /\ u.kind = store[x].kind /\ u.partials = store[x].partials
      /\ u.offset = Len(u.data) /\ store[x].offset <= u.offset
      /\ IsComplete(store[x]) => u = store[x]
  BY <1>1, <1>3, <1>4, WrittenFacts
<1>6. store'[x] = u /\ \A i \in Ids : i # x => store'[i] = store[i]
  BY <1>1, <1>2 DEF Types, StoreTypeOK
<1> HIDE DEF u
<1>7. "patch_info" \in PCs /\ "patch_info" \in HoldPCs
  BY DEF PCs, PatchPCs, HoldPCs
<1>8. pc'[r] = "patch_info" /\ \A q \in Reqs : q # r => pc'[q] = pc[q]
  BY <1>1, <1>2, <1>7, GotoType
<1>9. Others(r) /\ Id(r)' = Id(r)
  BY <1>1, <1>8 DEF Others, Id
<1>10. Effect(r)
  <2>1. Good(x) => store'[x] = store[x]
    BY <1>1, <1>5, <1>6 DEF Good
  <2> QED BY <1>1, <1>2, <1>6, <1>9, <2>1 DEF Effect
<1>11. Based(r)' /\ Reread(r)'
  BY <1>5, <1>6, <1>8, <1>9 DEF Based, Reread, Exists, FinishPCs
<1>12. Local(r)'
  BY <1>1, <1>2, <1>7, <1>8, <1>9, <1>11, ServeLocal
<1>13. /\ Planned(u) /\ reported'[x] <= u.offset
  <2>1. reported[x] \in Nat /\ store[x].offset \in Nat /\ u.offset \in Nat
    BY <1>2, <1>3, <1>5 DEF Types, Uploads
  <2> HIDE DEF x
  <2> QED BY <1>1, <1>4, <1>5, <2>1 DEF Planned
<1> HIDE DEF x
<1> QED BY <1>1, <1>2, <1>4, <1>5, <1>6, <1>9, <1>10, <1>12, <1>13, ChangeKeeps

LEMMA PostBodyKeeps ==
  ASSUME Deployment, Inv, TypeInv', NoFinalBody, NEW r \in Reqs, NEW n \in Lengths, PostBody(r, n)
  PROVE  Inv'
<1> DEFINE x == Id(r)
           u == Written(store[x], 0, Chunk(r, n))
<1>1. /\ pc[r] = "post_body" /\ Exists(x)
      /\ ~Exceeds(store[x], 0, Chunk(r, n))
      /\ store' = [store EXCEPT ![x] = u]
      /\ job' = [job EXCEPT ![r].wrote = n]
      /\ Goto(r, "post_info")
      /\ UNCHANGED <<owner, used, known, reported, lastEvent>>
      /\ job[r].seen.kind # "final"
  BY DEF PostBody, WriteChunk, observed, NoFinalBody
<1>2. "post_info" \in MakePCs /\ "post_info" \in PCs /\ pc[r] \in MakePCs
  BY <1>1 DEF MakePCs, PostPCs, PCs
<1>3. TypeInv /\ Types /\ Building(r) /\ Making(r) /\ Global
  BY <1>2 DEF Inv, TypeInv, Local, Owned, Making
<1>4. /\ x \in Ids /\ x \in used /\ x \notin known /\ store[x] \in Uploads /\ Planned(store[x])
      /\ job[r] \in JobType /\ job \in [Reqs -> JobType]
  BY <1>3, MakerFacts DEF Current, Types
<1>5. /\ store[x].kind # "final" /\ store[x].offset = 0 /\ job[r].seen.kind = store[x].kind
      /\ Partials(r) = store[x].partials /\ job[r].k = 1
      /\ store[x].offset = Len(store[x].data) /\ reported[x] <= store[x].offset
  BY <1>1, <1>2, <1>3, <1>4
  DEF Building, Current, Global, OffsetCountsBytes, ReportedBytesKept
<1>6. /\ u \in Uploads /\ u # NoUpload /\ u.kind = store[x].kind /\ u.partials = store[x].partials
      /\ u.offset = Len(u.data) /\ store[x].offset <= u.offset
  BY <1>1, <1>4, <1>5, WrittenFacts
<1>7. store'[x] = u /\ \A i \in Ids : i # x => store'[i] = store[i]
  BY <1>1, <1>3, <1>4 DEF Types, StoreTypeOK
<1> HIDE DEF u
<1>8. /\ job'[r].id = job[r].id /\ job'[r].seen = job[r].seen /\ job'[r].k = job[r].k
      /\ \A q \in Reqs : q # r => job'[q] = job[q]
  BY <1>1, <1>4 DEF JobType
<1>9. pc'[r] = "post_info" /\ \A q \in Reqs : q # r => pc'[q] = pc[q]
  BY <1>1, <1>2, <1>3, GotoType
<1>10. Others(r) /\ Id(r)' = Id(r) /\ Partials(r)' = Partials(r) /\ Current(r)' = u
  BY <1>1, <1>7, <1>8, <1>9 DEF Others, Id, Partials, Current
<1>11. Effect(r)
  BY <1>1, <1>3, <1>7, <1>10 DEF Effect
<1>12. Owned(r)' /\ Private(r)' /\ Planning(r)' /\ Based(r)'
  BY <1>1, <1>2, <1>3, <1>6, <1>7, <1>8, <1>9, <1>10, MakerStays
<1>13. Building(r)'
  BY <1>2, <1>5, <1>6, <1>8, <1>9, <1>10 DEF Building
<1>14. Gathering(r)' /\ Reread(r)'
  BY <1>5, <1>6, <1>9, <1>10 DEF Gathering, Reread, FinishPCs
<1>15. Local(r)'
  BY <1>12, <1>13, <1>14 DEF Local
<1>16. /\ Planned(u) /\ reported'[x] <= u.offset
  <2>1. reported[x] \in Nat /\ store[x].offset \in Nat /\ u.offset \in Nat
    BY <1>3, <1>4, <1>6 DEF Types, Uploads
  <2> HIDE DEF x
  <2> QED BY <1>1, <1>4, <1>5, <1>6, <2>1 DEF Planned
<1> HIDE DEF x
<1> QED BY <1>1, <1>4, <1>6, <1>7, <1>10, <1>11, <1>15, <1>16, ChangeKeeps

LEMMA PostConcatKeeps ==
  ASSUME Deployment, Inv, TypeInv', NEW r \in Reqs, PostConcat(r)
  PROVE  Inv'
<1> DEFINE x == Id(r)
           buf == job[r].buf
           u == [store[x] EXCEPT !.data = buf, !.size = Len(buf), !.offset = Len(buf),
                                 !.kind = "final"]
           list == store[x].partials
<1>1. /\ pc[r] = "post_concat" /\ Exists(x)
      /\ store' = [store EXCEPT ![x].data = buf, ![x].size = Len(buf),
                                ![x].offset = Len(buf), ![x].kind = "final"]
      /\ Goto(r, "post_body")
      /\ UNCHANGED <<owner, job, used, known, reported, lastEvent>>
  BY DEF PostConcat, StoreCombined, observed
<1>2. "post_body" \in MakePCs /\ "post_body" \in PCs /\ pc[r] \in MakePCs
  BY <1>1 DEF MakePCs, PostPCs, PCs
<1>3. TypeInv /\ Types /\ Building(r) /\ Gathering(r) /\ Making(r) /\ Global
  BY <1>2 DEF Inv, TypeInv, Local, Owned, Making
<1>4. /\ x \in Ids /\ x \in used /\ x \notin known /\ store[x] \in Uploads /\ Planned(store[x])
      /\ job[r] \in JobType /\ list \in Seq(Ids)
  BY <1>3, MakerFacts DEF Current
<1>5. buf \in Seq(Bytes) /\ Len(buf) \in Nat
  BY <1>4, LenProperties DEF JobType
<1>6. /\ store[x].kind = "final" /\ store[x].offset = 0 /\ job[r].seen.kind = "final"
      /\ Partials(r) = list /\ job[r].k = 1 /\ reported[x] <= 0
      /\ \A p \in ToSet(list) : Good(p) /\ (Exists(p) => Within(store[p].data, buf))
      /\ AllExist(list) => buf = Joined(list)
  BY <1>1, <1>2, <1>3, <1>4 DEF Building, Gathering, Current, Global, ReportedBytesKept
<1>7. /\ u \in Uploads /\ u # NoUpload /\ u.kind = "final" /\ u.partials = list
      /\ u.offset = Len(buf) /\ u.data = buf
  <2>1. u \in Uploads /\ u # NoUpload
    BY <1>4, <1>5, UploadFacts, HandlerAssumption
  <2> HIDE DEF buf, x
  <2> QED BY <1>4, <2>1 DEF Uploads
<1>8. store'[x] = u /\ \A i \in Ids : i # x => store'[i] = store[i]
  BY <1>1, <1>3, <1>4 DEF Types, StoreTypeOK
<1> HIDE DEF u
<1>9. pc'[r] = "post_body" /\ \A q \in Reqs : q # r => pc'[q] = pc[q]
  BY <1>1, <1>2, <1>3, GotoType
<1>10. Others(r) /\ Id(r)' = Id(r) /\ Partials(r)' = Partials(r) /\ Current(r)' = u
  BY <1>1, <1>8, <1>9 DEF Others, Id, Partials, Current
<1>11. Effect(r)
  BY <1>1, <1>3, <1>8, <1>10 DEF Effect
<1>12. Owned(r)' /\ Private(r)' /\ Planning(r)' /\ Based(r)'
  BY <1>1, <1>2, <1>3, <1>7, <1>8, <1>9, <1>10, MakerStays
<1>13. Building(r)'
  BY <1>1, <1>2, <1>6, <1>7, <1>9, <1>10 DEF Building
<1>14. \A p \in ToSet(list) : p \in known /\ store'[p] = store[p]
  <2>1. known \subseteq Ids
    BY <1>3 DEF Types
  <2> HIDE DEF x, list
  <2> QED BY <1>4, <1>6, <1>8, <2>1 DEF Good
<1>15. Gathering(r)'
  <2>1. \A p \in ToSet(list) : Good(p)' /\ (store'[p] # NoUpload => Within(store'[p].data, buf))
    BY <1>1, <1>6, <1>14 DEF Good, Exists
  <2>2. ASSUME \A p \in ToSet(list) : store'[p] # NoUpload
        PROVE  buf = FlattenSeq([i \in DOMAIN list |-> store'[list[i]].data])
    <3> HIDE DEF list, buf
    <3> QED BY <1>4, <1>6, <1>14, <2>2, JoinedKeeps
  <2>3. list = u.partials /\ buf = u.data /\ job'[r].buf = buf
    BY <1>1, <1>7
  <2> HIDE DEF list, buf
  <2> QED BY <1>9, <1>10, <2>1, <2>2, <2>3 DEF Gathering, AllExist, Joined, Exists
<1>16. Reread(r)'
  BY <1>9 DEF Reread, FinishPCs
<1>17. Local(r)'
  BY <1>12, <1>13, <1>15, <1>16 DEF Local
<1>18. Planned(u) /\ reported'[x] <= u.offset /\ u.offset = Len(u.data)
  <2>1. reported[x] \in Nat
    BY <1>3, <1>4 DEF Types
  <2> HIDE DEF x, buf
  <2> QED BY <1>1, <1>4, <1>5, <1>6, <1>7, <2>1 DEF Planned
<1> HIDE DEF x
<1> QED BY <1>1, <1>4, <1>7, <1>8, <1>10, <1>11, <1>17, <1>18, ChangeKeeps

LEMMA IdsUsed == ASSUME Inv, NEW q \in Reqs PROVE Id(q) \in used \union {NoId}
<1>1. /\ pc[q] \in PCs /\ Typed(q) /\ Local(q) /\ known \subseteq used
      /\ pc[q] = "idle" => Id(q) = NoId
  BY DEF Inv, TypeInv, Types, Global, Registered, Blank, Id
<1>2. CASE pc[q] \in {"idle", "post_create"}
  BY <1>1, <1>2 DEF Local, Owned
<1>3. CASE pc[q] \in MakePCs \union FinishPCs
  BY <1>1, <1>3 DEF Local, Private, Making
<1>4. CASE pc[q] \in LockPCs \union HoldPCs \union {"delete_hook"}
  BY <1>1, <1>4 DEF Local, Owned
<1>5. pc[q] \in {"idle", "post_create"} \union MakePCs \union FinishPCs \union LockPCs
                  \union HoldPCs \union {"delete_hook"}
  BY <1>1 DEF PCs, MakePCs, HoldPCs, DeletePCs
<1> QED BY <1>2, <1>3, <1>4, <1>5

LEMMA PostCreateKeeps ==
  ASSUME Deployment, Inv, TypeInv', NEW r \in Reqs, NEW x \in Ids, PostCreate(r, x)
  PROVE  Inv'
<1> DEFINE u == job[r].seen
           l == IF u.kind = "final" THEN "post_fetch" ELSE "post_body"
<1>1. /\ pc[r] = "post_create" /\ x \notin used
      /\ store' = [store EXCEPT ![x] = u] /\ job' = [job EXCEPT ![r].id = x]
      /\ Goto(r, l) /\ used' = used \union {x}
      /\ reported' = [reported EXCEPT ![x] = 0]
      /\ UNCHANGED <<owner, known, lastEvent>>
  BY DEF PostCreate, CreateUpload, Deployment
<1>2. /\ TypeInv /\ Types /\ Planning(r) /\ u \in Uploads /\ Global
      /\ known \subseteq used /\ job[r] \in JobType /\ job \in [Reqs -> JobType]
  BY <1>1 DEF Inv, TypeInv, Types, Typed, PostPCs, Local, Global, Registered
<1>3. /\ Planned(u) /\ u.offset = 0 /\ u.data = <<>> /\ job[r].k = 1 /\ u # NoUpload
      /\ u.partials \in Seq(Ids)
  BY <1>1, <1>2, HandlerAssumption DEF Planning, Uploads
<1>4. store'[x] = u /\ \A i \in Ids : i # x => store'[i] = store[i]
  BY <1>1, <1>2 DEF Types, StoreTypeOK
<1>5. /\ job'[r].id = x /\ job'[r].seen = u /\ job'[r].k = 1 /\ job'[r].buf = job[r].buf
      /\ \A q \in Reqs : q # r => job'[q] = job[q]
  BY <1>1, <1>2, <1>3 DEF JobType
<1> HIDE DEF u
<1>6. l \in MakePCs /\ l \in PCs /\ l \in {"post_fetch", "post_body"}
      /\ (l = "post_fetch" <=> u.kind = "final")
  BY DEF MakePCs, PostPCs, PCs
<1> HIDE DEF l
<1>7. pc'[r] = l /\ \A q \in Reqs : q # r => pc'[q] = pc[q]
  BY <1>1, <1>2, <1>6, GotoType
<1>8. Others(r) /\ Id(r)' = x /\ Current(r)' = u /\ Partials(r)' = u.partials
  BY <1>1, <1>4, <1>5, <1>7 DEF Others, Id, Current, Partials
<1>9. Effect(r)
  BY <1>1, <1>4, <1>8 DEF Effect
<1>10. x \notin known' /\ x \in used'
  BY <1>1, <1>2
<1>11. l \notin LockPCs \union HoldPCs \union FinishPCs \union {"delete_hook", "post_create"}
  BY <1>6 DEF LockPCs, HoldPCs, FinishPCs, PatchPCs, GetPCs
<1>12. Owned(r)'
  BY <1>7, <1>8, <1>10, <1>11 DEF Owned
<1>13. Private(r)'
  <2>1. ASSUME NEW q \in Reqs, Id(q)' = x PROVE q = r
    <3> SUFFICES ASSUME q # r PROVE FALSE
      OBVIOUS
    <3>1. Id(q)' = Id(q)
      BY <1>5 DEF Id
    <3> QED BY <1>1, <2>1, <3>1, IdsUsed, HandlerAssumption
  <2> QED BY <1>3, <1>4, <1>8, <1>10, <2>1 DEF Private, Exists
<1>14. Planning(r)' /\ Based(r)' /\ Reread(r)'
  BY <1>6, <1>7 DEF Planning, Based, Reread, FinishPCs
<1>15. Building(r)'
  <2>1. u.kind = "final" => Len(u.partials) \in Nat /\ 1 \in 1..Len(u.partials)
    <3>1. ASSUME u.kind = "final" PROVE Len(u.partials) \in Nat \ {0}
      BY <1>3, <3>1, EmptySeq DEF Planned
    <3> QED BY <3>1
  <2> QED BY <1>3, <1>5, <1>6, <1>7, <1>8, <2>1 DEF Building
<1>16. Gathering(r)'
  BY <1>6, <1>7, <1>8 DEF Gathering
<1>17. Local(r)'
  BY <1>12, <1>13, <1>14, <1>15, <1>16 DEF Local
<1>18. /\ reported'[x] = 0 /\ \A i \in Ids : i # x => reported'[i] = reported[i]
  BY <1>1, <1>2 DEF Types
<1>19. Len(u.data) = 0
  BY <1>3, EmptySeq
<1> QED BY <1>1, <1>2, <1>3, <1>4, <1>8, <1>9, <1>10, <1>17, <1>18, <1>19, ChangeKeeps

LEMMA DeleteRemoveKeeps ==
  ASSUME Deployment, Inv, TypeInv', NEW r \in Reqs, DeleteRemove(r)
  PROVE  Inv'
<1> DEFINE x == Id(r)
<1>1. /\ pc[r] = "delete_remove" /\ Exists(x) /\ store' = [store EXCEPT ![x] = NoUpload]
      /\ Goto(r, "delete_emit")
      /\ UNCHANGED <<owner, job, used, known, reported, lastEvent>>
  BY DEF DeleteRemove, Delete, observed
<1>2. TypeInv /\ Types /\ x \in Ids /\ x \in known /\ x \in used /\ owner[x] = r
  BY <1>1 DEF Inv, TypeInv, Types, Global, Registered, Local, Owned, HoldPCs
<1>3. store'[x] = NoUpload /\ \A i \in Ids : i # x => store'[i] = store[i]
  BY <1>1, <1>2 DEF Types, StoreTypeOK
<1>4. "delete_emit" \in PCs /\ "delete_emit" \in HoldPCs
  BY DEF PCs, DeletePCs, HoldPCs
<1>5. pc'[r] = "delete_emit" /\ \A q \in Reqs : q # r => pc'[q] = pc[q]
  BY <1>1, <1>2, <1>4, GotoType
<1>6. Others(r) /\ Id(r)' = Id(r)
  BY <1>1, <1>5 DEF Others, Id
<1>7. Effect(r)
  BY <1>1, <1>2, <1>3, <1>6 DEF Effect
<1>8. Based(r)' /\ Reread(r)'
  BY <1>3, <1>5, <1>6 DEF Based, Reread, Exists, FinishPCs
<1>9. Local(r)'
  BY <1>1, <1>2, <1>4, <1>5, <1>6, <1>8, ServeLocal
<1> HIDE DEF x
<1> QED BY <1>1, <1>2, <1>3, <1>6, <1>7, <1>9, ChangeKeeps

LEMMA PostRemoveKeeps ==
  ASSUME Deployment, Inv, TypeInv', NEW r \in Reqs, PostRemove(r)
  PROVE  Inv'
<1> DEFINE x == Partial(r)
<1>1. /\ pc[r] = "post_remove" /\ Exists(x) /\ store' = [store EXCEPT ![x] = NoUpload]
      /\ Goto(r, "post_emit")
      /\ UNCHANGED <<owner, job, used, known, reported, lastEvent>>
  BY DEF PostRemove, Delete, observed
<1>2. "post_emit" \in MakePCs /\ "post_emit" \in PCs /\ pc[r] \in MakePCs
  BY <1>1 DEF MakePCs, PostPCs, PCs
<1>3. /\ TypeInv /\ Types /\ Building(r) /\ Gathering(r) /\ Reread(r) /\ Making(r)
      /\ known \subseteq Ids /\ known \subseteq used
  BY <1>2 DEF Inv, TypeInv, Types, Global, Registered, Local, Owned, Making
<1> DEFINE list == Current(r).partials
<1>4. /\ list \in Seq(Ids) /\ Planned(Current(r)) /\ Exists(Id(r)) /\ Id(r) \in Ids
      /\ Id(r) \notin known
  BY <1>3, MakerFacts
<1>5. /\ Partials(r) = list /\ job[r].k \in 1..Len(list)
      /\ DOMAIN list = 1..Len(list)
      /\ Current(r).kind = "final" /\ job[r].seen.kind = "final"
      /\ On("cleanup-concat-partials")
  BY <1>1, <1>2, <1>3, <1>4, LenProperties DEF Building
<1>6. x \in ToSet(list) /\ x \in known /\ x \in Ids /\ x \in used /\ x # Id(r)
  <2>1. x \in ToSet(list)
    BY <1>5 DEF Partial, ToSet
  <2> QED BY <1>3, <1>4, <2>1 DEF Planned
<1>7. store'[x] = NoUpload /\ \A i \in Ids : i # x => store'[i] = store[i]
  BY <1>1, <1>3, <1>6 DEF Types, StoreTypeOK
<1>8. pc'[r] = "post_emit" /\ \A q \in Reqs : q # r => pc'[q] = pc[q]
  BY <1>1, <1>2, <1>3, GotoType
<1>9. Others(r) /\ Id(r)' = Id(r) /\ Partials(r)' = Partials(r) /\ Partial(r)' = x
  BY <1>1, <1>8 DEF Others, Id, Partials, Partial
<1>10. Current(r)' = Current(r) /\ store'[Id(r)] # NoUpload
  BY <1>4, <1>6, <1>7, <1>9 DEF Current, Exists
<1>11. Effect(r)
  BY <1>1, <1>5, <1>6, <1>7, <1>9 DEF Effect
<1>12. Owned(r)' /\ Private(r)' /\ Planning(r)' /\ Based(r)'
  BY <1>1, <1>2, <1>3, <1>8, <1>9, <1>10, MakerStays
<1>13. Building(r)'
  BY <1>1, <1>2, <1>3, <1>5, <1>7, <1>8, <1>9, <1>10 DEF Building, Exists
<1>14. Gathering(r)'
  <2>1. ASSUME NEW p \in ToSet(list)
        PROVE  Good(p)' /\ (store'[p] # NoUpload => Within(store'[p].data, job[r].buf))
    <3>1. p \in known /\ p \in Ids
      BY <1>3, <1>4, <2>1 DEF Planned
    <3>2. Good(p) /\ (Exists(p) => Within(store[p].data, job[r].buf))
      BY <1>1, <1>3, <1>5, <2>1 DEF Gathering
    <3> HIDE DEF x, list
    <3> QED BY <1>1, <1>7, <3>1, <3>2 DEF Good, Exists
  <2>2. ~(\A p \in ToSet(list) : store'[p] # NoUpload)
    BY <1>6, <1>7
  <2>3. Current(r).data = job[r].buf
    BY <1>1, <1>3, <1>5 DEF Gathering
  <2>4. list' = list
    BY <1>10
  <2> HIDE DEF x
  <2> QED BY <1>1, <1>8, <1>10, <2>1, <2>2, <2>3, <2>4 DEF Gathering, AllExist, Exists
<1>15. Reread(r)'
  BY <1>1, <1>3, <1>4, <1>8, <1>9, <1>10 DEF Reread, FinishPCs, Exists
<1>16. Local(r)'
  BY <1>12, <1>13, <1>14, <1>15 DEF Local
<1> HIDE DEF x
<1> QED BY <1>1, <1>6, <1>7, <1>9, <1>11, <1>16, ChangeKeeps

-----------------------------------------------------------------------------
(* The invariant holds in every state. *)

LEMMA InvInit == Init => Inv
<1> SUFFICES ASSUME Init PROVE Inv
  OBVIOUS
<1>1. TypeInv
  BY TypeInit
<1>2. /\ \A id \in Ids : ~Exists(id) /\ lastEvent[id] = "none"
      /\ known = {} /\ used = {}
      /\ \A r \in Reqs : pc[r] = "idle"
  BY DEF Init, StoreInit, Exists
<1>3. Global
  BY <1>2 DEF Global, Registered, OffsetCountsBytes, ReportedBytesKept, FinalsJoined
<1>4. ASSUME NEW r \in Reqs PROVE Local(r)
  BY <1>2
  DEF Local, Owned, Private, Making, Planning, Building, Gathering, Based, Reread,
      LockPCs, HoldPCs, PatchPCs, GetPCs, FinishPCs, MakePCs, PostPCs
<1> QED BY <1>1, <1>3, <1>4 DEF Inv

LEMMA PostKeeps ==
  ASSUME Deployment, Inv, TypeInv', NoFinalBody, NEW r \in Reqs, Post(r)
  PROVE  Inv'
<1>1. ASSUME NEW size \in Sizes, NEW defer \in BOOLEAN, NEW kind \in Kinds,
             NEW list \in FinalLists, PostArrive(r, size, defer, kind, list)
      PROVE  Inv'
  BY <1>1, PostArriveKeeps
<1>2. ASSUME NEW id \in Ids, PostCreate(r, id) PROVE Inv'
  BY <1>2, PostCreateKeeps
<1>3. CASE PostFetch(r)
  BY <1>3, PostFetchKeeps
<1>4. CASE PostCollect(r)
  BY <1>4, PostCollectKeeps
<1>5. CASE PostConcat(r)
  BY <1>5, PostConcatKeeps
<1>6. CASE PostNoBody(r)
  BY <1>6, PostNoBodyKeeps
<1>7. ASSUME NEW n \in Lengths, PostBody(r, n) PROVE Inv'
  BY <1>7, PostBodyKeeps
<1>8. CASE PostInfo(r)
  BY <1>8, PostInfoKeeps
<1>9. CASE PostLook(r)
  BY <1>9, PostLookKeeps
<1>10. CASE PostRemove(r)
  BY <1>10, PostRemoveKeeps
<1>11. CASE PostEmit(r)
  BY <1>11, PostEmitKeeps
<1>12. CASE PostReread(r)
  BY <1>12, PostRereadKeeps
<1>13. CASE PostAnnounce(r)
  BY <1>13, PostAnnounceKeeps
<1> QED
  BY <1>1, <1>2, <1>3, <1>4, <1>5, <1>6, <1>7, <1>8, <1>9, <1>10, <1>11, <1>12, <1>13 DEF Post

LEMMA PatchKeeps ==
  ASSUME Deployment, Inv, TypeInv', NEW r \in Reqs, Patch(r)
  PROVE  Inv'
<1>1. ASSUME NEW id \in Ids, PatchArrive(r, id) PROVE Inv'
  BY <1>1, ArriveKeeps DEF PatchArrive, LockPCs
<1>2. CASE PatchBadBody(r)
  BY <1>2, FailKeeps DEF PatchBadBody
<1>3. ASSUME NEW n \in Lengths, PatchLoad(r, n) PROVE Inv'
  BY <1>3, PatchLoadKeeps
<1>4. ASSUME NEW n \in Lengths, PatchDeclare(r, n) PROVE Inv'
  BY <1>4, PatchDeclareKeeps
<1>5. ASSUME NEW n \in Lengths, PatchWrite(r, n) PROVE Inv'
  BY <1>5, PatchWriteKeeps
<1>6. CASE PatchInfo(r)
  BY <1>6, PatchInfoKeeps
<1>7. CASE PatchEmit(r)
  BY <1>7, PatchEmitKeeps
<1> QED BY <1>1, <1>2, <1>3, <1>4, <1>5, <1>6, <1>7 DEF Patch

LEMMA GetKeeps ==
  ASSUME Deployment, Inv, TypeInv', NEW r \in Reqs, Get(r)
  PROVE  Inv'
<1>1. ASSUME NEW id \in Ids, GetArrive(r, id) PROVE Inv'
  BY <1>1, ArriveKeeps DEF GetArrive, LockPCs
<1>2. CASE GetLoad(r)
  BY <1>2, GetLoadKeeps
<1>3. CASE GetRead(r)
  BY <1>3, FailKeeps DEF GetRead
<1> QED BY <1>1, <1>2, <1>3 DEF Get

LEMMA DeleteKeeps ==
  ASSUME Deployment, Inv, TypeInv', NEW r \in Reqs, DeleteReq(r)
  PROVE  Inv'
<1>1. ASSUME NEW id \in Ids, DeleteArrive(r, id) PROVE Inv'
  <2>1. CASE On("hooks")
    BY <1>1, <2>1, ArriveKeeps DEF DeleteArrive
  <2>2. CASE ~On("hooks")
    BY <1>1, <2>2, ArriveKeeps DEF DeleteArrive, LockPCs
  <2> QED BY <2>1, <2>2
<1>2. CASE DeleteApproved(r)
  BY <1>2, DeleteApprovedKeeps
<1>3. CASE DeleteRemove(r)
  BY <1>3, DeleteRemoveKeeps
<1>4. CASE DeleteEmit(r)
  BY <1>4, DeleteEmitKeeps
<1> QED BY <1>1, <1>2, <1>3, <1>4 DEF DeleteReq

LEMMA SharedKeeps ==
  ASSUME Deployment, Inv, TypeInv', NEW r \in Reqs, Shared(r)
  PROVE  Inv'
<1>1. CASE Lock(r)
  BY <1>1, LockKeeps
<1>2. CASE LockTimeout(r) \/ Cancel(r) \/ Refuse(r)
  BY <1>2, FailKeeps DEF LockTimeout, Cancel, Refuse
<1>3. CASE Finish(r)
  BY <1>3, FinishKeeps
<1>4. CASE Finalize(r)
  BY <1>4, FinalizeKeeps
<1> QED BY <1>1, <1>2, <1>3, <1>4 DEF Shared

LEMMA StutterKeeps ==
  ASSUME Inv, UNCHANGED <<store, owner, pc, job, used, known, reported, lastEvent>>,
         TypeInv'
  PROVE  Inv'
<1>1. Global'
  BY DEF Inv, Global, Registered, Exists, Planned, OffsetCountsBytes, ReportedBytesKept,
         FinalsJoined, Good, AllExist, Joined
<1>2. ASSUME NEW r \in Reqs PROVE Local(r)'
  <2>1. /\ Owned(r) /\ Private(r) /\ Planning(r) /\ Building(r) /\ Gathering(r)
        /\ Based(r) /\ Reread(r)
    BY DEF Inv, Local
  <2>2. Owned(r)' /\ Private(r)' /\ Planning(r)' /\ Based(r)' /\ Reread(r)'
    BY <2>1 DEF Owned, Private, Making, Planning, Planned, Based, Reread, Id, Current, Exists
  <2>3. Building(r)'
    BY <2>1 DEF Building, Id, Current, Partials, Partial, Exists, Good
  <2>4. Gathering(r)'
    BY <2>1 DEF Gathering, Making, Id, Current, Exists, Good, AllExist, Joined
  <2> QED BY <2>2, <2>3, <2>4 DEF Local
<1> QED BY <1>1, <1>2 DEF Inv

LEMMA InvStep ==
  ASSUME Deployment, Inv, [Next]_vars, [NoFinalBody]_vars
  PROVE  Inv'
<1>1. TypeInv'
  BY TypeStep DEF Inv
<1>2. CASE UNCHANGED vars
  BY <1>1, <1>2, StutterKeeps DEF vars
<1>3. ASSUME NEW r \in Reqs, Post(r), NoFinalBody PROVE Inv'
  BY <1>1, <1>3, PostKeeps
<1>4. ASSUME NEW r \in Reqs, Patch(r) PROVE Inv'
  BY <1>1, <1>4, PatchKeeps
<1>5. ASSUME NEW r \in Reqs, Get(r) PROVE Inv'
  BY <1>1, <1>5, GetKeeps
<1>6. ASSUME NEW r \in Reqs, DeleteReq(r) PROVE Inv'
  BY <1>1, <1>6, DeleteKeeps
<1>7. ASSUME NEW r \in Reqs, Shared(r) PROVE Inv'
  BY <1>1, <1>7, SharedKeeps
<1>8. ASSUME NEW r \in Reqs, NEW id \in Ids, HeadRequest(r, id) PROVE Inv'
  BY <1>1, <1>8, HeadKeeps
<1>9. ASSUME NEW id \in Ids, Expire(id) PROVE Inv'
  BY <1>1, <1>9, StutterKeeps DEF Expire, observed
<1> QED
  BY <1>2, <1>3, <1>4, <1>5, <1>6, <1>7, <1>8, <1>9 DEF Next

(* What PlainBodies asks of the clients holds by configuration when the    *)
(* server has not both extensions: only final uploads are assembled, and   *)
(* only creation-with-upload takes a body with a POST.                     *)
LEMMA PlainStep ==
  ASSUME Inv, ~(On("concatenation") /\ On("creation-with-upload"))
  PROVE  NoFinalBody
<1> SUFFICES ASSUME NEW r \in Reqs, NEW n \in Lengths, PostBody(r, n)
             PROVE  job[r].seen.kind # "final"
  BY DEF NoFinalBody
<1>1. pc[r] = "post_body" /\ On("creation-with-upload")
  BY DEF PostBody
<1>2. pc[r] \in MakePCs /\ Making(r) /\ job[r].seen.kind = Current(r).kind
  BY <1>1 DEF MakePCs, PostPCs, Inv, Local, Owned, Making, Building
<1>3. Planned(Current(r))
  BY <1>2, MakerFacts
<1> QED BY <1>1, <1>2, <1>3 DEF Planned

LEMMA Invariance ==
  ASSUME Deployment
  PROVE  Spec /\ PlainBodies => []Inv
<1>1. Inv /\ [Next]_vars /\ [NoFinalBody]_vars => Inv'
  BY InvStep
<1> QED BY <1>1, InvInit, PTL DEF Spec, PlainBodies

(* post.rs 138-150: a POST that creates a final upload writes a body over  *)
(* it only where a server enables concatenation together with              *)
(* creation-with-upload; everywhere else the theorems below need no        *)
(* promise of the clients.                                                 *)
THEOREM PlainByConfiguration ==
  ASSUME Deployment, ~(On("concatenation") /\ On("creation-with-upload"))
  PROVE  Spec => PlainBodies /\ []Inv
<1>1. Inv => NoFinalBody
  BY PlainStep
<1>2. Inv /\ [Next]_vars => Inv'
  BY <1>1, InvStep
<1> QED BY <1>1, <1>2, InvInit, PTL DEF Spec, PlainBodies

(* patch.rs 56-124 and post.rs 123-150: the offset the server answers with *)
(* is exactly the number of bytes it has, with any number of requests      *)
(* under way for the same and for other uploads.                           *)
THEOREM OffsetsCount ==
  ASSUME Deployment
  PROVE  Spec /\ PlainBodies => []OffsetCountsBytes
<1>1. Inv => OffsetCountsBytes
  BY DEF Inv, Global
<1> QED BY <1>1, Invariance, PTL

(* The Upload-Offset of any 201, 204 or HEAD stays a safe point to resume  *)
(* from for as long as the upload exists.                                  *)
THEOREM ResumePointsKept ==
  ASSUME Deployment
  PROVE  Spec /\ PlainBodies => []ReportedBytesKept
<1>1. Inv => ReportedBytesKept
  BY DEF Inv, Global
<1> QED BY <1>1, Invariance, PTL

(* fetch_partial_infos and concatenate (post.rs 123-126) read the partials *)
(* one by one and without their locks, and still the final upload is their *)
(* concatenation: a complete partial can only be deleted.                  *)
THEOREM FinalsAreConcatenations ==
  ASSUME Deployment
  PROVE  Spec /\ PlainBodies => []FinalIsConcatenation
<1>1. ASSUME Inv PROVE FinalIsConcatenation
  <2> SUFFICES ASSUME NEW id \in Ids, Assembled(id), Exists(id), store[id].kind = "final",
                      AllExist(store[id].partials)
               PROVE  store[id].data = Joined(store[id].partials)
    BY DEF FinalIsConcatenation, AllExist, Joined
  <2>1. CASE id \in known
    BY <1>1, <2>1 DEF Inv, Global, FinalsJoined
  <2>2. ASSUME NEW r \in Reqs, Id(r) = id,
               pc[r] \in {"post_body", "post_info", "post_look", "post_announce"}
        PROVE  store[id].data = Joined(store[id].partials)
    <3>1. pc[r] \in MakePCs
      BY <2>2 DEF MakePCs, PostPCs
    <3>2. Making(r)
      BY <1>1, <3>1 DEF Inv, Local, Owned, Making
    <3> QED BY <1>1, <2>2, <3>2 DEF Inv, Local, Gathering, Current
  <2> QED BY <2>1, <2>2 DEF Assembled
<1> QED BY <1>1, Invariance, PTL

-----------------------------------------------------------------------------
(* What a step never does. *)

(* The steps that write to the store. *)
LEMMA StoreSteps ==
  ASSUME [Next]_vars
  PROVE  \/ store' = store
         \/ \E r \in Reqs, id \in Ids : PostCreate(r, id)
         \/ \E r \in Reqs : PostConcat(r) \/ PostRemove(r) \/ DeleteRemove(r)
         \/ \E r \in Reqs, n \in Lengths :
              PatchDeclare(r, n) \/ PatchWrite(r, n) \/ PostBody(r, n)
<1>1. CASE UNCHANGED vars
  BY <1>1 DEF vars
<1>2. ASSUME NEW r \in Reqs, Post(r)
      PROVE  \/ store' = store \/ \E id \in Ids : PostCreate(r, id)
             \/ PostConcat(r) \/ PostRemove(r) \/ \E n \in Lengths : PostBody(r, n)
  BY <1>2 DEF Post, PostArrive, PostFetch, PostCollect, PostNoBody, PostInfo, PostLook,
              PostEmit, PostReread, PostAnnounce
<1>3. ASSUME NEW r \in Reqs, Patch(r)
      PROVE  store' = store \/ \E n \in Lengths : PatchDeclare(r, n) \/ PatchWrite(r, n)
  BY <1>3 DEF Patch, PatchArrive, Arrive, PatchBadBody, Fail, PatchLoad, PatchInfo, PatchEmit
<1>4. ASSUME NEW r \in Reqs, Get(r) PROVE store' = store
  BY <1>4 DEF Get, GetArrive, Arrive, GetLoad, GetRead, Fail
<1>5. ASSUME NEW r \in Reqs, DeleteReq(r) PROVE store' = store \/ DeleteRemove(r)
  BY <1>5 DEF DeleteReq, DeleteArrive, Arrive, DeleteApproved, DeleteEmit
<1>6. ASSUME NEW r \in Reqs, Shared(r) PROVE store' = store
  BY <1>6 DEF Shared, Lock, LockTimeout, Cancel, Refuse, Finish, Finalize, Fail
<1>7. ASSUME NEW r \in Reqs, NEW id \in Ids, HeadRequest(r, id) PROVE store' = store
  BY <1>7 DEF HeadRequest
<1>8. ASSUME NEW id \in Ids, Expire(id) PROVE store' = store
  BY <1>8 DEF Expire
<1> QED BY <1>1, <1>2, <1>3, <1>4, <1>5, <1>6, <1>7, <1>8 DEF Next

(* The steps that send an event. *)
LEMMA EventSteps ==
  ASSUME [Next]_vars
  PROVE  \/ lastEvent' = lastEvent
         \/ \E r \in Reqs : \/ PatchEmit(r) \/ Finalize(r) \/ PostAnnounce(r)
                            \/ PostEmit(r) \/ DeleteEmit(r)
<1> USE DEF observed
<1>1. CASE UNCHANGED vars
  BY <1>1 DEF vars
<1>2. ASSUME NEW r \in Reqs, Post(r)
      PROVE  lastEvent' = lastEvent \/ PostEmit(r) \/ PostAnnounce(r)
  BY <1>2 DEF Post, PostArrive, PostCreate, PostFetch, PostCollect, PostConcat, PostNoBody,
              PostBody, PostInfo, PostLook, PostRemove, PostReread
<1>3. ASSUME NEW r \in Reqs, Patch(r) PROVE lastEvent' = lastEvent \/ PatchEmit(r)
  BY <1>3 DEF Patch, PatchArrive, Arrive, PatchBadBody, Fail, PatchLoad, PatchDeclare,
              PatchWrite, PatchInfo
<1>4. ASSUME NEW r \in Reqs, Get(r) PROVE lastEvent' = lastEvent
  BY <1>4 DEF Get, GetArrive, Arrive, GetLoad, GetRead, Fail
<1>5. ASSUME NEW r \in Reqs, DeleteReq(r) PROVE lastEvent' = lastEvent \/ DeleteEmit(r)
  BY <1>5 DEF DeleteReq, DeleteArrive, Arrive, DeleteApproved, DeleteRemove
<1>6. ASSUME NEW r \in Reqs, Shared(r) PROVE lastEvent' = lastEvent \/ Finalize(r)
  BY <1>6 DEF Shared, Lock, LockTimeout, Cancel, Refuse, Finish, Fail
<1>7. ASSUME NEW r \in Reqs, NEW id \in Ids, HeadRequest(r, id) PROVE lastEvent' = lastEvent
  BY <1>7 DEF HeadRequest
<1>8. ASSUME NEW id \in Ids, Expire(id) PROVE lastEvent' = lastEvent
  BY <1>8 DEF Expire
<1> QED BY <1>1, <1>2, <1>3, <1>4, <1>5, <1>6, <1>7, <1>8 DEF Next

(* A write by the holder of the lock adds to the end of the upload.        *)
LEMMA PatchAppends ==
  ASSUME Inv, NEW r \in Reqs, NEW n \in Lengths, PatchWrite(r, n)
  PROVE  /\ Id(r) \in known /\ Id(r) \in Ids /\ Exists(Id(r))
         /\ store'[Id(r)] \in Uploads /\ store'[Id(r)].size = Current(r).size
         /\ store'[Id(r)].data = Current(r).data \o Chunk(r, n)
         /\ Current(r).size # NoLen => Len(Current(r).data) + n <= Current(r).size
         /\ \A i \in Ids : i # Id(r) => store'[i] = store[i]
<1> DEFINE x == Id(r)
           u == Written(store[x], job[r].seen.offset, Chunk(r, n))
<1>1. /\ pc[r] = "patch_write" /\ Exists(x)
      /\ ~Exceeds(store[x], job[r].seen.offset, Chunk(r, n))
      /\ store' = [store EXCEPT ![x] = u]
  BY DEF PatchWrite, WriteChunk
<1>2. /\ x \in known /\ x \in Ids /\ store[x] \in Uploads
      /\ job[r].seen.offset = store[x].offset /\ store[x].offset = Len(store[x].data)
      /\ store \in [Ids -> Uploads \union {NoUpload}]
  BY <1>1 DEF Inv, TypeInv, Types, StoreTypeOK, Exists, Local, Owned, Based, Current,
              HoldPCs, PatchPCs, Global, OffsetCountsBytes
<1>3. u \in Uploads /\ u.size = store[x].size /\ u.data = store[x].data \o Chunk(r, n)
  BY <1>1, <1>2, WrittenFacts
<1>4. store'[x] = u /\ \A i \in Ids : i # x => store'[i] = store[i]
  BY <1>1, <1>2
<1>5. store[x].size # NoLen => Len(store[x].data) + n <= store[x].size
  <2>1. Len(Chunk(r, n)) = n /\ n \in Nat /\ Len(store[x].data) \in Nat
        /\ store[x].size \in Nat \union {NoLen}
    BY <1>2, ChunkFacts DEF Uploads
  <2> QED BY <1>1, <1>2, <2>1 DEF Exceeds
<1> QED BY <1>1, <1>2, <1>3, <1>4, <1>5 DEF Current

(* patch.rs 56-124: once the server has told anyone of an upload, its      *)
(* bytes stay where they are; every write goes behind them.                *)
THEOREM WrittenBytesStay ==
  ASSUME Deployment
  PROVE  Spec /\ PlainBodies => WrittenBytesKept
<1> DEFINE Kept == \A id \in known :
                     Exists(id) /\ Exists(id)' => IsPrefix(store[id].data, store[id].data')
<1>1. ASSUME Inv, [Next]_vars PROVE Kept
  <2> SUFFICES ASSUME NEW id \in known, Exists(id), store'[id] # NoUpload
               PROVE  IsPrefix(store[id].data, store'[id].data)
    BY DEF Exists
  <2>1. /\ id \in Ids /\ id \in used /\ store[id] \in Uploads
        /\ store[id].data \in Seq(Bytes) /\ TypeInv
        /\ store \in [Ids -> Uploads \union {NoUpload}]
    BY <1>1 DEF Inv, TypeInv, Types, StoreTypeOK, Exists, Uploads, Global, Registered
  <2>2. CASE store'[id] = store[id]
    BY <2>1, <2>2, PrefixFacts
  <2>3. ASSUME NEW r \in Reqs, NEW x \in Ids, PostCreate(r, x) PROVE store'[id] = store[id]
    BY <2>1, <2>3 DEF PostCreate, CreateUpload, Deployment
  <2>4. ASSUME NEW r \in Reqs, PostConcat(r) PROVE store'[id] = store[id]
    <3>1. Id(r) \notin known
      BY <1>1, <2>4 DEF PostConcat, Inv, Local, Owned, MakePCs, PostPCs
    <3>2. \E u : store' = [store EXCEPT ![Id(r)] = u]
      BY <2>4 DEF PostConcat, StoreCombined
    <3> QED BY <2>1, <3>1, <3>2
  <2>5. ASSUME NEW r \in Reqs, PostRemove(r) \/ DeleteRemove(r) PROVE store'[id] = store[id]
    <3>1. \E x : store' = [store EXCEPT ![x] = NoUpload]
      BY <2>5 DEF PostRemove, DeleteRemove, Delete
    <3> QED BY <2>1, <3>1
  <2>6. ASSUME NEW r \in Reqs, NEW n \in Lengths, PostBody(r, n) PROVE store'[id] = store[id]
    <3>1. Id(r) \notin known
      BY <1>1, <2>6 DEF PostBody, Inv, Local, Owned, MakePCs, PostPCs
    <3>2. \E u : store' = [store EXCEPT ![Id(r)] = u]
      BY <2>6 DEF PostBody, WriteChunk
    <3> QED BY <2>1, <3>1, <3>2
  <2>7. ASSUME NEW r \in Reqs, NEW n \in Lengths, PatchDeclare(r, n)
        PROVE  store'[id].data = store[id].data
    <3>1. store' = [store EXCEPT ![Id(r)].size = n, ![Id(r)].deferred = FALSE]
      BY <2>7 DEF PatchDeclare, DeclareLength
    <3> QED BY <2>1, <3>1 DEF Uploads
  <2>8. ASSUME NEW r \in Reqs, NEW n \in Lengths, PatchWrite(r, n)
        PROVE  IsPrefix(store[id].data, store'[id].data)
    <3>1. CASE id = Id(r)
      <4>1. store'[id].data = store[id].data \o Chunk(r, n) /\ Chunk(r, n) \in Seq(Bytes)
        BY <1>1, <2>8, <3>1, PatchAppends, ChunkFacts DEF Current
      <4> QED BY <2>1, <4>1, PrefixFacts
    <3>2. CASE id # Id(r)
      BY <1>1, <2>1, <2>2, <2>8, <3>2, PatchAppends
    <3> QED BY <3>1, <3>2
  <2>9. IsPrefix(store[id].data, store[id].data)
    BY <2>1, PrefixFacts
  <2> QED
    BY <1>1, <2>2, <2>3, <2>4, <2>5, <2>6, <2>7, <2>8, <2>9, StoreSteps
<1>2. Inv /\ [Next]_vars => [Kept]_vars
  BY <1>1
<1> QED BY <1>2, Invariance, PTL DEF Spec, WrittenBytesKept

(* post.rs 155-173: cleanup deletes a partial only after its bytes are in  *)
(* the final upload, whatever became of the partials meanwhile.            *)
THEOREM CleanupKeepsBytes ==
  ASSUME Deployment
  PROVE  Spec /\ PlainBodies => CleanupAfterAssembly
<1> DEFINE Cleanup ==
             \A r \in Reqs : PostRemove(r) =>
               Exists(Id(r)) /\ store[Id(r)].data = job[r].buf
                 /\ \E i \in 0..Len(job[r].buf) :
                      IsPrefix(store[Partial(r)].data, SubSeq(job[r].buf, i + 1, Len(job[r].buf)))
<1>1. ASSUME Inv, NEW r \in Reqs, PostRemove(r)
      PROVE  Exists(Id(r)) /\ store[Id(r)].data = job[r].buf
               /\ \E i \in 0..Len(job[r].buf) :
                    IsPrefix(store[Partial(r)].data, SubSeq(job[r].buf, i + 1, Len(job[r].buf)))
  <2> DEFINE p == Partial(r)
             list == Current(r).partials
  <2>1. pc[r] = "post_remove" /\ Exists(p)
    BY <1>1 DEF PostRemove, Delete
  <2>2. pc[r] \in MakePCs
    BY <2>1 DEF MakePCs, PostPCs
  <2>3. Making(r) /\ Building(r) /\ Gathering(r) /\ job[r] \in JobType /\ StoreTypeOK
    BY <1>1, <2>2 DEF Inv, TypeInv, Types, Local, Owned, Making
  <2>4. Exists(Id(r)) /\ list \in Seq(Ids)
    BY <1>1, <2>3, MakerFacts
  <2>5. Partials(r) = list /\ job[r].k \in 1..Len(list) /\ Current(r).kind = "final"
    BY <2>1, <2>2, <2>3 DEF Building
  <2>6. p \in ToSet(list) /\ p \in Ids
    BY <2>4, <2>5, LenProperties, ElementOfSeq DEF Partial, ToSet
  <2>7. store[Id(r)].data = job[r].buf /\ Within(store[p].data, job[r].buf)
    BY <2>1, <2>3, <2>5, <2>6 DEF Gathering, Current
  <2>8. store[p].data \in Seq(Bytes) /\ job[r].buf \in Seq(Bytes)
    BY <2>1, <2>3, <2>6 DEF StoreTypeOK, Exists, Uploads, JobType
  <2> HIDE DEF p, list
  <2>9. \E i \in 0..Len(job[r].buf) :
          IsPrefix(store[p].data, SubSeq(job[r].buf, i + 1, Len(job[r].buf)))
    BY <2>7, <2>8, PrefixFacts
  <2> QED BY <2>4, <2>7, <2>9 DEF p
<1>2. Inv /\ [Next]_vars => [Cleanup]_vars
  BY <1>1
<1> QED BY <1>2, Invariance, PTL DEF Spec, CleanupAfterAssembly

(* delete.rs 38-53 under the lock: after UploadTerminated no handler says  *)
(* anything more of the upload.  It needs the partials left alone, for     *)
(* cleanup deletes without locks what a PATCH may just have completed.     *)
THEOREM TerminatedIsLast ==
  ASSUME Deployment, ~On("cleanup-concat-partials")
  PROVE  Spec /\ PlainBodies => NothingAfterTerminated
<1> DEFINE StaysLast == \A id \in Ids : lastEvent[id] = "terminated" => lastEvent'[id] = "terminated"
<1>1. ASSUME Inv, [Next]_vars PROVE StaysLast
  <2>1. /\ lastEvent \in [Ids -> Events]
        /\ \A id \in Ids : lastEvent[id] = "terminated" => ~Exists(id)
    BY <1>1 DEF Inv, TypeInv, Types, Global, Registered
  <2>2. CASE lastEvent' = lastEvent
    BY <2>2
  <2>3. ASSUME NEW x, Emit(x, "terminated") PROVE StaysLast
    BY <2>1, <2>3 DEF Emit
  <2>4. ASSUME NEW x, NEW event, Emit(x, event), Exists(x) PROVE StaysLast
    BY <2>1, <2>4 DEF Emit
  <2>5. ASSUME NEW r \in Reqs, PatchEmit(r) PROVE StaysLast
    <3>1. Exists(Id(r)) /\ Emit(Id(r), "progress")
      BY <1>1, <2>5 DEF PatchEmit, Inv, Local, Reread
    <3> QED BY <2>4, <3>1
  <2>6. ASSUME NEW r \in Reqs, Finalize(r) PROVE StaysLast
    <3>1. Exists(Id(r)) /\ Emit(Id(r), "finished")
      BY <1>1, <2>6 DEF Finalize, Inv, Local, Reread, FinishPCs
    <3> QED BY <2>4, <3>1
  <2>7. ASSUME NEW r \in Reqs, PostAnnounce(r) PROVE StaysLast
    <3>1. pc[r] \in MakePCs /\ Emit(Id(r), "created")
      BY <2>7 DEF PostAnnounce, MakePCs, PostPCs
    <3>2. Exists(Id(r))
      BY <1>1, <3>1, MakerFacts DEF Making, Inv, Local, Owned
    <3> QED BY <2>4, <3>1, <3>2
  <2>8. ASSUME NEW r \in Reqs, PostEmit(r) \/ DeleteEmit(r) PROVE StaysLast
    BY <2>3, <2>8 DEF PostEmit, DeleteEmit
  <2> QED BY <1>1, <2>2, <2>5, <2>6, <2>7, <2>8, EventSteps
<1>2. Inv /\ [Next]_vars => [StaysLast]_vars
  BY <1>1
<1> QED BY <1>2, Invariance, PTL DEF Spec, NothingAfterTerminated

-----------------------------------------------------------------------------
(* The handlers implement a resumable upload service. *)

(* What the service sees of an upload. *)
LEMMA ServiceView ==
  ASSUME TypeInv, NEW id \in Ids
  PROVE  /\ Exists(id) => Content[id] = store[id].data /\ Length[id] = store[id].size
         /\ ~Exists(id) => Content[id] = NoUpload /\ Length[id] = NoLen
         /\ Service!Present(id) <=> Exists(id)
<1>1. Exists(id) => store[id].data \in Seq(Bytes)
  BY DEF TypeInv, Types, StoreTypeOK, Exists, Uploads
<1> QED BY <1>1, HandlerAssumption DEF Content, Length, Service!Present

(* A step that changes one upload, as the service sees it. *)
LEMMA ServiceChange ==
  ASSUME NEW id \in Ids, NEW u, store'[id] = u,
         \A i \in Ids : i # id => store'[i] = store[i]
  PROVE  /\ u # NoUpload => /\ Content' = [Content EXCEPT ![id] = u.data]
                            /\ Length' = [Length EXCEPT ![id] = u.size]
         /\ u = NoUpload => /\ Content' = [Content EXCEPT ![id] = NoUpload]
                            /\ Length' = [Length EXCEPT ![id] = NoLen]
BY DEF Content, Length, Exists

(* A request comes to have gathered the bytes of partials, and then has    *)
(* not any more.                                                           *)
LEMMA GatheredChange ==
  ASSUME NEW r \in Reqs, \A q \in Reqs : q # r => pc'[q] = pc[q] /\ job'[q] = job[q]
  PROVE  /\ pc[r] # "post_concat" /\ pc'[r] # "post_concat" => Gathered' = Gathered
         /\ pc[r] # "post_concat" /\ pc'[r] = "post_concat" =>
              Gathered' = Gathered \union {job'[r].buf}
         /\ pc[r] = "post_concat" => job[r].buf \in Gathered
         /\ pc[r] = "post_concat" /\ pc'[r] # "post_concat" =>
              Gathered' \in {Gathered, Gathered \ {job[r].buf}}
<1> DEFINE B(q) == job[q].buf
           Rest == {B(q) : q \in {q \in Reqs : q # r /\ pc[q] = "post_concat"}}
<1>1. Rest' = Rest
  OBVIOUS
<1>2. Gathered = IF pc[r] = "post_concat" THEN Rest \union {B(r)} ELSE Rest
  BY DEF Gathered
<1>3. Gathered' = IF pc'[r] = "post_concat" THEN Rest' \union {B(r)'} ELSE Rest'
  BY DEF Gathered
<1> HIDE DEF Rest
<1> QED BY <1>1, <1>2, <1>3

(* A step that gathers nothing, and has nothing gathered. *)
Passes(r) ==
  /\ pc[r] # "post_concat" /\ pc'[r] # "post_concat"
  /\ \A q \in Reqs : q # r => pc'[q] = pc[q] /\ job'[q] = job[q]

LEMMA PassesFacts ==
  ASSUME TypeInv, NEW r \in Reqs, pc[r] # "post_concat",
         NEW l \in PCs, Goto(r, l), l # "post_concat",
         \A q \in Reqs : q # r => job'[q] = job[q]
  PROVE  Passes(r) /\ Gathered' = Gathered
<1>1. Passes(r)
  BY GotoType DEF Passes
<1> QED BY <1>1, GatheredChange DEF Passes

(* A request that stops has nothing gathered any more. *)
LEMMA EndGathers ==
  ASSUME TypeInv, NEW r \in Reqs, End(r)
  PROVE  \/ Gathered' = Gathered
         \/ pc[r] = "post_concat" /\ \E bytes \in Gathered : Gathered' = Gathered \ {bytes}
<1>1. pc'[r] = "idle" /\ \A q \in Reqs : q # r => pc'[q] = pc[q] /\ job'[q] = job[q]
  BY EndType
<1> QED BY <1>1, GatheredChange

(* The steps of a request that gather nothing. *)
Moves(r) ==
  /\ pc[r] # "post_concat"
  /\ \/ End(r)
     \/ /\ \E l \in PCs \ {"post_concat"} : Goto(r, l)
        /\ \A q \in Reqs : q # r => job'[q] = job[q]

LEMMA MovesFacts ==
  ASSUME TypeInv, NEW r \in Reqs, Moves(r)
  PROVE  Gathered' = Gathered
<1>1. CASE End(r)
  BY <1>1, EndGathers DEF Moves
<1>2. CASE ~End(r)
  <2>1. PICK l \in PCs \ {"post_concat"} : Goto(r, l)
    BY <1>2 DEF Moves
  <2> QED BY <1>2, <2>1, PassesFacts DEF Moves
<1> QED BY <1>1, <1>2

LEMMA PatchMoves ==
  ASSUME TypeInv, NEW r \in Reqs, Patch(r)
  PROVE  Moves(r)
<1>1. job \in [Reqs -> JobType]
  BY DEF TypeInv, Types
<1>2. /\ {"patch_lock", "patch_write", "patch_declare", "patch_info", "patch_emit", "finish"}
           \subseteq PCs \ {"post_concat"}
  BY DEF PCs, LockPCs, PatchPCs, FinishPCs
<1>3. ASSUME NEW id \in Ids, PatchArrive(r, id) PROVE Moves(r)
  BY <1>1, <1>2, <1>3 DEF PatchArrive, Arrive, Moves
<1>4. ASSUME PatchBadBody(r) PROVE Moves(r)
  BY <1>4 DEF PatchBadBody, Fail, Moves
<1>5. ASSUME NEW n \in Lengths, PatchLoad(r, n) PROVE Moves(r)
  BY <1>1, <1>2, <1>5 DEF PatchLoad, See, Moves
<1>6. ASSUME NEW n \in Lengths, PatchDeclare(r, n) \/ PatchWrite(r, n) PROVE Moves(r)
  BY <1>1, <1>2, <1>6 DEF PatchDeclare, PatchWrite, Moves
<1>7. ASSUME PatchInfo(r) PROVE Moves(r)
  BY <1>1, <1>2, <1>7 DEF PatchInfo, See, Moves
<1>8. ASSUME PatchEmit(r) PROVE Moves(r)
  BY <1>1, <1>2, <1>8 DEF PatchEmit, Moves
<1> QED BY <1>3, <1>4, <1>5, <1>6, <1>7, <1>8 DEF Patch

LEMMA ServeMoves ==
  ASSUME TypeInv, NEW r \in Reqs, Get(r) \/ DeleteReq(r)
  PROVE  Moves(r)
<1>1. job \in [Reqs -> JobType]
  BY DEF TypeInv, Types
<1>2. {"get_lock", "get_read", "delete_hook", "delete_lock", "delete_emit"}
        \subseteq PCs \ {"post_concat"}
  BY DEF PCs, LockPCs, GetPCs, DeletePCs
<1>3. ASSUME NEW id \in Ids, GetArrive(r, id) \/ DeleteArrive(r, id) PROVE Moves(r)
  BY <1>1, <1>2, <1>3 DEF GetArrive, DeleteArrive, Arrive, Moves
<1>4. ASSUME GetLoad(r) PROVE Moves(r)
  BY <1>1, <1>2, <1>4 DEF GetLoad, See, Moves
<1>5. ASSUME GetRead(r) \/ DeleteEmit(r) PROVE Moves(r)
  BY <1>5 DEF GetRead, DeleteEmit, Fail, Moves
<1>6. ASSUME DeleteApproved(r) \/ DeleteRemove(r) PROVE Moves(r)
  BY <1>1, <1>2, <1>6 DEF DeleteApproved, DeleteRemove, Moves
<1> QED BY <1>3, <1>4, <1>5, <1>6 DEF Get, DeleteReq

LEMMA PostMoves ==
  ASSUME TypeInv, NEW r \in Reqs, Post(r)
  PROVE  Moves(r) \/ PostCollect(r) \/ PostConcat(r)
<1>1. job \in [Reqs -> JobType]
  BY DEF TypeInv, Types
<1>2. /\ (PostPCs \ {"post_concat"}) \subseteq PCs \ {"post_concat"}
      /\ "finish" \in PCs \ {"post_concat"}
  BY DEF PCs, FinishPCs
<1>3. ASSUME NEW size \in Sizes, NEW defer \in BOOLEAN, NEW kind \in Kinds,
             NEW list \in FinalLists, PostArrive(r, size, defer, kind, list)
      PROVE  Moves(r)
  BY <1>1, <1>2, <1>3 DEF PostArrive, See, Moves, PostPCs
<1>4. ASSUME NEW id \in Ids, PostCreate(r, id) PROVE Moves(r)
  BY <1>1, <1>2, <1>4 DEF PostCreate, Moves, PostPCs
<1>5. ASSUME PostFetch(r) PROVE Moves(r)
  BY <1>1, <1>2, <1>5 DEF PostFetch, NextPartial, Moves, PostPCs
<1>6. ASSUME PostEmit(r) PROVE Moves(r)
  BY <1>1, <1>2, <1>6 DEF PostEmit, NextPartial, Moves, PostPCs
<1>7. ASSUME PostNoBody(r) \/ PostLook(r) \/ PostRemove(r) PROVE Moves(r)
  BY <1>1, <1>2, <1>7 DEF PostNoBody, PostLook, PostRemove, Moves, PostPCs
<1>8. ASSUME NEW n \in Lengths, PostBody(r, n) PROVE Moves(r)
  BY <1>1, <1>2, <1>8 DEF PostBody, Moves, PostPCs
<1>9. ASSUME PostInfo(r) \/ PostReread(r) PROVE Moves(r)
  BY <1>1, <1>2, <1>9 DEF PostInfo, PostReread, See, Moves, PostPCs
<1>10. ASSUME PostAnnounce(r) PROVE Moves(r)
  BY <1>1, <1>2, <1>10 DEF PostAnnounce, Moves
<1> QED BY <1>3, <1>4, <1>5, <1>6, <1>7, <1>8, <1>9, <1>10 DEF Post

LEMMA SharedMoves ==
  ASSUME TypeInv, NEW r \in Reqs, Shared(r)
  PROVE  Moves(r) \/ Fail(r)
<1>1. job \in [Reqs -> JobType]
  BY DEF TypeInv, Types
<1>2. {"patch_load", "get_load", "delete_remove", "finalize"} \subseteq PCs \ {"post_concat"}
  BY DEF PCs, PatchPCs, GetPCs, DeletePCs, FinishPCs
<1>3. ASSUME Lock(r) PROVE Moves(r)
  BY <1>1, <1>2, <1>3 DEF Lock, LockPCs, AfterLock, Moves
<1>4. ASSUME Finish(r) PROVE Moves(r)
  BY <1>1, <1>2, <1>4 DEF Finish, Moves
<1>5. ASSUME Finalize(r) PROVE Moves(r)
  BY <1>5 DEF Finalize, Moves
<1> QED BY <1>3, <1>4, <1>5 DEF Shared, LockTimeout, Cancel, Refuse

(* What steps do to the bytes that were gathered. *)
LEMMA GatherSteps ==
  ASSUME TypeInv, [Next]_vars
  PROVE  \/ Gathered' = Gathered
         \/ \E r \in Reqs : PostCollect(r) \/ PostConcat(r)
         \/ store' = store /\ \E bytes \in Gathered : Gathered' = Gathered \ {bytes}
<1>1. CASE UNCHANGED vars
  BY <1>1 DEF vars, Gathered
<1>2. ASSUME NEW r \in Reqs, Fail(r)
      PROVE  \/ Gathered' = Gathered
             \/ store' = store /\ \E bytes \in Gathered : Gathered' = Gathered \ {bytes}
  BY <1>2, EndGathers DEF Fail
<1>3. ASSUME NEW r \in Reqs, NEW id \in Ids, HeadRequest(r, id) PROVE Gathered' = Gathered
  BY <1>3 DEF HeadRequest, Gathered
<1>4. ASSUME NEW id \in Ids, Expire(id) PROVE Gathered' = Gathered
  BY <1>4 DEF Expire, Gathered
<1>5. ASSUME NEW r \in Reqs, Post(r) \/ Patch(r) \/ Get(r) \/ DeleteReq(r) \/ Shared(r)
      PROVE  Gathered' = Gathered \/ PostCollect(r) \/ PostConcat(r) \/ Fail(r)
  BY <1>5, PostMoves, PatchMoves, ServeMoves, SharedMoves, MovesFacts
<1> QED BY <1>1, <1>2, <1>3, <1>4, <1>5 DEF Next

(* The steps that change an upload, but for the one that makes a final     *)
(* upload what was gathered.                                               *)
LEMMA StoreMoves ==
  ASSUME TypeInv, NEW r \in Reqs,
         \/ \E id \in Ids : PostCreate(r, id)
         \/ PostRemove(r) \/ DeleteRemove(r)
         \/ \E n \in Lengths : PatchDeclare(r, n) \/ PatchWrite(r, n) \/ PostBody(r, n)
  PROVE  Gathered' = Gathered
<1>1. Post(r) \/ Patch(r) \/ DeleteReq(r)
  BY DEF Post, Patch, DeleteReq
<1>2. pc[r] \notin {"post_collect", "post_concat"}
  BY DEF PostCreate, PostRemove, DeleteRemove, PatchDeclare, PatchWrite, PostBody
<1>3. ~PostCollect(r) /\ ~PostConcat(r)
  BY <1>2 DEF PostCollect, PostConcat
<1> QED BY <1>1, <1>3, PostMoves, PatchMoves, ServeMoves, MovesFacts

(* The service's lists are those of the handlers. *)
LEMMA SameLists ==
  ASSUME NEW list
  PROVE  Service!ToSet(list) = ToSet(list) /\ Service!FlattenSeq(list) = FlattenSeq(list)
BY DEF Service!ToSet, ToSet, Service!FlattenSeq, FlattenSeq

(* Each step of the handlers is a step of the service, or one it does not  *)
(* see.                                                                    *)
LEMMA ServiceStep ==
  ASSUME Deployment, Inv, [Next]_vars, NoFinalBody
  PROVE  Service!Next \/ UNCHANGED <<Content, Length, Gathered>>
<1>1. /\ TypeInv /\ store \in [Ids -> Uploads \union {NoUpload}]
      /\ \A id \in Ids : Exists(id) => id \in used
  BY DEF Inv, TypeInv, Types, StoreTypeOK, Global, Registered
<1>2. \A r \in Reqs : pc[r] \in MakePCs => Making(r)
  BY DEF Inv, Local, Owned, Making
<1>3. CASE store' = store /\ ~\E r \in Reqs : PostCollect(r) \/ PostConcat(r)
  <2>1. UNCHANGED <<Content, Length>>
    BY <1>3 DEF Content, Length, Exists
  <2>2. CASE Gathered' = Gathered
    BY <2>1, <2>2
  <2>3. ASSUME NEW bytes \in Gathered, Gathered' = Gathered \ {bytes}
        PROVE  Service!Next
    <3>1. Service!Forget(bytes)
      BY <2>1, <2>3 DEF Service!Forget
    <3> QED BY <3>1 DEF Service!Next
  <2> QED BY <1>1, <1>3, <2>2, <2>3, GatherSteps
<1>4. ASSUME NEW r \in Reqs, NEW id \in Ids, PostCreate(r, id)
      PROVE  \E n \in Lengths \union {NoLen} : Service!Create(id, n)
  <2> DEFINE u == job[r].seen
  <2>1. /\ pc[r] = "post_create" /\ id \notin used /\ store' = [store EXCEPT ![id] = u]
    BY <1>4 DEF PostCreate, CreateUpload, Deployment
  <2>2. /\ u \in Uploads /\ u # NoUpload /\ u.data = <<>>
        /\ u.size \in Lengths \union {NoLen}
    BY <2>1, HandlerAssumption
    DEF Inv, TypeInv, Typed, PostPCs, Local, Planning, Lengths
  <2>3. ~Exists(id) /\ store'[id] = u /\ \A i \in Ids : i # id => store'[i] = store[i]
    BY <1>1, <2>1
  <2> HIDE DEF u
  <2>4. Content' = [Content EXCEPT ![id] = <<>>] /\ Length' = [Length EXCEPT ![id] = u.size]
    BY <2>2, <2>3, ServiceChange
  <2>5. Gathered' = Gathered
    BY <1>1, <1>4, StoreMoves
  <2> QED BY <1>1, <2>2, <2>3, <2>4, <2>5, ServiceView DEF Service!Create
<1>5. ASSUME NEW r \in Reqs, PostCollect(r)
      PROVE  \E list \in FinalLists : Service!Gather(list)
  <2>1. /\ pc[r] = "post_collect" /\ \A p \in ToSet(Partials(r)) : Exists(p)
        /\ store' = store /\ Goto(r, "post_concat")
        /\ job' = [job EXCEPT ![r].buf = Joined(Partials(r))]
    BY <1>5 DEF PostCollect, Joined
  <2>2. pc[r] \in MakePCs /\ "post_concat" \in PCs
    BY <2>1 DEF MakePCs, PostPCs, PCs
  <2>3. /\ Partials(r) = Current(r).partials /\ Current(r).partials \in FinalLists
        /\ \A p \in ToSet(Current(r).partials) : Good(p)
        /\ Current(r).partials \in Seq(Ids) /\ job[r] \in JobType
    BY <1>2, <2>1, <2>2, MakerFacts DEF Inv, Local, Building, Gathering, Planned
  <2>4. PICK list \in FinalLists : list = Current(r).partials
    BY <2>3
  <2>5. /\ job'[r].buf = Joined(list) /\ \A q \in Reqs : q # r => job'[q] = job[q]
        /\ pc'[r] = "post_concat" /\ \A q \in Reqs : q # r => pc'[q] = pc[q]
    BY <1>1, <2>1, <2>2, <2>3, <2>4, GotoType DEF TypeInv, Types, JobType
  <2>6. Gathered' = Gathered \union {Joined(list)}
    BY <2>1, <2>5, GatheredChange
  <2>7. UNCHANGED <<Content, Length>>
    BY <2>1 DEF Content, Length, Exists
  <2>8. /\ ToSet(list) \subseteq Ids
        /\ \A i \in DOMAIN list : list[i] \in ToSet(list)
    <3>1. list \in Seq(Ids)
      BY <2>3, <2>4, Zenon
    <3>2. \A i \in DOMAIN list : list[i] \in Ids
      BY <3>1
    <3> QED BY <3>2, Zenon DEF ToSet
  <2>9. \A p \in ToSet(list) :
          Service!Present(p) /\ Content[p] = store[p].data /\ Length[p] = Len(store[p].data)
    BY <1>1, <2>1, <2>3, <2>4, <2>8, ServiceView DEF Good, IsComplete, Inv, Global, OffsetCountsBytes
  <2>10. [i \in DOMAIN list |-> Content[list[i]]] = [i \in DOMAIN list |-> store[list[i]].data]
    BY <2>8, <2>9
  <2>11. FlattenSeq([i \in DOMAIN list |-> Content[list[i]]]) = Joined(list)
    BY <2>10 DEF Joined
  <2>12. \A p \in ToSet(list) : Service!Complete(p)
    BY <2>9 DEF Service!Complete
  <2>13. Service!Gather(list)
    BY <2>6, <2>7, <2>11, <2>12, SameLists DEF Service!Gather
  <2> QED BY <2>4, <2>13
<1>6. ASSUME NEW r \in Reqs, PostConcat(r)
      PROVE  \E id \in Ids : \E bytes \in Gathered : Service!Assemble(id, bytes)
  <2> DEFINE buf == job[r].buf
             id == Id(r)
             u == [store[id] EXCEPT !.data = buf, !.size = Len(buf), !.offset = Len(buf),
                                    !.kind = "final"]
  <2>1. /\ pc[r] = "post_concat" /\ Exists(id) /\ job' = job /\ Goto(r, "post_body")
        /\ store' = [store EXCEPT ![id].data = buf, ![id].size = Len(buf),
                                  ![id].offset = Len(buf), ![id].kind = "final"]
    BY <1>6 DEF PostConcat, StoreCombined
  <2>2. pc[r] \in MakePCs /\ "post_body" \in PCs
    BY <2>1 DEF MakePCs, PostPCs, PCs
  <2>3. /\ id \in Ids /\ store[id] \in Uploads /\ store[id].offset = 0
        /\ buf \in Seq(Bytes)
    BY <1>2, <2>1, <2>2, MakerFacts DEF Inv, Local, Building, Current, JobType
  <2>4. store[id].data = <<>>
    <3> DEFINE d == store[id].data
    <3>1. d \in Seq(Bytes) /\ Len(d) = 0
      BY <2>1, <2>3 DEF Inv, Global, OffsetCountsBytes, Uploads
    <3> HIDE DEF d
    <3> QED BY <3>1, EmptySeq DEF d
  <2>5. store'[id] = u /\ \A i \in Ids : i # id => store'[i] = store[i]
    BY <1>1, <2>1, <2>3
  <2>6. u.data = buf /\ u.size = Len(buf) /\ u # NoUpload
    <3>1. u \in Uploads
      BY <2>3, UploadFacts, Zenon
    <3> QED BY <2>3, <3>1, HandlerAssumption DEF Uploads
  <2>7. Gathered' \in {Gathered, Gathered \ {buf}} /\ buf \in Gathered
    <3>1. pc'[r] = "post_body" /\ \A q \in Reqs : q # r => pc'[q] = pc[q]
      BY <1>1, <2>1, <2>2, GotoType
    <3> QED BY <2>1, <3>1, GatheredChange
  <2> HIDE DEF u, buf, id
  <2>8. Content' = [Content EXCEPT ![id] = buf] /\ Length' = [Length EXCEPT ![id] = Len(buf)]
    BY <2>3, <2>5, <2>6, ServiceChange
  <2>9. Service!Present(id) /\ Content[id] = <<>>
    BY <1>1, <2>1, <2>3, <2>4, ServiceView
  <2>10. Service!Assemble(id, buf)
    BY <2>7, <2>8, <2>9 DEF Service!Assemble
  <2> QED BY <2>3, <2>7, <2>10
<1>7. ASSUME NEW r \in Reqs, DeleteRemove(r) \/ PostRemove(r)
      PROVE  \E id \in Ids : Service!Drop(id)
  <2>1. ASSUME NEW id \in Ids, Delete(id)
        PROVE  Service!Drop(id)
    <3>1. Exists(id) /\ store'[id] = NoUpload /\ \A i \in Ids : i # id => store'[i] = store[i]
      BY <1>1, <2>1 DEF Delete
    <3>2. /\ Content' = [Content EXCEPT ![id] = NoUpload]
          /\ Length' = [Length EXCEPT ![id] = NoLen]
      BY <3>1, ServiceChange
    <3>3. Gathered' = Gathered
      BY <1>1, <1>7, StoreMoves
    <3> QED BY <1>1, <3>1, <3>2, <3>3, ServiceView DEF Service!Drop
  <2>2. CASE DeleteRemove(r)
    <3>1. pc[r] = "delete_remove" /\ Delete(Id(r))
      BY <2>2 DEF DeleteRemove
    <3>2. Id(r) \in Ids
      BY <3>1 DEF Inv, TypeInv, Types, Local, Owned, HoldPCs
    <3> QED BY <2>1, <3>1, <3>2
  <2>3. CASE PostRemove(r)
    <3>1. pc[r] = "post_remove" /\ Delete(Partial(r))
      BY <2>3 DEF PostRemove
    <3>2. pc[r] \in MakePCs
      BY <3>1 DEF MakePCs, PostPCs
    <3>3. Partials(r) \in Seq(Ids) /\ job[r].k \in 1..Len(Partials(r))
      BY <1>2, <3>1, <3>2, MakerFacts DEF Inv, Local, Building
    <3>4. Partial(r) \in Ids
      BY <3>3, ElementOfSeq DEF Partial
    <3> QED BY <2>1, <3>1, <3>4
  <2> QED BY <1>7, <2>2, <2>3
<1>8. ASSUME NEW id \in Ids, NEW r \in Reqs, NEW n \in Lengths, Exists(id),
             store'[id] \in Uploads, store'[id].size = store[id].size,
             store'[id].data = store[id].data \o Chunk(r, n),
             store[id].size # NoLen => Len(store[id].data) + n <= store[id].size,
             \A i \in Ids : i # id => store'[i] = store[i], Gathered' = Gathered
      PROVE  \E chunk \in {Chunk(q, m) : q \in Reqs, m \in Lengths} : Service!Grow(id, chunk)
  <2>1. /\ Content[id] = store[id].data /\ Length[id] = store[id].size
        /\ Service!Present(id)
    BY <1>1, <1>8, ServiceView
  <2>2. store'[id] # NoUpload
    BY <1>8, HandlerAssumption
  <2>3. /\ Content' = [Content EXCEPT ![id] = store[id].data \o Chunk(r, n)]
        /\ Length' = [Length EXCEPT ![id] = store[id].size]
    BY <1>8, <2>2, ServiceChange
  <2>4. Length' = Length
    BY <2>1, <2>3 DEF Length
  <2>5. Len(Chunk(r, n)) = n
    BY ChunkFacts
  <2>6. Service!Grow(id, Chunk(r, n))
    BY <1>8, <2>1, <2>3, <2>4, <2>5 DEF Service!Grow
  <2> QED BY <2>6
<1>9. ASSUME NEW r \in Reqs, NEW n \in Lengths, PatchWrite(r, n) \/ PostBody(r, n)
      PROVE  \E id \in Ids, chunk \in {Chunk(q, m) : q \in Reqs, m \in Lengths} :
               Service!Grow(id, chunk)
  <2>1. Gathered' = Gathered
    BY <1>1, <1>9, StoreMoves
  <2>2. ASSUME PatchWrite(r, n)
        PROVE  \E id \in Ids, chunk \in {Chunk(q, m) : q \in Reqs, m \in Lengths} :
                 Service!Grow(id, chunk)
    <3>1. PICK id \in Ids : id = Id(r)
      BY <2>2, PatchAppends
    <3>2. /\ Exists(id) /\ store'[id] \in Uploads /\ store'[id].size = store[id].size
          /\ store'[id].data = store[id].data \o Chunk(r, n)
          /\ store[id].size # NoLen => Len(store[id].data) + n <= store[id].size
          /\ \A i \in Ids : i # id => store'[i] = store[i]
      BY <2>2, <3>1, PatchAppends DEF Current
    <3> QED BY <1>8, <2>1, <3>2
  <2>3. ASSUME PostBody(r, n)
        PROVE  \E id \in Ids, chunk \in {Chunk(q, m) : q \in Reqs, m \in Lengths} :
                 Service!Grow(id, chunk)
    <3>1. /\ pc[r] = "post_body" /\ ~Exceeds(store[Id(r)], 0, Chunk(r, n))
          /\ store' = [store EXCEPT ![Id(r)] = Written(store[Id(r)], 0, Chunk(r, n))]
      BY <2>3 DEF PostBody, WriteChunk
    <3>2. PICK id \in Ids : id = Id(r)
      BY <1>2, <3>1, MakerFacts DEF MakePCs, PostPCs
    <3>3. Exists(id) /\ store[id] \in Uploads /\ Building(r)
      BY <1>2, <3>1, <3>2, MakerFacts DEF MakePCs, PostPCs, Current, Inv, Local
    <3>4. store[id].kind # "final"
      BY <2>3, <3>1, <3>2, <3>3 DEF NoFinalBody, Building, Current, MakePCs, PostPCs
    <3>5. store[id].offset = 0 /\ store[id].offset = Len(store[id].data)
      BY <1>1, <3>1, <3>2, <3>3, <3>4 DEF Building, Current, Inv, Global, OffsetCountsBytes
    <3>6. store'[id] = Written(store[id], 0, Chunk(r, n))
          /\ \A i \in Ids : i # id => store'[i] = store[i]
      BY <1>1, <3>1, <3>2
    <3>7. /\ store'[id] \in Uploads /\ store'[id].size = store[id].size
          /\ store'[id].data = store[id].data \o Chunk(r, n)
      <4>1. PICK u \in Uploads : u = store[id]
        BY <3>3
      <4>2. /\ u.offset = 0 /\ u.offset = Len(u.data) /\ ~Exceeds(u, u.offset, Chunk(r, n))
            /\ Written(u, u.offset, Chunk(r, n)) = store'[id]
        BY <3>1, <3>2, <3>5, <3>6, <4>1
      <4>3. /\ store'[id] \in Uploads /\ store'[id].size = u.size
            /\ store'[id].data = u.data \o Chunk(r, n)
        BY <4>2, WrittenFacts
      <4> QED BY <4>1, <4>3
    <3>8. store[id].size # NoLen => Len(store[id].data) + n <= store[id].size
      BY <3>1, <3>2, <3>3, <3>5, ChunkFacts DEF Exceeds, Uploads
    <3>9. /\ Exists(id) /\ store'[id] \in Uploads /\ store'[id].size = store[id].size
          /\ store'[id].data = store[id].data \o Chunk(r, n)
          /\ store[id].size # NoLen => Len(store[id].data) + n <= store[id].size
          /\ \A i \in Ids : i # id => store'[i] = store[i]
      BY <3>3, <3>6, <3>7, <3>8
    <3> QED BY <1>8, <2>1, <3>9
  <2> QED BY <1>9, <2>2, <2>3
<1>10. ASSUME NEW r \in Reqs, NEW n \in Lengths, PatchDeclare(r, n)
       PROVE  \E id \in Ids : Service!Declare(id, n) \/ Service!DeclareShort(id, n)
  <2>1. /\ pc[r] = "patch_declare" /\ Exists(Id(r)) /\ store[Id(r)].size = NoLen
        /\ store' = [store EXCEPT ![Id(r)].size = n, ![Id(r)].deferred = FALSE]
    BY <1>10 DEF PatchDeclare, DeclareLength
  <2>2. PICK id \in Ids : id = Id(r)
    BY <1>1, <2>1 DEF Inv, TypeInv, Types, Local, Owned, HoldPCs, PatchPCs, Exists
  <2> DEFINE u == [store[id] EXCEPT !.size = n, !.deferred = FALSE]
  <2>3. store[id] \in Uploads /\ store'[id] = u /\ \A i \in Ids : i # id => store'[i] = store[i]
    BY <1>1, <2>1, <2>2 DEF Exists
  <2>4. n \in Nat
    BY HandlerAssumption DEF Lengths
  <2>5. u \in Uploads
    BY <2>3, <2>4, UploadFacts, Zenon
  <2>6. u.data = store[id].data /\ u.size = n /\ u # NoUpload
    BY <2>3, <2>5, HandlerAssumption DEF Uploads
  <2> HIDE DEF u
  <2>7. /\ Content[id] = store[id].data /\ Length[id] = NoLen /\ Service!Present(id)
        /\ Len(store[id].data) \in Nat
    BY <1>1, <2>1, <2>2, <2>3, ServiceView DEF Uploads
  <2>8. /\ Content' = [Content EXCEPT ![id] = store[id].data]
        /\ Length' = [Length EXCEPT ![id] = n]
    BY <2>3, <2>6, ServiceChange
  <2>9. Content' = Content
    BY <2>7, <2>8 DEF Content
  <2>10. Gathered' = Gathered
    BY <1>1, <1>10, StoreMoves
  <2>11. Service!Declare(id, n) \/ Service!DeclareShort(id, n)
    BY <2>4, <2>7, <2>8, <2>9, <2>10 DEF Service!Declare, Service!DeclareShort
  <2> QED BY <2>11
<1>11. ASSUME NEW id \in Ids, NEW n \in Lengths \union {NoLen}, Service!Create(id, n)
       PROVE  Service!Next
  BY <1>11 DEF Service!Next
<1>12. ASSUME NEW id \in Ids, NEW chunk \in {Chunk(q, m) : q \in Reqs, m \in Lengths},
              Service!Grow(id, chunk)
       PROVE  Service!Next
  BY <1>12 DEF Service!Next
<1>13. ASSUME NEW id \in Ids, NEW n \in Lengths,
              Service!Declare(id, n) \/ Service!DeclareShort(id, n)
       PROVE  Service!Next
  BY <1>13 DEF Service!Next
<1>14. ASSUME NEW id \in Ids, Service!Drop(id)
       PROVE  Service!Next
  BY <1>14 DEF Service!Next
<1>15. CASE \E r \in Reqs, id \in Ids : PostCreate(r, id)
  BY <1>4, <1>11, <1>15
<1>16. CASE \E r \in Reqs : PostRemove(r) \/ DeleteRemove(r)
  BY <1>7, <1>14, <1>16
<1>17. CASE \E r \in Reqs : PostCollect(r)
  BY <1>5, <1>17 DEF Service!Next
<1>18. CASE \E r \in Reqs : PostConcat(r)
  <2>1. PICK id \in Ids, bytes \in Gathered : Service!Assemble(id, bytes)
    BY <1>6, <1>18
  <2> QED BY <2>1 DEF Service!Next
<1>19. CASE \E r \in Reqs, n \in Lengths : PatchDeclare(r, n) \/ PatchWrite(r, n) \/ PostBody(r, n)
  <2>1. ASSUME NEW r \in Reqs, NEW n \in Lengths, PatchDeclare(r, n) PROVE Service!Next
    BY <1>10, <1>13, <2>1
  <2>2. ASSUME NEW r \in Reqs, NEW n \in Lengths, PatchWrite(r, n) \/ PostBody(r, n)
        PROVE  Service!Next
    BY <1>9, <1>12, <2>2
  <2> QED BY <1>19, <2>1, <2>2
<1> QED BY <1>3, <1>15, <1>16, <1>17, <1>18, <1>19, StoreSteps

(* The handlers over MemoryStore are a resumable upload service: whatever  *)
(* requests race, an upload is created empty, grows at its end only and    *)
(* never past its declared length, until it is removed; and a final upload *)
(* becomes what complete partials had, although they are read in one step  *)
(* and stored in another (store.rs 169-191 of the memory store).           *)
THEOREM Implementation ==
  ASSUME Deployment
  PROVE  Spec /\ PlainBodies => ImplementsService
<1>1. Init => Service!Init
  BY DEF Init, StoreInit, Exists, Service!Init, Content, Length, Gathered
<1>2. ASSUME Inv, [Next]_vars, [NoFinalBody]_vars
      PROVE  Service!Next \/ UNCHANGED <<Content, Length, Gathered>>
  <2>1. CASE UNCHANGED vars
    BY <2>1 DEF vars, Content, Length, Gathered, Exists
  <2> QED BY <1>2, <2>1, ServiceStep
<1>3. Inv /\ [Next]_vars /\ [NoFinalBody]_vars => [Service!Next]_<<Content, Length, Gathered>>
  BY <1>2
<1>4. Spec /\ PlainBodies => []Inv
  BY Invariance
<1> QED BY <1>1, <1>3, <1>4, PTL DEF Spec, PlainBodies, ImplementsService, Service!Spec

=============================================================================
