---------------------------- MODULE ObjectStore -----------------------------
(***************************************************************************)
(* The S3, GCS and Azure stores under the handlers: the objects of one     *)
(* upload ({id}.info, {id}_part_{n}, {id}_tmp_{n}, {id}) as each remote    *)
(* call leaves them.  A call is atomic, but its answer may be lost, its    *)
(* request may never arrive, and the handler that waits for it may be      *)
(* dropped.  The three stores differ in how they combine objects:          *)
(*   s3     one multipart upload, its sources deleted afterwards;          *)
(*   gcs    compose requests of at most Batch sources, which delete them;  *)
(*   azure  block lists of at most Batch sources, in as many rounds as it  *)
(*          takes, the sources of each deleted afterwards.                 *)
(* The lock of the upload is an exclusive one (MemoryLocker, ProcessLocker *)
(* and FileLocker show where that holds).                                  *)
(*                                                                         *)
(* Clients send the bytes of one file, byte i of it being the number i, so *)
(* that a retry sends the same bytes again.                                *)
(***************************************************************************)
EXTENDS Naturals, SequencesExt

CONSTANTS
  Reqs,         (* requests                                               *)
  Clouds,       (* subset of {"s3", "gcs", "azure"}                       *)
  PartNames,    (* {id}_part_0, {id}_part_1, ...: their number is a bound *)
  TmpNames,     (* {id}_tmp_0, ...: their number is a bound               *)
  SourceNames,  (* the data objects of the partials of a final upload     *)
  SourceBytes,  (* their bytes, in the same order                         *)
  Batch,        (* MAX_COMPOSE_SOURCES, MAX_COMMIT_SOURCES                *)
  MinPart,      (* MIN_MULTIPART_PART                                     *)
  Piece,        (* the most bytes one read of an object returns           *)
  MaxLen,       (* bound: the longest file                                *)
  Sizes,        (* Upload-Length values, NoLen for deferred                *)
  ChunkLens,    (* lengths of request bodies                              *)
  Kinds,        (* subset of {"plain", "final"}: what POST may create     *)
  MaxFaults,    (* bound: calls that fail or whose answer is lost         *)
  MaxTaken,     (* bound: partials that other final uploads take          *)
  Absent, NoLen, NoReq

Infos == [size : Nat \union {NoLen}, offset : Nat, final : BOOLEAN]
Names == STRING \ {"info", "data"}

(* A final upload has a partial at least (post.rs:232), and may name one   *)
(* twice.                                                                  *)
ASSUME ObjectAssumption ==
  /\ NoReq \notin Reqs /\ NoLen \notin Nat /\ Absent \notin Seq(Nat) \union Infos
  /\ Clouds \subseteq {"s3", "gcs", "azure"} /\ Kinds \subseteq {"plain", "final"}
  /\ MaxLen \in Nat /\ MaxFaults \in Nat /\ MaxTaken \in Nat
  /\ Batch \in Nat \ {0, 1} /\ MinPart \in Nat \ {0} /\ Piece \in Nat \ {0}
  /\ Sizes \subseteq Nat \union {NoLen} /\ ChunkLens \subseteq Nat
  /\ PartNames \in Seq(Names) /\ IsInjective(PartNames)
  /\ TmpNames \in Seq(Names) /\ IsInjective(TmpNames)
  /\ SourceNames \in Seq(Names) /\ SourceNames # <<>>
  /\ ToSet(PartNames) \intersect ToSet(TmpNames) = {}
  /\ ToSet(SourceNames) \intersect (ToSet(PartNames) \union ToSet(TmpNames)) = {}
  /\ SourceBytes \in Seq(Seq(Nat \ {0})) /\ Len(SourceBytes) = Len(SourceNames)
  /\ \A i, j \in DOMAIN SourceNames :
       SourceNames[i] = SourceNames[j] => SourceBytes[i] = SourceBytes[j]

VARIABLES
  cloud,    (* which of the stores serves                                 *)
  given,    (* the partials whose data object no other final upload took  *)
  objs,     (* objs[key]: the content of the object, or Absent; the       *)
            (* content of "info" is a record                              *)
  owner,    (* the request that holds the lock of the upload              *)
  pc, job,  (* where a handler is, and its local variables                *)
  life,     (* "new", "made", "known" to clients, "doomed" by a DELETE or *)
            (* "gone": its 204 was sent                                   *)
  told,     (* the largest Upload-Offset any client was told              *)
  finished, (* finalize returned and UploadFinished was sent              *)
  faults    (* how many calls failed                                      *)

vars == <<cloud, given, objs, owner, pc, job, life, told, finished, faults>>

Keys == {"info", "data"} \union ToSet(PartNames) \union ToSet(TmpNames) \union ToSet(SourceNames)
Calls == {"put", "commit", "erase"}
Labels ==
  Calls \union
    {"idle", "concat", "total", "body", "lock", "load", "declare", "chunk", "list", "save",
     "reread", "finish", "parts", "group", "fetch", "done", "left", "deleted", "read"}

Info == objs["info"]
Found == objs["info"] # Absent
IsComplete(info) == info.size # NoLen /\ info.offset = info.size

(* The first n bytes of the clients' file. *)
Whole(n) == [i \in 1..n |-> i]

(* The body of a request: the n bytes that follow the first `at`. *)
Chunk(at, n) == [i \in 1..n |-> at + i]

FinalLen == Len(FlattenSeq(SourceBytes))

(* The bytes of a partial, by the name of its data object. *)
PartialBytes(s) == SourceBytes[CHOOSE i \in DOMAIN SourceNames : SourceNames[i] = s]

Blank ==
  [op |-> "none", at |-> 0, n |-> 0, info |-> Absent, key |-> "info", value |-> <<>>,
   then |-> "idle", back |-> "idle", level |-> <<>>, made |-> <<>>, tmps |-> 0, src |-> <<>>,
   dest |-> "data", k |-> 1, pos |-> 0, buf |-> <<>>, blocks |-> <<>>, todo |-> <<>>]

Init ==
  /\ cloud \in Clouds
  /\ given = ToSet(SourceNames)
  /\ objs = [key \in Keys |-> IF key \in given THEN PartialBytes(key) ELSE Absent]
  /\ owner = NoReq
  /\ pc = [r \in Reqs |-> "idle"]
  /\ job = [r \in Reqs |-> Blank]
  /\ life = "new" /\ told = 0 /\ finished = FALSE /\ faults = 0

Goto(r, l) == pc' = [pc EXCEPT ![r] = l]
Set(r, j) == job' = [job EXCEPT ![r] = j]
Unlock(r) == owner' = IF owner = r THEN NoReq ELSE owner

(* Mutated form: the lock stays with a request that has ended. *)
EndKeepsLock(r) == Goto(r, "idle") /\ Set(r, Blank) /\ UNCHANGED owner

End(r) == Goto(r, "idle") /\ Set(r, Blank) /\ Unlock(r)

Tell(n) == told' = IF told < n THEN n ELSE told

outside == <<cloud, given, life, told, finished, faults>>

-----------------------------------------------------------------------------
(* Remote calls that change objects *)

(* put_object, write_object, put_block_blob: then the handler goes on at l. *)
Write(r, key, value, l) ==
  /\ Set(r, [job[r] EXCEPT !.key = key, !.value = value, !.then = l])
  /\ Goto(r, "put")

(* A compose request the service refuses: too many sources, or one gone.   *)
Refused(r) ==
  /\ cloud = "gcs" /\ pc[r] = "commit"
  /\ Len(job[r].src) > Batch \/ \E s \in ToSet(job[r].src) : objs[s] = Absent

(* compose_object with delete_source_objects. *)
Composed(j) ==
  [key \in Keys |->
     IF key = j.dest THEN FlattenSeq([i \in DOMAIN j.src |-> objs[j.src[i]]])
     ELSE IF key \in ToSet(j.src) THEN Absent
     ELSE objs[key]]

(* What the call that r waits for does when it is carried out. *)
Effect(r) ==
  LET j == job[r]
  IN CASE pc[r] = "put" -> [objs EXCEPT ![j.key] = j.value]
       [] pc[r] = "commit" /\ cloud = "gcs" -> Composed(j)
       [] pc[r] = "commit" /\ cloud # "gcs" -> [objs EXCEPT ![j.dest] = FlattenSeq(j.blocks)]
       [] pc[r] = "erase" -> [objs EXCEPT ![Head(j.todo)] = Absent]

Put(r) ==
  /\ pc[r] = "put"
  /\ objs' = Effect(r)
  /\ Goto(r, job[r].then)
  /\ UNCHANGED <<outside, owner, job>>

(* Deletions go through a list, errors ignored. *)
Erase(r) ==
  /\ pc[r] = "erase"
  /\ \/ objs' = Effect(r) /\ UNCHANGED faults
     \/ faults < MaxFaults /\ faults' = faults + 1 /\ UNCHANGED objs
  /\ Set(r, [job[r] EXCEPT !.todo = Tail(@)])
  /\ IF Len(job[r].todo) = 1 THEN Goto(r, job[r].then) ELSE UNCHANGED pc
  /\ UNCHANGED <<cloud, given, owner, life, told, finished>>

(* The call fails, before it had its effect or after; or the handler is    *)
(* dropped while it waits for the answer.                                  *)
LoseCall(r) ==
  /\ pc[r] \in Calls /\ ~Refused(r) /\ faults < MaxFaults
  /\ faults' = faults + 1
  /\ objs' \in {objs, Effect(r)}
  /\ End(r)
  /\ UNCHANGED <<cloud, given, life, told, finished>>

-----------------------------------------------------------------------------
(* Combining objects: finalize and concatenate *)

Listed(p) == IF objs[p] = Absent THEN <<>> ELSE <<p>>

(* Mutated form: in whatever order the bucket lists them. *)
ListPartsUnsorted == Reverse(FlattenSeq([i \in DOMAIN PartNames |-> Listed(PartNames[i])]))

(* list_parts: the part objects there are, by their numbers. *)
ListParts == FlattenSeq([i \in DOMAIN PartNames |-> Listed(PartNames[i])])

(* The keys to combine next: the rest of this round, or what it made. *)
Pending(j) == IF j.level = <<>> THEN j.made ELSE j.level

(* GCS: one round of compose requests, and one for all intermediates. *)
GcsLast(j) == j.level = <<>> \/ (j.made = <<>> /\ Len(j.level) <= Batch)

(* Azure: rounds, until what a round made fits in one block list. *)
AzureLast(j) == (j.level = <<>> \/ j.made = <<>>) /\ Len(Pending(j)) <= Batch

FinalGroup(j) ==
  cloud = "s3" \/ (cloud = "gcs" /\ GcsLast(j)) \/ (cloud = "azure" /\ AzureLast(j))

(* Mutated form: every group of a round goes to the same object. *)
NextGroupSameTmp(r) ==
  /\ pc[r] = "group"
  /\ LET j == [job[r] EXCEPT !.k = 1, !.pos = 0, !.buf = <<>>, !.blocks = <<>>]
         keys == Pending(j)
         n == IF Len(keys) < Batch THEN Len(keys) ELSE Batch
         tmp == TmpNames[1]
     IN IF FinalGroup(j)
        THEN Set(r, [j EXCEPT !.src = keys, !.dest = "data", !.level = <<>>, !.made = <<>>])
        ELSE Set(r, [j EXCEPT !.src = SubSeq(keys, 1, n), !.dest = tmp,
                       !.level = SubSeq(keys, n + 1, Len(keys)),
                       !.made = IF j.level = <<>> THEN <<tmp>> ELSE Append(@, tmp)])
  /\ Goto(r, IF cloud = "gcs" THEN "commit" ELSE "fetch")
  /\ UNCHANGED <<outside, objs, owner>>

(* The next sources and where they go: the data object, or {id}_tmp_{n}. *)
NextGroup(r) ==
  /\ pc[r] = "group"
  /\ LET j == [job[r] EXCEPT !.k = 1, !.pos = 0, !.buf = <<>>, !.blocks = <<>>]
         keys == Pending(j)
         n == IF Len(keys) < Batch THEN Len(keys) ELSE Batch
         tmp == TmpNames[j.tmps + 1]
     IN IF FinalGroup(j)
        THEN Set(r, [j EXCEPT !.src = keys, !.dest = "data", !.level = <<>>, !.made = <<>>])
        ELSE /\ j.tmps < Len(TmpNames)
             /\ Set(r, [j EXCEPT !.src = SubSeq(keys, 1, n), !.dest = tmp, !.tmps = @ + 1,
                          !.level = SubSeq(keys, n + 1, Len(keys)),
                          !.made = IF j.level = <<>> THEN <<tmp>> ELSE Append(@, tmp)])
  /\ Goto(r, IF cloud = "gcs" THEN "commit" ELSE "fetch")
  /\ UNCHANGED <<outside, objs, owner>>

Source(r) == objs[job[r].src[job[r].k]]
LastSource(r) == job[r].k = Len(job[r].src)

(* Azure: a source is one block. *)
FetchBlock(r) ==
  /\ pc[r] = "fetch" /\ cloud = "azure" /\ Source(r) # Absent
  /\ Set(r, [job[r] EXCEPT !.blocks = Append(@, Source(r)), !.k = IF LastSource(r) THEN @ ELSE @ + 1])
  /\ IF LastSource(r) THEN Goto(r, "commit") ELSE UNCHANGED pc
  /\ UNCHANGED <<outside, objs, owner>>

(* Cut whole parts off the front of a buffer. *)
Cut(buf, parts) == [i \in 1..parts |-> SubSeq(buf, (i - 1) * MinPart + 1, i * MinPart)]
Beyond(buf, parts) == SubSeq(buf, parts * MinPart + 1, Len(buf))

(* Mutated form: what a source leaves in the buffer ends with the source.  *)
FetchPieceFlushing(r) ==
  /\ pc[r] = "fetch" /\ cloud = "s3" /\ Source(r) # Absent
  /\ \E n \in 0..Piece :
       LET j == job[r]
           eof == j.pos = Len(Source(r))
           buf == j.buf \o SubSeq(Source(r), j.pos + 1, j.pos + n)
           cut == Len(buf) \div MinPart
           blocks == j.blocks \o Cut(buf, cut)
           rest == Beyond(buf, cut)
       IN /\ IF eof THEN n = 0 ELSE n > 0 /\ j.pos + n <= Len(Source(r))
          /\ IF ~eof THEN Set(r, [j EXCEPT !.pos = @ + n, !.buf = rest, !.blocks = blocks])
             ELSE Set(r, [j EXCEPT !.pos = 0, !.buf = <<>>,
                            !.blocks = IF rest = <<>> /\ blocks # <<>> THEN blocks
                                       ELSE Append(blocks, rest),
                            !.k = IF LastSource(r) THEN @ ELSE @ + 1])
          /\ IF eof /\ LastSource(r) THEN Goto(r, "commit") ELSE UNCHANGED pc
  /\ UNCHANGED <<outside, objs, owner>>

(* S3: a read of n bytes of a source, 0 at its end, fills the buffer;      *)
(* whole parts are uploaded from it, and after the last source the rest,   *)
(* or one empty part when there were no bytes at all.                      *)
FetchPiece(r) ==
  /\ pc[r] = "fetch" /\ cloud = "s3" /\ Source(r) # Absent
  /\ \E n \in 0..Piece :
       LET j == job[r]
           eof == j.pos = Len(Source(r))
           end == eof /\ LastSource(r)
           buf == j.buf \o SubSeq(Source(r), j.pos + 1, j.pos + n)
           cut == IF end /\ Len(buf) > 0 THEN (Len(buf) - 1) \div MinPart
                  ELSE Len(buf) \div MinPart
           blocks == j.blocks \o Cut(buf, cut)
           rest == Beyond(buf, cut)
       IN /\ IF eof THEN n = 0 ELSE n > 0 /\ j.pos + n <= Len(Source(r))
          /\ IF ~end
             THEN Set(r, [j EXCEPT !.pos = IF eof THEN 0 ELSE @ + n, !.k = IF eof THEN @ + 1 ELSE @,
                            !.buf = rest, !.blocks = blocks])
             ELSE Set(r, [j EXCEPT !.buf = <<>>,
                            !.blocks = IF rest = <<>> /\ blocks # <<>> THEN blocks
                                       ELSE Append(blocks, rest)])
          /\ IF end THEN Goto(r, "commit") ELSE UNCHANGED pc
  /\ UNCHANGED <<outside, objs, owner>>

(* complete_multipart_upload, compose_object or put_block_list; S3 and     *)
(* Azure then delete the sources one by one.                               *)
Commit(r) ==
  /\ pc[r] = "commit" /\ ~Refused(r)
  /\ objs' = Effect(r)
  /\ LET next == IF job[r].dest = "data" THEN job[r].back ELSE "group"
     IN IF cloud = "gcs"
        THEN Goto(r, next) /\ UNCHANGED job
        ELSE Goto(r, "erase") /\ Set(r, [job[r] EXCEPT !.todo = job[r].src, !.then = next])
  /\ UNCHANGED <<outside, owner>>

-----------------------------------------------------------------------------
(* POST: create_upload, concatenate for a final upload, write_chunk *)

PostArrive(r, size, kind) ==
  /\ pc[r] = "idle" /\ life = "new"
  /\ life' = "made"
  /\ Set(r, [Blank EXCEPT !.op = "post", !.key = "info",
               !.value = [size |-> size, offset |-> 0, final |-> kind = "final"],
               !.then = IF kind = "final" THEN "concat" ELSE "body"])
  /\ Goto(r, "put")
  /\ UNCHANGED <<cloud, given, objs, owner, told, finished, faults>>

(* concatenate: the data objects of the partials are combined.             *)
Concatenate(r) ==
  /\ pc[r] = "concat"
  /\ Set(r, [job[r] EXCEPT !.level = SourceNames, !.back = "total"])
  /\ Goto(r, "group")
  /\ UNCHANGED <<outside, objs, owner>>

(* Another final upload takes the data object of a partial, which stays a  *)
(* complete upload for fetch_partial_infos.  A source whose first bytes    *)
(* were read is read to its end.                                           *)
TakePartial(r, s) ==
  /\ pc[r] \in {"concat", "group", "fetch", "commit"} /\ Found /\ Info.final
  /\ Cardinality(ToSet(SourceNames) \ given) < MaxTaken
  /\ s \in given /\ objs[s] # Absent
  /\ pc[r] = "fetch" /\ job[r].pos > 0 => s # job[r].src[job[r].k]
  /\ given' = given \ {s}
  /\ objs' = [objs EXCEPT ![s] = Absent]
  /\ UNCHANGED <<cloud, owner, pc, job, life, told, finished, faults>>

(* After the data the info is written, with the total length. *)
SaveTotal(r) ==
  /\ pc[r] = "total" /\ Found
  /\ Write(r, "info", [size |-> FinalLen, offset |-> FinalLen, final |-> TRUE], "body")
  /\ UNCHANGED <<outside, objs, owner>>

PostNoBody(r) ==
  /\ pc[r] = "body"
  /\ Goto(r, "reread")
  /\ UNCHANGED <<outside, objs, owner, job>>

PostBody(r, n) ==
  /\ pc[r] = "body"
  /\ Set(r, [job[r] EXCEPT !.n = n])
  /\ Goto(r, "chunk")
  /\ UNCHANGED <<outside, objs, owner>>

-----------------------------------------------------------------------------
(* PATCH, HEAD, GET and DELETE *)

Arrive(r, op, at, n) ==
  /\ pc[r] = "idle" /\ life \in {"known", "doomed", "gone"}
  /\ Set(r, [Blank EXCEPT !.op = op, !.at = at, !.n = n])
  /\ Goto(r, "lock")
  /\ UNCHANGED <<outside, objs, owner>>

(* Mutated form: the lock is not waited for. *)
LockAnyway(r) ==
  /\ pc[r] = "lock"
  /\ owner' = r
  /\ Goto(r, "load")
  /\ UNCHANGED <<outside, objs, job>>

Lock(r) ==
  /\ pc[r] = "lock" /\ owner = NoReq
  /\ owner' = r
  /\ Goto(r, "load")
  /\ UNCHANGED <<outside, objs, job>>

(* The handler's own checks on the info. *)
LoadPatch(r) ==
  /\ pc[r] = "load" /\ job[r].op = "patch"
  /\ Found /\ ~Info.final /\ Info.offset = job[r].at
  /\ Goto(r, "chunk") \/ (Info.size = NoLen /\ Goto(r, "declare"))
  /\ UNCHANGED <<outside, objs, owner, job>>

(* declare_length *)
Declare(r, n) ==
  /\ pc[r] = "declare"
  /\ Found /\ Info.size = NoLen
  /\ Write(r, "info", [Info EXCEPT !.size = n], "chunk")
  /\ UNCHANGED <<outside, objs, owner>>

(* write_chunk reads the info, then the whole body, and checks the size. *)
ReadChunk(r) ==
  /\ pc[r] = "chunk"
  /\ Found /\ Info.offset = job[r].at
  /\ Info.size # NoLen => job[r].at + job[r].n <= Info.size
  /\ Set(r, [job[r] EXCEPT !.info = Info])
  /\ Goto(r, "list")
  /\ UNCHANGED <<outside, objs, owner>>

(* Mutated form: the last part is written over. *)
WritePartAgain(r) ==
  /\ pc[r] = "list"
  /\ LET count == Len(ListParts)
     IN Write(r, PartNames[IF count = 0 THEN 1 ELSE count], Chunk(job[r].at, job[r].n), "save")
  /\ UNCHANGED <<outside, objs, owner>>

(* The part's index is the number of part objects listed. *)
WritePart(r) ==
  /\ pc[r] = "list" /\ Len(ListParts) < Len(PartNames)
  /\ Write(r, PartNames[Len(ListParts) + 1], Chunk(job[r].at, job[r].n), "save")
  /\ UNCHANGED <<outside, objs, owner>>

(* The info that was read before the body, with the new offset. *)
SaveOffset(r) ==
  /\ pc[r] = "save"
  /\ Write(r, "info", [job[r].info EXCEPT !.offset = job[r].at + job[r].n], "reread")
  /\ UNCHANGED <<outside, objs, owner>>

(* get_info after the write: 204 or 201, or first the upload is finished. *)
Reread(r) ==
  /\ pc[r] = "reread" /\ Found
  /\ IF IsComplete(Info)
     THEN /\ Set(r, [job[r] EXCEPT !.info = Info])
          /\ Goto(r, "finish")
          /\ UNCHANGED <<owner, life, told>>
     ELSE /\ End(r)
          /\ Tell(Info.offset)
          /\ life' = IF life = "made" THEN "known" ELSE life
  /\ UNCHANGED <<cloud, given, objs, finished, faults>>

(* pre_finish accepts. *)
PreFinish(r) ==
  /\ pc[r] = "finish"
  /\ Goto(r, "parts")
  /\ UNCHANGED <<outside, objs, owner, job>>

(* finalize combines the parts; without any it writes an empty object. *)
Finalize(r) ==
  /\ pc[r] = "parts"
  /\ IF ListParts = <<>>
     THEN Write(r, "data", <<>>, "done")
     ELSE /\ Set(r, [job[r] EXCEPT !.level = ListParts, !.made = <<>>, !.tmps = 0, !.back = "done"])
          /\ Goto(r, "group")
  /\ UNCHANGED <<outside, objs, owner>>

(* UploadFinished, 204 or 201. *)
Done(r) ==
  /\ pc[r] = "done"
  /\ finished' = TRUE
  /\ life' = IF life = "made" THEN "known" ELSE life
  /\ Tell(job[r].info.offset)
  /\ End(r)
  /\ UNCHANGED <<cloud, given, objs, faults>>

HeadRequest(r) ==
  /\ pc[r] = "idle" /\ life \in {"known", "doomed", "gone"} /\ Found
  /\ Tell(Info.offset)
  /\ UNCHANGED <<cloud, given, objs, owner, pc, job, life, finished, faults>>

LoadGet(r) ==
  /\ pc[r] = "load" /\ job[r].op = "get"
  /\ Found /\ IsComplete(Info)
  /\ Set(r, [job[r] EXCEPT !.info = Info])
  /\ Goto(r, "read")
  /\ UNCHANGED <<outside, objs, owner>>

(* read_content, and the body of the 200. *)
GetRead(r) ==
  /\ pc[r] = "read" /\ objs["data"] # Absent
  /\ End(r)
  /\ UNCHANGED <<outside, objs>>

(* delete: the data object and the info, then the parts there are. *)
Delete(r) ==
  /\ pc[r] = "load" /\ job[r].op = "delete" /\ Found
  /\ life' = "doomed"
  /\ Set(r, [job[r] EXCEPT !.todo = <<"data", "info">>, !.then = "left"])
  /\ Goto(r, "erase")
  /\ UNCHANGED <<cloud, given, objs, owner, told, finished, faults>>

(* The parts are listed once. *)
DeleteParts(r) ==
  /\ pc[r] = "left"
  /\ IF ListParts = <<>>
     THEN Goto(r, "deleted") /\ UNCHANGED job
     ELSE /\ Set(r, [job[r] EXCEPT !.todo = ListParts, !.then = "deleted"])
          /\ Goto(r, "erase")
  /\ UNCHANGED <<outside, objs, owner>>

(* A list that cannot be had is taken as empty. *)
DeletePartsUnlisted(r) ==
  /\ pc[r] = "left" /\ faults < MaxFaults
  /\ faults' = faults + 1
  /\ Goto(r, "deleted")
  /\ UNCHANGED <<cloud, given, objs, owner, job, life, told, finished>>

(* 204, whatever could not be erased. *)
Deleted(r) ==
  /\ pc[r] = "deleted"
  /\ life' = "gone"
  /\ End(r)
  /\ UNCHANGED <<cloud, given, objs, told, finished, faults>>

(* Nothing in the bucket changes and the handler answers with an error:    *)
(* lock_timeout, a failed check, a failed read, a broken body, pre_finish's *)
(* veto, a source that is gone, a request the service refuses.  A handler  *)
(* that is dropped here leaves the same state.                             *)
Fail(r) ==
  /\ \/ pc[r] \in {"lock", "load", "declare", "body", "chunk", "list", "reread", "finish",
                   "parts", "fetch", "total", "read", "left"}
     \/ Refused(r)
  /\ End(r)
  /\ UNCHANGED <<outside, objs>>

-----------------------------------------------------------------------------
Post(r) ==
  \/ \E size \in Sizes, kind \in Kinds : PostArrive(r, size, kind)
  \/ (\E s \in given : TakePartial(r, s)) \/ Concatenate(r) \/ SaveTotal(r) \/ PostNoBody(r)
  \/ \E n \in ChunkLens : PostBody(r, n)

Patch(r) ==
  \/ \E at \in 0..MaxLen, n \in ChunkLens : Arrive(r, "patch", at, n)
  \/ LoadPatch(r) \/ (\E n \in Sizes \ {NoLen} : Declare(r, n))
  \/ ReadChunk(r) \/ WritePart(r) \/ SaveOffset(r) \/ Reread(r)
  \/ PreFinish(r) \/ Finalize(r) \/ Done(r)

Combine(r) == NextGroup(r) \/ FetchBlock(r) \/ FetchPiece(r) \/ Commit(r)

Others(r) ==
  \/ \E op \in {"get", "delete"} : Arrive(r, op, 0, 0)
  \/ Lock(r) \/ HeadRequest(r) \/ LoadGet(r) \/ GetRead(r)
  \/ Delete(r) \/ DeleteParts(r) \/ DeletePartsUnlisted(r) \/ Deleted(r)

Next ==
  \E r \in Reqs :
    \/ Put(r) \/ Erase(r) \/ LoseCall(r)
    \/ Post(r) \/ Patch(r) \/ Combine(r) \/ Others(r) \/ Fail(r)

Spec == Init /\ [][Next]_vars

-----------------------------------------------------------------------------
TypeOK ==
  /\ cloud \in Clouds /\ given \subseteq ToSet(SourceNames)
  /\ DOMAIN objs = Keys
  /\ objs["info"] \in Infos \union {Absent}
  /\ \A key \in Keys \ {"info"} : objs[key] = Absent \/ objs[key] \in Seq(Nat \ {0})
  /\ owner \in Reqs \union {NoReq}
  /\ pc \in [Reqs -> Labels]
  /\ owner # NoReq => pc[owner] \notin {"idle", "lock"}
  /\ \A r \in Reqs : pc[r] = "idle" <=> job[r] = Blank
  /\ \A r \in Reqs : pc[r] = "erase" => job[r].todo # <<>>
  /\ life \in {"new", "made", "known", "doomed", "gone"}
  /\ told \in Nat /\ finished \in BOOLEAN /\ faults \in 0..MaxFaults

Own == Keys \ ({"info"} \union ToSet(SourceNames))
Stored(i, keys) == \E key \in keys : objs[key] # Absent /\ i \in ToSet(objs[key])

(* Every byte below an Upload-Offset a client was told is in some object   *)
(* of the bucket, also between the batches of a finalize, when a call of   *)
(* it fails or is lost, and after retries (info.rs:159, "bytes             *)
(* successfully written so far").                                          *)
ToldBytesStored ==
  life = "known" /\ ~Info.final => \A i \in 1..told : Stored(i, Own)

(* store.rs:31: until the final upload counts its bytes, every byte of a   *)
(* partial is in its data object, an intermediate or the final's data      *)
(* object, whichever call of concatenate was the last to succeed.          *)
PartialsKept ==
  life \in {"new", "made"} /\ ~(Found /\ IsComplete(Info)) =>
    \A i \in DOMAIN SourceNames :
      SourceNames[i] \in given =>
        \A b \in ToSet(SourceBytes[i]) : Stored(b, Own \union ToSet(SourceNames))

(* store.rs:35, "stream the completed upload bytes": as long as every call *)
(* was answered, a GET is answered with the bytes of the upload.           *)
DownloadIsWhole ==
  [][\A r \in Reqs :
       GetRead(r) /\ faults = 0 /\ ~Info.final => objs["data"] = Whole(job[r].info.size)]_vars

(* s3/store.rs:29, "minimum size (except the last part)": what is handed   *)
(* to complete_multipart_upload has parts of just that size, but the last, *)
(* which is empty only when it is the only one, and is all of the sources, *)
(* also of those that another final upload took since they were read.      *)
Original(key) == IF key \in ToSet(SourceNames) THEN PartialBytes(key) ELSE objs[key]

MultipartLegal ==
  \A r \in Reqs : cloud = "s3" /\ pc[r] = "commit" =>
    LET b == job[r].blocks
    IN /\ \A i \in 1..Len(b) - 1 : Len(b[i]) = MinPart
       /\ Len(b) > 0 /\ (Len(b) > 1 => b[Len(b)] # <<>>)
       /\ FlattenSeq(b) = FlattenSeq([i \in DOMAIN job[r].src |-> Original(job[r].src[i])])

(* gcs/store.rs:25, "maximum number of source objects in a single GCS      *)
(* compose request".                                                       *)
ComposeWithinLimit ==
  \A r \in Reqs : cloud = "gcs" /\ pc[r] = "commit" => Len(job[r].src) <= Batch

=============================================================================
