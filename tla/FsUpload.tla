------------------------------ MODULE FsUpload ------------------------------
(***************************************************************************)
(* fileloft-store-fs/src/store.rs under the handlers: the files of one     *)
(* upload ({id}.info, {id}_part_{n}, {id}) as each file operation leaves   *)
(* them.  A PATCH is not atomic on disk: it writes a part, then the info;  *)
(* the last one then assembles the parts.  A write empties the file before *)
(* it fills it.  File operations run on a blocking thread, which goes on   *)
(* when the request that awaits it is dropped; a crash stops everything    *)
(* and keeps the files.  The lock is an exclusive one that is given back   *)
(* when its value goes out of scope, as all three lockers do.              *)
(*                                                                         *)
(* Clients send the bytes of one file, byte i of it being the number i, so *)
(* that a retry sends the same bytes again.                                *)
(***************************************************************************)
EXTENDS Naturals, SequencesExt

CONSTANTS
  Reqs,        (* requests                                              *)
  PartNames,   (* {id}_part_0, {id}_part_1, ...: their number is a bound *)
  MaxLen,      (* bound: the longest file                               *)
  Sizes,       (* Upload-Length values, NoLen for deferred                 *)
  ChunkLens,   (* lengths of request bodies                             *)
  FinalLen,    (* length of the partials of a final upload together     *)
  Kinds,       (* subset of {"plain", "final"}: what POST may create    *)
  MaxFaults,   (* bound: crashes and file operations that fail          *)
  MaxCancels,  (* bound: requests that are dropped                      *)
  Absent, NoLen, NoReq

Infos == [size : Nat \union {NoLen}, offset : Nat, final : BOOLEAN]

ASSUME FsAssumption ==
  /\ NoReq \notin Reqs /\ NoLen \notin Nat
  /\ PartNames \in Seq(STRING \ {"info", "data"}) /\ IsInjective(PartNames)
  /\ Absent \notin Seq(Nat) \union Seq(Infos)
  /\ MaxLen \in Nat /\ FinalLen \in Nat
  /\ Sizes \subseteq Nat \union {NoLen} /\ ChunkLens \subseteq Nat
  /\ MaxFaults \in Nat /\ MaxCancels \in Nat /\ Kinds \subseteq {"plain", "final"}

VARIABLES
  files,    (* files[path]: the content, a sequence, or Absent; the content *)
            (* of "info" is <<info>>, or <<>> while it is being written     *)
  owner,    (* the request that holds the lock of the upload                *)
  pc, job,  (* pc[r], job[r]: where a handler is, and its local variables   *)
  life,     (* "new", "made", "known" to clients, "doomed" by a DELETE or   *)
            (* "gone": its 204 was sent                                     *)
  told,     (* the largest Upload-Offset any client was told                *)
  finished, (* finalize returned and UploadFinished was sent                *)
  faults, cancels,  (* how many there were                                *)
  short     (* a length below the offset was declared                     *)

outside == <<life, told, finished, faults, cancels, short>>
vars == <<files, owner, pc, job, life, told, finished, faults, cancels, short>>

Paths == {"info", "data"} \union ToSet(PartNames)
FileOps == {"open", "fill", "remove"}
Labels ==
  FileOps \union
    {"idle", "combine", "combining", "body", "lock", "load", "declare", "chunk", "count",
     "save", "reread", "finish", "list", "copy", "sweep", "done", "list_left", "deleted", "read"}

Info == files["info"][1]
Readable == files["info"] # Absent /\ files["info"] # <<>>
IsComplete(info) == info.size # NoLen /\ info.offset = info.size

(* The first n bytes of the clients' file. *)
Whole(n) == [i \in 1..n |-> i]

(* The body of a request: the n bytes that follow the first `at`. *)
Chunk(at, n) == [i \in 1..n |-> at + i]

Blank ==
  [op |-> "none", at |-> 0, n |-> 0, info |-> Absent, path |-> "info", value |-> <<>>,
   pos |-> 0, then |-> "idle", todo |-> <<>>, k |-> 1, ghost |-> FALSE]

Init ==
  /\ files = [p \in Paths |-> Absent]
  /\ owner = NoReq
  /\ pc = [r \in Reqs |-> "idle"]
  /\ job = [r \in Reqs |-> Blank]
  /\ life = "new" /\ told = 0 /\ finished = FALSE
  /\ faults = 0 /\ cancels = 0 /\ short = FALSE

Goto(r, l) == pc' = [pc EXCEPT ![r] = l]
Unlock(r) == owner' = IF owner = r THEN NoReq ELSE owner

(* Mutated form: the lock is not given back. *)
EndKeepsLock(r) == Goto(r, "idle") /\ job' = [job EXCEPT ![r] = Blank] /\ UNCHANGED owner

End(r) == Goto(r, "idle") /\ job' = [job EXCEPT ![r] = Blank] /\ Unlock(r)

Tell(n) == told' = IF told < n THEN n ELSE told

-----------------------------------------------------------------------------
(* File operations *)

(* tokio::fs::write(path, value), after which the handler goes on at l.    *)
Write(r, path, value, l) ==
  /\ job' = [job EXCEPT ![r].path = path, ![r].value = value, ![r].then = l]
  /\ Goto(r, "open")

(* The thread of r is done with an operation: its handler goes on, unless  *)
(* it is gone.                                                             *)
Resume(r, l) ==
  IF job[r].ghost
  THEN Goto(r, "idle") /\ job' = [job EXCEPT ![r] = Blank]
  ELSE Goto(r, l) /\ UNCHANGED job

OpenFile(r) ==
  /\ pc[r] = "open"
  /\ files' = [files EXCEPT ![job[r].path] = <<>>]
  /\ Goto(r, "fill")
  /\ UNCHANGED <<owner, job, outside>>

(* The bytes go to the place at which the open file is written, over what  *)
(* another thread may have put there; the system fills a gap with zeros,   *)
(* and an unlinked file takes the bytes along.                             *)
Overlaid(old, at, new) ==
  IF old = Absent \/ new = <<>> THEN old
  ELSE [i \in 1..Max({Len(old), at + Len(new)}) |->
          CASE i \in (at + 1)..(at + Len(new)) -> new[i - at]
            [] i <= at /\ i > Len(old) -> 0
            [] OTHER -> old[i]]

FillFile(r) ==
  /\ pc[r] = "fill"
  /\ files' = [files EXCEPT ![job[r].path] = Overlaid(@, job[r].pos, job[r].value)]
  /\ Resume(r, job[r].then)
  /\ UNCHANGED <<owner, outside>>

(* remove_file_ignore_not_found *)
RemoveFile(r) ==
  /\ pc[r] = "remove"
  /\ files' = [files EXCEPT ![job[r].path] = Absent]
  /\ Resume(r, "sweep")
  /\ UNCHANGED <<owner, outside>>

(* The next file of the list is removed, or the list is done. *)
Sweep(r) ==
  /\ pc[r] = "sweep"
  /\ IF job[r].todo = <<>>
     THEN Goto(r, job[r].then) /\ UNCHANGED job
     ELSE /\ job' = [job EXCEPT ![r].path = Head(job[r].todo), ![r].todo = Tail(@)]
          /\ Goto(r, "remove")
  /\ UNCHANGED <<files, owner, outside>>

(* Bytes appended through the open data file: lost when it was unlinked. *)
DataWith(bytes) == IF files["data"] = Absent THEN Absent ELSE files["data"] \o bytes

(* The name, if there is such a file. *)
Listed(p) == IF files[p] = Absent THEN <<>> ELSE <<p>>

(* list_part_paths_sorted: the part files there are, by their numbers. *)
PartsSorted == FlattenSeq([i \in DOMAIN PartNames |-> Listed(PartNames[i])])

-----------------------------------------------------------------------------
(* POST: create_upload, concatenate for a final upload, write_chunk *)

PostArrive(r, size, kind) ==
  /\ pc[r] = "idle" /\ life = "new"
  /\ life' = "made"
  /\ job' = [job EXCEPT ![r] =
       [Blank EXCEPT !.op = "post", !.path = "info",
          !.value = <<[size |-> size, offset |-> 0, final |-> kind = "final"]>>,
          !.then = IF kind = "final" THEN "combine" ELSE "body"]]
  /\ Goto(r, "open")
  /\ UNCHANGED <<files, owner, told, finished, faults, cancels, short>>

Combine(r) ==
  /\ pc[r] = "combine"
  /\ files' = [files EXCEPT !["data"] = <<>>]
  /\ Goto(r, "combining")
  /\ UNCHANGED <<owner, job, outside>>

(* The data files of the partials are copied in, then the info completed. *)
Combining(r) ==
  /\ pc[r] = "combining"
  /\ IF Len(files["data"]) < FinalLen
     THEN /\ files' = [files EXCEPT !["data"] = Append(@, Len(@) + 1)]
          /\ UNCHANGED <<pc, job>>
     ELSE /\ Readable
          /\ Write(r, "info", <<[size |-> FinalLen, offset |-> FinalLen, final |-> TRUE]>>,
                   "body")
          /\ UNCHANGED files
  /\ UNCHANGED <<owner, outside>>

PostNoBody(r) ==
  /\ pc[r] = "body"
  /\ Goto(r, "reread")
  /\ UNCHANGED <<files, owner, job, outside>>

PostBody(r, n) ==
  /\ pc[r] = "body"
  /\ job' = [job EXCEPT ![r].n = n]
  /\ Goto(r, "chunk")
  /\ UNCHANGED <<files, owner, outside>>

-----------------------------------------------------------------------------
(* PATCH, HEAD, GET and DELETE *)

Arrive(r, op, at, n) ==
  /\ pc[r] = "idle" /\ life \in {"known", "doomed", "gone"}
  /\ job' = [job EXCEPT ![r] = [Blank EXCEPT !.op = op, !.at = at, !.n = n]]
  /\ Goto(r, "lock")
  /\ UNCHANGED <<files, owner, outside>>

(* Mutated form: the lock is not waited for. *)
LockAnyway(r) ==
  /\ pc[r] = "lock"
  /\ owner' = r
  /\ Goto(r, "load")
  /\ UNCHANGED <<files, job, outside>>

Lock(r) ==
  /\ pc[r] = "lock" /\ owner = NoReq
  /\ owner' = r
  /\ Goto(r, "load")
  /\ UNCHANGED <<files, job, outside>>

(* The handler's own checks on the info. *)
LoadPatch(r) ==
  /\ pc[r] = "load" /\ job[r].op = "patch"
  /\ Readable /\ ~Info.final /\ Info.offset = job[r].at
  /\ Goto(r, "chunk") \/ (Info.size = NoLen /\ Goto(r, "declare"))
  /\ UNCHANGED <<files, owner, job, outside>>

Declare(r, n) ==
  /\ pc[r] = "declare"
  /\ Readable /\ Info.size = NoLen
  /\ Write(r, "info", <<[Info EXCEPT !.size = n]>>, "chunk")
  /\ short' = (short \/ n < Info.offset)
  /\ UNCHANGED <<files, owner, life, told, finished, faults, cancels>>

(* Mutated form: the check of the declared size has an off-by-one. *)
ReadChunkOneMore(r) ==
  /\ pc[r] = "chunk"
  /\ Readable /\ Info.offset = job[r].at
  /\ Info.size # NoLen => job[r].at + job[r].n <= Info.size + 1
  /\ job' = [job EXCEPT ![r].info = Info]
  /\ Goto(r, "count")
  /\ UNCHANGED <<files, owner, outside>>

(* write_chunk reads the info, then the body, and checks the size. *)
ReadChunk(r) ==
  /\ pc[r] = "chunk"
  /\ Readable /\ Info.offset = job[r].at
  /\ Info.size # NoLen => job[r].at + job[r].n <= Info.size
  /\ job' = [job EXCEPT ![r].info = Info]
  /\ Goto(r, "count")
  /\ UNCHANGED <<files, owner, outside>>

(* Mutated form: the last part is written over. *)
WritePartAgain(r) ==
  /\ pc[r] = "count"
  /\ LET count == Len(PartsSorted)
     IN Write(r, PartNames[IF count = 0 THEN 1 ELSE count], Chunk(job[r].at, job[r].n), "save")
  /\ UNCHANGED <<files, owner, outside>>

(* The part's index is the number of part files found. *)
WritePart(r) ==
  /\ pc[r] = "count" /\ Len(PartsSorted) < Len(PartNames)
  /\ Write(r, PartNames[Len(PartsSorted) + 1], Chunk(job[r].at, job[r].n), "save")
  /\ UNCHANGED <<files, owner, outside>>

(* The info that was read before the body, with the new offset. *)
SaveOffset(r) ==
  /\ pc[r] = "save"
  /\ Write(r, "info", <<[job[r].info EXCEPT !.offset = job[r].at + job[r].n]>>, "reread")
  /\ UNCHANGED <<files, owner, outside>>

(* get_info after the write: 204 or 201, or first the upload is finished. *)
Reread(r) ==
  /\ pc[r] = "reread"
  /\ Readable
  /\ IF IsComplete(Info)
     THEN /\ job' = [job EXCEPT ![r].info = Info]
          /\ Goto(r, "finish")
          /\ UNCHANGED <<owner, life, told>>
     ELSE /\ End(r)
          /\ Tell(Info.offset)
          /\ life' = IF life = "made" THEN "known" ELSE life
  /\ UNCHANGED <<files, finished, faults, cancels, short>>

(* Mutated form: the upload is announced before it is assembled. *)
FinishAnnounced(r) ==
  /\ pc[r] = "finish"
  /\ finished' = TRUE
  /\ Goto(r, "list")
  /\ UNCHANGED <<files, owner, job, life, told, faults, cancels, short>>

(* pre_finish accepts. *)
Finish(r) ==
  /\ pc[r] = "finish"
  /\ Goto(r, "list")
  /\ UNCHANGED <<files, owner, job, outside>>

(* finalize lists the parts; without any it writes an empty data file,     *)
(* otherwise it empties the data file and copies them in.                  *)
ListParts(r) ==
  /\ pc[r] = "list"
  /\ IF PartsSorted = <<>>
     THEN Write(r, "data", <<>>, "done") /\ UNCHANGED files
     ELSE /\ job' = [job EXCEPT ![r].todo = PartsSorted, ![r].k = 1, ![r].then = "done"]
          /\ files' = [files EXCEPT !["data"] = <<>>]
          /\ Goto(r, "copy")
  /\ UNCHANGED <<owner, outside>>

PartAtHand(r) == job[r].todo[job[r].k]

CopyPart(r) ==
  /\ pc[r] = "copy"
  /\ files[PartAtHand(r)] # Absent
  /\ files' = [files EXCEPT !["data"] = DataWith(files[PartAtHand(r)])]
  /\ IF job[r].k < Len(job[r].todo)
     THEN job' = [job EXCEPT ![r].k = @ + 1] /\ UNCHANGED pc
     ELSE Goto(r, "sweep") /\ UNCHANGED job
  /\ UNCHANGED <<owner, outside>>

(* UploadFinished, 204 or 201. *)
Done(r) ==
  /\ pc[r] = "done"
  /\ finished' = TRUE
  /\ life' = IF life = "made" THEN "known" ELSE life
  /\ Tell(job[r].info.offset)
  /\ End(r)
  /\ UNCHANGED <<files, faults, cancels, short>>

HeadRequest(r) ==
  /\ pc[r] = "idle" /\ life \in {"known", "doomed", "gone"}
  /\ Readable
  /\ Tell(Info.offset)
  /\ UNCHANGED <<files, owner, pc, job, life, finished, faults, cancels, short>>

LoadGet(r) ==
  /\ pc[r] = "load" /\ job[r].op = "get"
  /\ Readable /\ IsComplete(Info)
  /\ job' = [job EXCEPT ![r].info = Info]
  /\ Goto(r, "read")
  /\ UNCHANGED <<files, owner, outside>>

(* read_content, and the body of the 200. *)
GetRead(r) ==
  /\ pc[r] = "read"
  /\ Readable /\ IsComplete(Info) /\ files["data"] # Absent
  /\ End(r)
  /\ UNCHANGED <<files, outside>>

(* delete: the data file and the info, then the parts there are by then. *)
LoadDelete(r) ==
  /\ pc[r] = "load" /\ job[r].op = "delete"
  /\ files["info"] # Absent
  /\ life' = "doomed"
  /\ job' = [job EXCEPT ![r].todo = <<"data", "info">>, ![r].then = "list_left"]
  /\ Goto(r, "sweep")
  /\ UNCHANGED <<files, owner, told, finished, faults, cancels, short>>

ListLeft(r) ==
  /\ pc[r] = "list_left"
  /\ job' = [job EXCEPT ![r].todo = PartsSorted, ![r].then = "deleted"]
  /\ Goto(r, "sweep")
  /\ UNCHANGED <<files, owner, outside>>

(* 204 for the DELETE. *)
Deleted(r) ==
  /\ pc[r] = "deleted"
  /\ life' = "gone"
  /\ End(r)
  /\ UNCHANGED <<files, told, finished, faults, cancels, short>>

-----------------------------------------------------------------------------
(* Failures *)

(* The handler answers with an error: lock_timeout, a failed check, an I/O *)
(* error on a read, a broken body, a checksum, or pre_finish's veto.       *)
Fail(r) ==
  /\ \/ pc[r] \in {"lock", "load", "declare", "body", "chunk", "reread", "finish", "read"}
     \/ pc[r] = "copy" /\ files[PartAtHand(r)] = Absent
  /\ End(r)
  /\ UNCHANGED <<files, outside>>

(* The thread of a dropped request writes on to the data file it has open. *)
DataLater(r, bytes) ==
  /\ files["data"] # Absent
  /\ Goto(r, "fill")
  /\ job' = [job EXCEPT ![r].ghost = TRUE, ![r].path = "data",
                         ![r].pos = Len(files["data"]), ![r].value = bytes]

(* The handler's future is dropped, and its lock; a file operation under   *)
(* way is finished by its thread.  Where a handler opens the data file, or *)
(* copies to it, the thread may also not have begun.                       *)
Cancel(r) ==
  /\ cancels < MaxCancels /\ pc[r] # "idle" /\ ~job[r].ghost
  /\ Unlock(r)
  /\ \/ pc[r] \in FileOps /\ job' = [job EXCEPT ![r].ghost = TRUE] /\ UNCHANGED pc
     \/ pc[r] \notin FileOps /\ End(r)
     \/ /\ pc[r] \in {"combine", "list"}
        /\ job' = [job EXCEPT ![r].ghost = TRUE, ![r].path = "data", ![r].value = <<>>]
        /\ Goto(r, "open")
     \/ /\ pc[r] = "combining" /\ Len(files["data"]) < FinalLen
        /\ DataLater(r, <<Len(files["data"]) + 1>>)
     \/ /\ pc[r] = "copy" /\ files[PartAtHand(r)] # Absent
        /\ DataLater(r, files[PartAtHand(r)])
  /\ cancels' = cancels + 1
  /\ UNCHANGED <<files, life, told, finished, faults, short>>

Firsts(s) == {SubSeq(s, 1, n) : n \in 0..Len(s)}

(* The disk is full, or gives an error: an operation that writes stops     *)
(* with some of the bytes there, and the handler answers with 500.         *)
OperationFails(r) ==
  /\ faults < MaxFaults
  /\ faults' = faults + 1
  /\ \/ pc[r] \in {"open", "remove", "combine", "combining", "list"} /\ UNCHANGED files
     \/ /\ pc[r] = "fill"
        /\ \E some \in Firsts(job[r].value) :
             files' = [files EXCEPT ![job[r].path] = Overlaid(@, job[r].pos, some)]
     \/ /\ pc[r] = "copy" /\ files[PartAtHand(r)] # Absent
        /\ \E some \in Firsts(files[PartAtHand(r)]) :
             files' = [files EXCEPT !["data"] = DataWith(some)]
  /\ End(r)
  /\ UNCHANGED <<life, told, finished, cancels, short>>

(* The process dies and is started again. *)
Crash ==
  /\ faults < MaxFaults
  /\ faults' = faults + 1
  /\ owner' = NoReq
  /\ pc' = [r \in Reqs |-> "idle"]
  /\ job' = [r \in Reqs |-> Blank]
  /\ UNCHANGED <<files, life, told, finished, cancels, short>>

-----------------------------------------------------------------------------
Post(r) ==
  \/ \E size \in Sizes, kind \in Kinds : PostArrive(r, size, kind)
  \/ Combine(r) \/ Combining(r) \/ PostNoBody(r)
  \/ \E n \in ChunkLens : PostBody(r, n)

Patch(r) ==
  \/ \E at \in 0..MaxLen, n \in ChunkLens : Arrive(r, "patch", at, n)
  \/ LoadPatch(r) \/ (\E n \in Sizes \ {NoLen} : Declare(r, n))
  \/ ReadChunk(r) \/ WritePart(r) \/ SaveOffset(r) \/ Reread(r)
  \/ Finish(r) \/ ListParts(r) \/ CopyPart(r) \/ Done(r)

Others(r) ==
  \/ \E op \in {"get", "delete"} : Arrive(r, op, 0, 0)
  \/ Lock(r) \/ HeadRequest(r) \/ LoadGet(r) \/ GetRead(r) \/ LoadDelete(r)
  \/ ListLeft(r) \/ Deleted(r)

Next ==
  \/ \E r \in Reqs :
       \/ OpenFile(r) \/ FillFile(r) \/ RemoveFile(r) \/ Sweep(r)
       \/ Post(r) \/ Patch(r) \/ Others(r) \/ Fail(r) \/ Cancel(r)
       \/ OperationFails(r)
  \/ Crash

Spec == Init /\ [][Next]_vars

-----------------------------------------------------------------------------
TypeOK ==
  /\ DOMAIN files = Paths
  /\ files["info"] = Absent \/ files["info"] \in Seq(Infos)
  /\ \A p \in Paths \ {"info"} : files[p] = Absent \/ files[p] \in Seq(Nat)
  /\ owner \in Reqs \union {NoReq}
  /\ pc \in [Reqs -> Labels]
  /\ \A r \in Reqs : job[r].path \in Paths /\ job[r].then \in Labels
  /\ \A r \in Reqs : pc[r] = "idle" => job[r] = Blank
  /\ owner # NoReq => pc[owner] \notin {"idle", "lock"} /\ ~job[owner].ghost
  /\ life \in {"new", "made", "known", "doomed", "gone"}
  /\ told \in Nat /\ finished \in BOOLEAN /\ short \in BOOLEAN
  /\ faults \in 0..MaxFaults /\ cancels \in 0..MaxCancels

(* What is on disk for the bytes below the offset, read part by part. *)
Stored == FlattenSeq([i \in DOMAIN PartsSorted |-> files[PartsSorted[i]]])

Quiet == \A r \in Reqs : pc[r] \in {"idle", "lock", "load"}

(* Between requests the part files hold, in the order of their numbers,    *)
(* just the bytes the info counts, what a resumed upload builds on, as     *)
(* long as no request was stopped in the middle.                           *)
PartsMatchOffset ==
  life = "known" /\ faults + cancels = 0 /\ Quiet /\ ~IsComplete(Info) =>
    Stored = Whole(Info.offset)

(* A part is never made over another: the number of the part files is the  *)
(* name of none of them, also after a write that failed or a crash left a  *)
(* part the info does not count.                                           *)
PartsNeverRewritten ==
  [][\A r \in Reqs :
       OpenFile(r) /\ job[r].then = "save" /\ life \in {"made", "known"} /\ cancels = 0 =>
         files[job[r].path] = Absent]_vars

(* Every byte below an Upload-Offset a client was told is on disk, in a    *)
(* part or in the data file, also in the middle of a write, of finalize    *)
(* and after a crash or a full disk (info.rs:159, "bytes successfully      *)
(* written so far").                                                       *)
OnDisk(i) == \E p \in Paths \ {"info"} : files[p] # Absent /\ i \in ToSet(files[p])

ToldBytesOnDisk ==
  life = "known" /\ cancels = 0 /\ ~(Readable /\ Info.final) => \A i \in 1..told : OnDisk(i)

(* error.rs ExceedsUploadLength: whatever fails, and however late a write  *)
(* lands, the info never counts more bytes than the declared length,       *)
(* unless the length was declared too late (patch.rs:87 lets it be).       *)
OffsetWithinSize ==
  Readable /\ Info.size # NoLen /\ ~short => Info.offset <= Info.size

(* hooks.rs:15: when UploadFinished is sent the data file is the whole of  *)
(* the upload, and stays so whatever requests are at work.                 *)
FinishedIsWhole ==
  life = "known" /\ finished /\ faults + cancels = 0 =>
    Readable /\ (~Info.final => files["data"] = Whole(Info.size))

(* store.rs:31, "assemble fully-uploaded partials (in order) into this     *)
(* final upload": a finished final upload has the bytes of its partials.   *)
FinalIsWhole ==
  life = "known" /\ finished /\ Quiet /\ Readable /\ Info.final =>
    files["data"] = Whole(Info.size)

(* store.rs:35, "stream the completed upload bytes": a GET is answered     *)
(* with the bytes of the upload, as many as its Content-Length.            *)
DownloadIsWhole ==
  [][\A r \in Reqs :
       GetRead(r) /\ ~Info.final /\ faults + cancels = 0 =>
         files["data"] = Whole(job[r].info.size)]_vars

(* store.rs:23, "free all associated resources": after the 204 of a DELETE *)
(* no file of the upload is left, nor made again by an earlier request.    *)
NothingLeftBehind == life = "gone" /\ cancels = 0 => \A p \in Paths : files[p] = Absent

=============================================================================
