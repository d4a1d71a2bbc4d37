----------------------------- MODULE FileLocker -----------------------------
(***************************************************************************)
(* fileloft-store-fs/src/locker.rs: one lock file per upload ID, locked    *)
(* with flock by a blocking thread that opens, tries and sleeps until its  *)
(* deadline.  The thread goes on when the handler that waits for it gives  *)
(* up.  A lock is given back by unlocking the file and then unlinking its  *)
(* path, two system calls that other threads and processes can come        *)
(* between.  A path names an inode only until it is unlinked; the inode    *)
(* and its flock live on while somebody has it open.                       *)
(***************************************************************************)
EXTENDS Naturals

CONSTANTS
  Reqs,     (* requests, of any process that shares lock_dir *)
  Ids,      (* upload IDs                                    *)
  Inodes,   (* bound: inodes of lock files                   *)
  NoId, NoInode, NoReq

ASSUME FileAssumption == NoId \notin Ids /\ NoInode \notin Inodes /\ NoReq \notin Reqs

VARIABLES
  path,     (* path[id]: the inode {lock_dir}/{id}.lock names, or NoInode *)
  flock,    (* flock[i]: the request whose open file has it locked        *)
  file,     (* file[r]: the inode the request's file handle is open on    *)
  pc,       (* where the blocking thread or the holder of the lock is     *)
  target,   (* the ID it locks                                            *)
  late,     (* late[r]: Instant::now() >= deadline                        *)
  detached  (* detached[r]: nobody awaits the thread of r any more        *)

vars == <<path, flock, file, pc, target, late, detached>>

Waiting == {"opening", "trying", "sleeping"}
PCs == Waiting \union {"idle", "holding", "unlocking", "unlinking"}

Init ==
  /\ path = [id \in Ids |-> NoInode]
  /\ flock = [i \in Inodes |-> NoReq]
  /\ file = [r \in Reqs |-> NoInode]
  /\ pc = [r \in Reqs |-> "idle"]
  /\ target = [r \in Reqs |-> NoId]
  /\ late = [r \in Reqs |-> FALSE]
  /\ detached = [r \in Reqs |-> FALSE]

Goto(r, l) == pc' = [pc EXCEPT ![r] = l]

(* The thread, or the holder, is done with the file; the kernel gives up   *)
(* an flock when its file is closed.                                       *)
Close(r) ==
  /\ file' = [file EXCEPT ![r] = NoInode]
  /\ flock' = [i \in Inodes |-> IF flock[i] = r THEN NoReq ELSE flock[i]]

Finish(r) ==
  /\ Goto(r, "idle")
  /\ target' = [target EXCEPT ![r] = NoId]
  /\ late' = [late EXCEPT ![r] = FALSE]
  /\ detached' = [detached EXCEPT ![r] = FALSE]

-----------------------------------------------------------------------------
(* acquire() *)

(* The directory is there, and the blocking thread is started. *)
Acquire(r, id) ==
  /\ pc[r] = "idle"
  /\ Goto(r, "opening")
  /\ target' = [target EXCEPT ![r] = id]
  /\ UNCHANGED <<path, flock, file, late, detached>>

Unused(i) == (\A id \in Ids : path[id] # i) /\ (\A r \in Reqs : file[r] # i)

(* open with create(true): the file the path names, or a new one. *)
Open(r) ==
  /\ pc[r] = "opening"
  /\ \E i \in Inodes :
       /\ IF path[target[r]] = NoInode THEN Unused(i) ELSE path[target[r]] = i
       /\ path' = [path EXCEPT ![target[r]] = i]
       /\ file' = [file EXCEPT ![r] = i]
  /\ Goto(r, "trying")
  /\ UNCHANGED <<flock, target, late, detached>>

(* Mutated form: a thread nobody awaits any more keeps the lock. *)
TryLockKept(r) ==
  /\ pc[r] = "trying"
  /\ flock[file[r]] = NoReq
  /\ flock' = [flock EXCEPT ![file[r]] = r]
  /\ Goto(r, "holding")
  /\ UNCHANGED <<path, file, target, late, detached>>

(* try_lock_exclusive succeeds.  When nobody awaits the thread its result, *)
(* the lock, is dropped at once.                                           *)
TryLock(r) ==
  /\ pc[r] = "trying"
  /\ flock[file[r]] = NoReq
  /\ flock' = [flock EXCEPT ![file[r]] = r]
  /\ Goto(r, IF detached[r] THEN "unlocking" ELSE "holding")
  /\ UNCHANGED <<path, file, target, late, detached>>

(* Mutated form: the request that timed out is not cleared. *)
TryFailsNoReset(r) ==
  /\ pc[r] = "trying"
  /\ flock[file[r]] # NoReq
  /\ Close(r)
  /\ Goto(r, IF late[r] THEN "idle" ELSE "sleeping")
  /\ UNCHANGED <<path, target, late, detached>>

(* Mutated form: no deadline. *)
TryFailsForever(r) ==
  /\ pc[r] = "trying"
  /\ flock[file[r]] # NoReq
  /\ Close(r)
  /\ Goto(r, "sleeping")
  /\ UNCHANGED <<path, target, late, detached>>

(* It is locked: the file is closed, and LockTimeout or another try.       *)
TryFails(r) ==
  /\ pc[r] = "trying"
  /\ flock[file[r]] # NoReq
  /\ Close(r)
  /\ IF late[r] THEN Finish(r) ELSE Goto(r, "sleeping") /\ UNCHANGED <<target, late, detached>>
  /\ UNCHANGED path

Wake(r) ==
  /\ pc[r] = "sleeping"
  /\ Goto(r, "opening")
  /\ UNCHANGED <<path, flock, file, target, late, detached>>

Expire(r) ==
  /\ pc[r] \in Waiting /\ ~late[r]
  /\ late' = [late EXCEPT ![r] = TRUE]
  /\ UNCHANGED <<path, flock, file, pc, target, detached>>

(* The handler's lock_timeout, or its cancellation: only the JoinHandle is *)
(* dropped.                                                                *)
GiveUp(r) ==
  /\ pc[r] \in Waiting /\ ~detached[r]
  /\ detached' = [detached EXCEPT ![r] = TRUE]
  /\ UNCHANGED <<path, flock, file, pc, target, late>>

-----------------------------------------------------------------------------
(* Giving the lock back, by release() or by Drop *)

Release(r) ==
  /\ pc[r] = "holding"
  /\ Goto(r, "unlocking")
  /\ UNCHANGED <<path, flock, file, target, late, detached>>

(* Mutated form: the lock is forgotten with its file still open. *)
UnlockForgotten(r) ==
  /\ pc[r] = "unlocking"
  /\ Goto(r, "unlinking")
  /\ UNCHANGED <<path, flock, file, target, late, detached>>

Unlock(r) ==
  /\ pc[r] = "unlocking"
  /\ Close(r)
  /\ Goto(r, "unlinking")
  /\ UNCHANGED <<path, target, late, detached>>

(* remove_file by path, whatever file the path names by now. *)
Unlink(r) ==
  /\ pc[r] = "unlinking"
  /\ path' = [path EXCEPT ![target[r]] = NoInode]
  /\ Finish(r)
  /\ UNCHANGED <<flock, file>>

(* The process of r dies: its files are closed, its lock file stays. *)
Crash(r) ==
  /\ pc[r] # "idle"
  /\ Close(r)
  /\ Finish(r)
  /\ UNCHANGED path

-----------------------------------------------------------------------------
Step(r) ==
  \/ Open(r) \/ TryLock(r) \/ TryFails(r) \/ Wake(r) \/ Expire(r)
  \/ Unlock(r) \/ Unlink(r)

Next ==
  \E r \in Reqs :
    \/ \E id \in Ids : Acquire(r, id)
    \/ Step(r) \/ GiveUp(r) \/ Release(r) \/ Crash(r)

(* A blocking thread runs, and time passes.  Nothing obliges a holder to   *)
(* release, and no process has to crash.                                   *)
Fairness ==
  \A r \in Reqs :
    /\ WF_vars(Open(r)) /\ WF_vars(TryLock(r) \/ TryFails(r))
    /\ WF_vars(Wake(r)) /\ WF_vars(Expire(r))
    /\ WF_vars(Unlock(r)) /\ WF_vars(Unlink(r))

Spec == Init /\ [][Next]_vars
FairSpec == Spec /\ Fairness

-----------------------------------------------------------------------------
TypeOK ==
  /\ path \in [Ids -> Inodes \union {NoInode}]
  /\ flock \in [Inodes -> Reqs \union {NoReq}]
  /\ file \in [Reqs -> Inodes \union {NoInode}]
  /\ pc \in [Reqs -> PCs]
  /\ target \in [Reqs -> Ids \union {NoId}]
  /\ late \in [Reqs -> BOOLEAN] /\ detached \in [Reqs -> BOOLEAN]
  /\ \A r \in Reqs : pc[r] = "idle" <=> target[r] = NoId

(* lock.rs:10, "one exclusive lock per upload ID".                         *)
Exclusive ==
  \A r, q \in Reqs :
    pc[r] = "holding" /\ pc[q] = "holding" /\ target[r] = target[q] => r = q

(* Only a live holder keeps others out: an inode is locked while a request *)
(* holds or unlocks it through its own handle, never by a leftover file of *)
(* a crashed process, a timed out waiter or a handle that was forgotten.   *)
LocksHaveHolders ==
  \A i \in Inodes : flock[i] # NoReq =>
    pc[flock[i]] \in {"holding", "unlocking"} /\ file[flock[i]] = i

(* acquire() answers by its deadline, also when the lock is never released *)
(* (lock.rs:18, "Should block (respecting a timeout)").                    *)
AcquireReturns == \A r \in Reqs : pc[r] \in Waiting ~> pc[r] \notin Waiting

(* A thread whose request has gone lets go of the lock it may still get.   *)
GhostsLetGo == \A r \in Reqs : detached[r] ~> pc[r] = "idle"

=============================================================================
