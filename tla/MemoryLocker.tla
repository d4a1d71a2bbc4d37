---------------------------- MODULE MemoryLocker ----------------------------
(***************************************************************************)
(* fileloft-store-memory/src/locker.rs: a set of held IDs behind an async  *)
(* tokio Mutex.  A waiter spins (lock the mutex, try to insert its ID,     *)
(* sleep 10 ms) until its deadline; a lock is given back by release(),     *)
(* which waits for the mutex, or by Drop, which cannot wait and only tries *)
(* it.  One action is the code between two awaits; the mutex guard is held *)
(* in between, so other threads see it taken.                              *)
(***************************************************************************)
EXTENDS Fifo

CONSTANTS
  Reqs,    (* requests, one task each *)
  Ids,     (* upload IDs              *)
  NoId

ASSUME NoIdAssumption == NoId \notin Ids

VARIABLES
  held,     (* MemoryLocker.held: the IDs marked as locked                  *)
  mutex,    (* the tokio Mutex around it: its FIFO queue, the head has it   *)
  pc,       (* where each request is                                        *)
  target,   (* the ID each request locks, NoId when idle                    *)
  late      (* late[r]: Instant::now() >= deadline for r's acquire          *)

vars == <<held, mutex, pc, target, late>>

Waiting == {"locking", "sleeping"}
PCs == Waiting \union {"idle", "holding", "releasing", "cancelled", "dropping"}

Init ==
  /\ held = {}
  /\ mutex = <<>>
  /\ pc = [r \in Reqs |-> "idle"]
  /\ target = [r \in Reqs |-> NoId]
  /\ late = [r \in Reqs |-> FALSE]

HasMutex(r) == mutex # <<>> /\ Head(mutex) = r

Goto(r, l) == pc' = [pc EXCEPT ![r] = l]

Finish(r) ==
  /\ Goto(r, "idle")
  /\ target' = [target EXCEPT ![r] = NoId]
  /\ late' = [late EXCEPT ![r] = FALSE]

-----------------------------------------------------------------------------
(* acquire() *)

(* acquire is called: the deadline is set and held.lock() awaited. *)
Acquire(r, id) ==
  /\ pc[r] = "idle"
  /\ Goto(r, "locking")
  /\ target' = [target EXCEPT ![r] = id]
  /\ mutex' = Append(mutex, r)
  /\ UNCHANGED <<held, late>>

(* Mutated form: the ID is taken out of the request before the insert. *)
InsertTakenId(r) ==
  /\ pc[r] = "locking" /\ HasMutex(r)
  /\ target' = [target EXCEPT ![r] = NoId]
  /\ held' = held \union {target'[r]}
  /\ mutex' = Tail(mutex)
  /\ Goto(r, "holding")
  /\ UNCHANGED late

(* The guard is granted and held.insert(id) is new: the lock is returned. *)
Insert(r) ==
  /\ pc[r] = "locking" /\ HasMutex(r)
  /\ target[r] \notin held
  /\ held' = held \union {target[r]}
  /\ mutex' = Tail(mutex)
  /\ Goto(r, "holding")
  /\ UNCHANGED <<target, late>>

(* Mutated forms: no deadline, so that the waiter sleeps and tries again;  *)
(* or it spins under the guard until the ID is free.                       *)
BusyUnderGuard(r) ==
  /\ pc[r] = "locking" /\ HasMutex(r)
  /\ target[r] \in held
  /\ UNCHANGED vars

BusyForever(r) ==
  /\ pc[r] = "locking" /\ HasMutex(r)
  /\ target[r] \in held
  /\ mutex' = Tail(mutex)
  /\ Goto(r, "sleeping")
  /\ UNCHANGED <<held, target, late>>

(* The ID was already in the set: sleep, or LockTimeout past the deadline. *)
Busy(r) ==
  /\ pc[r] = "locking" /\ HasMutex(r)
  /\ target[r] \in held
  /\ mutex' = Tail(mutex)
  /\ IF late[r] THEN Finish(r) ELSE Goto(r, "sleeping") /\ UNCHANGED <<target, late>>
  /\ UNCHANGED held

Wake(r) ==
  /\ pc[r] = "sleeping"
  /\ Goto(r, "locking")
  /\ mutex' = Append(mutex, r)
  /\ UNCHANGED <<held, target, late>>

(* Time reaches the deadline of an acquire. *)
Expire(r) ==
  /\ pc[r] \in Waiting /\ ~late[r]
  /\ late' = [late EXCEPT ![r] = TRUE]
  /\ UNCHANGED <<held, mutex, pc, target>>

(* Mutated form: a cancelled waiter takes its ID out of the set although   *)
(* it never owned it.                                                      *)
CancelRemovesId(r) ==
  /\ pc[r] \in Waiting
  /\ mutex' = Without(mutex, r)
  /\ held' = held \ {target[r]}
  /\ Finish(r)

(* The handler's own timeout fires, or its client goes away: the acquire   *)
(* future is dropped at an await.                                          *)
CancelAcquire(r) ==
  /\ pc[r] \in Waiting
  /\ mutex' = Without(mutex, r)
  /\ Finish(r)
  /\ UNCHANGED held

-----------------------------------------------------------------------------
(* Giving the lock back *)

(* Drop: try_lock succeeds only when nobody has or awaits the mutex.  That *)
(* a drop gives the lock back is this type's own promise (locker.rs:66);   *)
(* the trait has none (lock.rs:3, "Dropping does NOT release it").         *)
Drop(r) ==
  /\ pc[r] \in {"holding", "cancelled"}
  /\ mutex = <<>>
  /\ mutex' = <<r>>
  /\ Goto(r, "dropping")
  /\ UNCHANGED <<held, target, late>>

(* Drop when try_lock fails: nothing is removed and nothing is retried. *)
DropFails(r) ==
  /\ pc[r] \in {"holding", "cancelled"}
  /\ mutex # <<>>
  /\ Finish(r)
  /\ UNCHANGED <<held, mutex>>

(* release() awaits the mutex. *)
Release(r) ==
  /\ pc[r] = "holding"
  /\ Goto(r, "releasing")
  /\ mutex' = Append(mutex, r)
  /\ UNCHANGED <<held, target, late>>

(* Mutated form: `released` is set before the mutex is awaited, so that    *)
(* the Drop of a cancelled release() does nothing.                         *)
CancelReleaseMarked(r) ==
  /\ pc[r] = "releasing"
  /\ mutex' = Without(mutex, r)
  /\ Finish(r)
  /\ UNCHANGED held

(* release() is dropped while it waits: `released` is still false. *)
CancelRelease(r) ==
  /\ pc[r] = "releasing"
  /\ mutex' = Without(mutex, r)
  /\ Goto(r, "cancelled")
  /\ UNCHANGED <<held, target, late>>

(* held.remove(id) under the guard, from Drop or from release(). *)
RemoveId(r) ==
  /\ pc[r] \in {"releasing", "dropping"} /\ HasMutex(r)
  /\ held' = held \ {target[r]}
  /\ mutex' = Tail(mutex)
  /\ Finish(r)

-----------------------------------------------------------------------------
Next ==
  \E r \in Reqs :
    \/ \E id \in Ids : Acquire(r, id)
    \/ Insert(r)
    \/ Busy(r)
    \/ Wake(r)
    \/ Expire(r)
    \/ CancelAcquire(r)
    \/ Drop(r)
    \/ DropFails(r)
    \/ Release(r)
    \/ CancelRelease(r)
    \/ RemoveId(r)

(* The runtime polls a woken task, timers fire, and synchronous code ends.  *)
(* Nothing obliges a holder to finish its request.                         *)
Fairness ==
  \A r \in Reqs :
    /\ WF_vars(Insert(r)) /\ WF_vars(Busy(r)) /\ WF_vars(RemoveId(r))
    /\ WF_vars(Wake(r)) /\ WF_vars(Expire(r))

Spec == Init /\ [][Next]_vars
FairSpec == Spec /\ Fairness

-----------------------------------------------------------------------------
TypeOK ==
  /\ held \subseteq Ids
  /\ mutex \in Seq(Reqs)
  /\ pc \in [Reqs -> PCs]
  /\ target \in [Reqs -> Ids \union {NoId}]
  /\ late \in [Reqs -> BOOLEAN]
  /\ \A r \in Reqs : pc[r] = "idle" <=> target[r] = NoId

Owns(r) == pc[r] \in {"holding", "releasing", "cancelled", "dropping"}

(* lock.rs:10, "one exclusive lock per upload ID": no two requests own the *)
(* lock of one ID, from the insert to the removal of its entry.            *)
Exclusive ==
  \A r, q \in Reqs : Owns(r) /\ Owns(q) /\ target[r] = target[q] => r = q

(* Every owner's ID is in the set, so that nobody's insert can succeed     *)
(* while it runs; with Exclusive this is the inductive invariant.          *)
OwnersRecorded == \A r \in Reqs : Owns(r) => target[r] \in held

(* An ID left marked although no request owns its lock. *)
Orphan(id) == id \in held /\ \A r \in Reqs : Owns(r) => target[r] # id

(* locker.rs:92, of a Drop whose try_lock failed: "the lock will remain    *)
(* held until the Mutex is next acquired".                                 *)
FreedByNextAcquire ==
  [][\A id \in Ids, r \in Reqs :
       Orphan(id) /\ ~HasMutex(r) /\ HasMutex(r)' => id \notin held']_vars

(* What the Drop above risks, and no more: an ID is left behind only by a  *)
(* lock that is dropped while another request has or awaits the mutex, and *)
(* by no cancelled acquire or release().                                   *)
LeaksOnlyAtBusyMutex ==
  [][\A id \in Ids :
       Orphan(id)' /\ ~Orphan(id) =>
         \E r \in Reqs :
           /\ pc[r] \in {"holding", "cancelled"} /\ target[r] = id
           /\ \E q \in ToSet(mutex) : q # r]_vars

(* acquire() answers, with a lock or LockTimeout, even if the ID is never  *)
(* released (lock.rs:18, "Should block (respecting a timeout)").           *)
AcquireReturns == \A r \in Reqs : pc[r] \in Waiting ~> pc[r] \notin Waiting

(* release() gets its turn at the mutex, however many waiters come back to *)
(* it every 10 ms: an ID that is given back this way is free at last.      *)
ReleaseReturns == \A r \in Reqs : pc[r] = "releasing" ~> pc[r] # "releasing"

=============================================================================
