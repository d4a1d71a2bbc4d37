---------------------------- MODULE ProcessLocker ----------------------------
(***************************************************************************)
(* fileloft-server/src/main.rs, ProcessLocker: a map from upload ID to a   *)
(* tokio Mutex of its own, created on first use and never removed.         *)
(* acquire() clones the mutex out of the map and awaits it; the handler's  *)
(* lock_timeout, or its cancellation, drops that wait.                     *)
(***************************************************************************)
EXTENDS Fifo

CONSTANTS
  Reqs,      (* requests                                          *)
  Ids,       (* upload IDs                                        *)
  Mutexes,   (* the Arc<Mutex<()>> values that can be allocated   *)
  NoId, NoMutex

ASSUME ProcessAssumption == NoId \notin Ids /\ NoMutex \notin Mutexes

VARIABLES
  locks,    (* ProcessLocker.locks: the mutex of each ID, or NoMutex    *)
  queue,    (* queue[m]: the FIFO of mutex m; its head has the guard    *)
  mine,     (* mine[r]: the Arc that acquire cloned for r, or NoMutex   *)
  pc,       (* where each request is                                    *)
  target    (* the ID it locks                                          *)

vars == <<locks, queue, mine, pc, target>>

PCs == {"idle", "looking", "cloned", "queued", "holding"}

Init ==
  /\ locks = [id \in Ids |-> NoMutex]
  /\ queue = [m \in Mutexes |-> <<>>]
  /\ mine = [r \in Reqs |-> NoMutex]
  /\ pc = [r \in Reqs |-> "idle"]
  /\ target = [r \in Reqs |-> NoId]

Goto(r, l) == pc' = [pc EXCEPT ![r] = l]

(* Mutated form: the request keeps its clone of the mutex. *)
FinishKeepsMutex(r) ==
  /\ Goto(r, "idle")
  /\ target' = [target EXCEPT ![r] = NoId]
  /\ UNCHANGED mine

Finish(r) ==
  /\ Goto(r, "idle")
  /\ target' = [target EXCEPT ![r] = NoId]
  /\ mine' = [mine EXCEPT ![r] = NoMutex]

(* acquire is called, and awaits the lock of the map. *)
Acquire(r, id) ==
  /\ pc[r] = "idle"
  /\ Goto(r, "looking")
  /\ target' = [target EXCEPT ![r] = id]
  /\ UNCHANGED <<locks, queue, mine>>

Allocated(m) == (\E id \in Ids : locks[id] = m) \/ \E r \in Reqs : mine[r] = m

(* Mutated form: insert in place of or_insert_with. *)
LookupReplaces(r) ==
  /\ pc[r] = "looking"
  /\ \E m \in Mutexes :
       /\ ~Allocated(m)
       /\ locks' = [locks EXCEPT ![target[r]] = m]
       /\ mine' = [mine EXCEPT ![r] = m]
  /\ Goto(r, "cloned")
  /\ UNCHANGED <<queue, target>>

(* entry(id).or_insert_with(...).clone() under the lock of the map. *)
Lookup(r) ==
  /\ pc[r] = "looking"
  /\ \E m \in Mutexes :
       /\ IF locks[target[r]] = NoMutex THEN ~Allocated(m) ELSE locks[target[r]] = m
       /\ locks' = [locks EXCEPT ![target[r]] = m]
       /\ mine' = [mine EXCEPT ![r] = m]
  /\ Goto(r, "cloned")
  /\ UNCHANGED <<queue, target>>

(* The first poll of lock_owned(): the request is queued, or granted. *)
Enqueue(r) ==
  /\ pc[r] = "cloned"
  /\ queue' = [queue EXCEPT ![mine[r]] = Append(@, r)]
  /\ Goto(r, "queued")
  /\ UNCHANGED <<locks, mine, target>>

(* Mutated form: any waiter may get the mutex when its holder is gone. *)
GrantAny(r) ==
  /\ pc[r] = "queued"
  /\ \A q \in ToSet(queue[mine[r]]) : pc[q] # "holding"
  /\ Goto(r, "holding")
  /\ UNCHANGED <<locks, queue, mine, target>>

(* The guard is handed to the first in the queue; acquire returns. *)
Grant(r) ==
  /\ pc[r] = "queued" /\ queue[mine[r]] # <<>> /\ Head(queue[mine[r]]) = r
  /\ Goto(r, "holding")
  /\ UNCHANGED <<locks, queue, mine, target>>

Leave(r) ==
  /\ queue' = [queue EXCEPT ![mine[r]] = Without(@, r)]
  /\ Finish(r)
  /\ UNCHANGED locks

(* Mutated form: the place in the queue is not given up. *)
CancelStaysQueued(r) ==
  /\ pc[r] \in {"looking", "cloned", "queued"}
  /\ Finish(r)
  /\ UNCHANGED <<locks, queue>>

(* The acquire future is dropped, by the handler's timeout or with it. *)
Cancel(r) ==
  \/ pc[r] \in {"looking", "cloned"} /\ Finish(r) /\ UNCHANGED <<locks, queue>>
  \/ pc[r] = "queued" /\ Leave(r)

(* ProcessLock goes out of scope; release() has nothing else to do. *)
Drop(r) == pc[r] = "holding" /\ Leave(r)

Next ==
  \E r \in Reqs :
    \/ \E id \in Ids : Acquire(r, id)
    \/ Lookup(r) \/ Enqueue(r) \/ Grant(r) \/ Cancel(r) \/ Drop(r)

(* Tasks are polled.  Holders let go when their request ends; that it does *)
(* end is assumed only for FairSpec, by WF of Drop.                        *)
Fairness ==
  \A r \in Reqs :
    WF_vars(Lookup(r)) /\ WF_vars(Enqueue(r)) /\ WF_vars(Grant(r)) /\ WF_vars(Drop(r))

Spec == Init /\ [][Next]_vars
FairSpec == Spec /\ Fairness

-----------------------------------------------------------------------------
TypeOK ==
  /\ locks \in [Ids -> Mutexes \union {NoMutex}]
  /\ queue \in [Mutexes -> Seq(Reqs)]
  /\ mine \in [Reqs -> Mutexes \union {NoMutex}]
  /\ pc \in [Reqs -> PCs]
  /\ target \in [Reqs -> Ids \union {NoId}]
  /\ \A r \in Reqs :
       /\ pc[r] = "idle" <=> target[r] = NoId
       /\ pc[r] \in {"idle", "looking"} <=> mine[r] = NoMutex

(* lock.rs:10, "one exclusive lock per upload ID".                         *)
Exclusive ==
  \A r, q \in Reqs :
    pc[r] = "holding" /\ pc[q] = "holding" /\ target[r] = target[q] => r = q

(* What exclusion rests on: every request for an ID has the one mutex the  *)
(* map holds for it, and no two IDs share a mutex (no false contention, no *)
(* deadlock between uploads).                                              *)
OneMutexPerId ==
  /\ \A r \in Reqs : mine[r] # NoMutex => mine[r] = locks[target[r]]
  /\ \A a, b \in Ids : locks[a] # NoMutex /\ locks[a] = locks[b] => a = b

(* Locks of an ID are granted in the order in which they were asked for    *)
(* (Mutex is fair), so a PATCH that waits is not overtaken for ever.       *)
NoOvertaking ==
  [][\A r, q \in Reqs :
       pc[r] = "queued" /\ pc[q] = "queued" /\ mine[r] = mine[q] /\ mine[r] # NoMutex
         /\ (\E i, j \in DOMAIN queue[mine[r]] :
               i < j /\ queue[mine[r]][i] = r /\ queue[mine[r]][j] = q)
       => pc'[q] # "holding"]_vars

(* Whoever asks for a lock gets it, or gives up, if every holder lets go.  *)
Served == \A r \in Reqs : pc[r] = "looking" ~> pc[r] \in {"holding", "idle"}

=============================================================================
