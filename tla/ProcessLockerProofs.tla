------------------------ MODULE ProcessLockerProofs ------------------------
(***************************************************************************)
(* Proofs about ProcessLocker, for any requests, IDs and mutexes: locks    *)
(* are exclusive, and nobody is overtaken in the wait for one.             *)
(***************************************************************************)
EXTENDS ProcessLocker, ListTheorems

(* The holder of a mutex is at the head of its queue.  With the one mutex  *)
(* per ID of OneMutexPerId this is why two holders are the same.           *)
HoldersAtHead ==
  \A r \in Reqs : pc[r] = "holding" =>
    queue[mine[r]] # <<>> /\ Head(queue[mine[r]]) = r

Inv == TypeOK /\ OneMutexPerId /\ HoldersAtHead

(* The steps of one request. *)
Step(r) ==
  \/ \E id \in Ids : Acquire(r, id)
  \/ Lookup(r) \/ Enqueue(r) \/ Grant(r) \/ Cancel(r) \/ Drop(r)

LEMMA TypeStep ==
  ASSUME TypeOK, NEW r \in Reqs, Step(r)
  PROVE  TypeOK'
<1> USE ProcessAssumption DEF TypeOK, PCs, Goto, Finish
<1>1. ASSUME NEW id \in Ids, Acquire(r, id) PROVE TypeOK'
  BY <1>1 DEF Acquire
<1>2. CASE Lookup(r)
  BY <1>2 DEF Lookup
<1>3. CASE Enqueue(r)
  BY <1>3 DEF Enqueue
<1>4. CASE Grant(r)
  BY <1>4 DEF Grant
<1>5. ASSUME Finish(r), UNCHANGED locks, queue' \in [Mutexes -> Seq(Reqs)]
      PROVE  TypeOK'
  BY <1>5
<1>6. pc[r] \in {"queued", "holding"} =>
        [queue EXCEPT ![mine[r]] = Without(@, r)] \in [Mutexes -> Seq(Reqs)]
  BY WithoutType
<1>7. CASE Cancel(r)
  BY <1>5, <1>6, <1>7 DEF Cancel, Leave
<1>8. CASE Drop(r)
  BY <1>5, <1>6, <1>8 DEF Drop, Leave
<1> QED
  BY <1>1, <1>2, <1>3, <1>4, <1>7, <1>8 DEF Step

(* Spec keeps every variable within its type. *)
THEOREM Typing == Spec => []TypeOK
<1>1. Init => TypeOK
  BY ProcessAssumption, EmptySeq DEF Init, TypeOK, PCs
<1>2. TypeOK /\ [Next]_vars => TypeOK'
  <2>1. TypeOK /\ UNCHANGED vars => TypeOK'
    BY DEF TypeOK, vars
  <2> QED
    BY <2>1, TypeStep DEF Next, Step
<1> QED
  BY <1>1, <1>2, PTL DEF Spec

LEMMA MutexStep ==
  ASSUME TypeOK, OneMutexPerId, NEW r \in Reqs, Step(r)
  PROVE  OneMutexPerId'
<1> USE ProcessAssumption DEF TypeOK, OneMutexPerId, PCs, Goto, Finish
<1>1. ASSUME NEW id \in Ids, Acquire(r, id) PROVE OneMutexPerId'
  BY <1>1 DEF Acquire
<1>2. CASE Lookup(r)
  <2>1. PICK m \in Mutexes :
          /\ IF locks[target[r]] = NoMutex THEN ~Allocated(m) ELSE locks[target[r]] = m
          /\ locks' = [locks EXCEPT ![target[r]] = m]
          /\ mine' = [mine EXCEPT ![r] = m]
    BY <1>2 DEF Lookup
  <2>2. target' = target
    BY <1>2 DEF Lookup
  <2>3. target[r] \in Ids /\ \A q \in Reqs : mine[q] # NoMutex => target[q] \in Ids
    BY <1>2 DEF Lookup
  <2>4. CASE locks[target[r]] = NoMutex
    <3>1. \A id \in Ids : locks[id] # m
      BY <2>1, <2>4 DEF Allocated
    <3>2. \A q \in Reqs : mine[q] # NoMutex => target[q] # target[r]
      BY <2>3, <2>4
    <3> QED
      BY <2>1, <2>2, <2>3, <3>1, <3>2
  <2>5. CASE locks[target[r]] # NoMutex
    BY <2>1, <2>2, <2>3, <2>5
  <2> QED
    BY <2>4, <2>5
<1>3. CASE Enqueue(r) \/ Grant(r)
  BY <1>3 DEF Enqueue, Grant
<1>4. CASE Cancel(r) \/ Drop(r)
  BY <1>4 DEF Cancel, Drop, Leave
<1> QED
  BY <1>1, <1>2, <1>3, <1>4 DEF Step

LEMMA HeadStep ==
  ASSUME TypeOK, TypeOK', HoldersAtHead, NEW r \in Reqs, Step(r)
  PROVE  HoldersAtHead'
<1> USE ProcessAssumption DEF TypeOK, HoldersAtHead, PCs, Goto, Finish
<1>1. ASSUME NEW id \in Ids, Acquire(r, id) PROVE HoldersAtHead'
  BY <1>1 DEF Acquire
<1>2. CASE Lookup(r)
  BY <1>2 DEF Lookup
<1>3. CASE Enqueue(r)
  <2>1. \A q \in Reqs : pc[q] = "holding" <=> pc'[q] = "holding"
    BY <1>3 DEF Enqueue
  <2>2. \A m \in Mutexes : queue[m] # <<>> =>
          queue'[m] # <<>> /\ Head(queue'[m]) = Head(queue[m])
    BY <1>3, AppendProperties, HeadTailProperties DEF Enqueue
  <2>3. mine' = mine
    BY <1>3 DEF Enqueue
  <2> QED
    BY <2>1, <2>2, <2>3
<1>4. CASE Grant(r)
  BY <1>4 DEF Grant
<1>5. ASSUME pc[r] \in {"queued", "holding"}, Leave(r) PROVE HoldersAtHead'
  <2> SUFFICES ASSUME NEW q \in Reqs, q # r, pc[q] = "holding"
               PROVE  queue'[mine[q]] # <<>> /\ Head(queue'[mine[q]]) = q
    BY <1>5 DEF Leave
  <2>1. queue[mine[q]] # <<>> /\ Head(queue[mine[q]]) = q /\ mine[q] \in Mutexes
    OBVIOUS
  <2>2. queue'[mine[q]] \in {queue[mine[q]], Without(queue[mine[q]], r)}
    BY <1>5, <2>1 DEF Leave
  <2> QED
    BY <2>1, <2>2, WithoutHead
<1>6. CASE Cancel(r)
  BY <1>5, <1>6 DEF Cancel
<1>7. CASE Drop(r)
  BY <1>5, <1>7 DEF Drop
<1> QED
  BY <1>1, <1>2, <1>3, <1>4, <1>6, <1>7 DEF Step

LEMMA InvInductive == Spec => []Inv
<1>1. Init => OneMutexPerId /\ HoldersAtHead
  BY DEF Init, OneMutexPerId, HoldersAtHead
<1>2. TypeOK /\ TypeOK' /\ OneMutexPerId /\ HoldersAtHead /\ [Next]_vars
        => OneMutexPerId' /\ HoldersAtHead'
  <2>1. OneMutexPerId /\ HoldersAtHead /\ UNCHANGED vars
          => OneMutexPerId' /\ HoldersAtHead'
    BY DEF OneMutexPerId, HoldersAtHead, vars
  <2> QED
    BY <2>1, MutexStep, HeadStep DEF Next, Step
<1> QED
  BY <1>1, <1>2, Typing, PTL DEF Spec, Inv

(* lock.rs:10: ProcessLocker never lets two requests hold the lock of one  *)
(* ID, although each ID's mutex is made on demand and waiters give up.     *)
THEOREM MutualExclusion == Spec => []Exclusive
<1>1. Inv => Exclusive
  BY ProcessAssumption DEF Inv, TypeOK, OneMutexPerId, HoldersAtHead, Exclusive
<1> QED
  BY <1>1, InvInductive, PTL

(* Every ID has one mutex for good, and no two IDs share one: requests for *)
(* different uploads never wait for each other.                            *)
THEOREM MutexOfAnId == Spec => []OneMutexPerId
BY InvInductive, PTL DEF Inv

-----------------------------------------------------------------------------
(* Who is in the queue of a mutex has a clone of that mutex, waits for it  *)
(* or holds it, and is there once.                                         *)
QueuedOnce ==
  \A m \in Mutexes :
    /\ IsInjective(queue[m])
    /\ \A q \in ToSet(queue[m]) : mine[q] = m /\ pc[q] \in {"queued", "holding"}

LEMMA QueueLeft ==
  ASSUME TypeOK, QueuedOnce, NEW r \in Reqs, pc[r] \in {"queued", "holding"}, Leave(r)
  PROVE  QueuedOnce'
<1> SUFFICES ASSUME NEW m \in Mutexes
             PROVE  /\ IsInjective(queue'[m])
                    /\ \A q \in ToSet(queue'[m]) :
                         mine'[q] = m /\ pc'[q] \in {"queued", "holding"}
  BY DEF QueuedOnce
<1>1. mine[r] \in Mutexes /\ queue[m] \in Seq(Reqs)
  BY DEF TypeOK
<1>2. IsInjective(queue'[m]) /\ ToSet(queue'[m]) = ToSet(queue[m]) \ {r}
  <2>1. CASE m = mine[r]
    <3>1. queue'[m] = Without(queue[m], r)
      BY <1>1, <2>1 DEF Leave, TypeOK
    <3> QED
      BY <1>1, <3>1, WithoutFacts DEF QueuedOnce
  <2>2. CASE m # mine[r]
    BY <1>1, <2>2 DEF Leave, TypeOK, QueuedOnce
  <2> QED
    BY <2>1, <2>2
<1>3. \A q \in ToSet(queue[m]) : q \in Reqs
  BY <1>1, ElementOfSeq, LenProperties DEF ToSet
<1>4. \A q \in Reqs \ {r} : mine'[q] = mine[q] /\ pc'[q] = pc[q]
  BY DEF Leave, Finish, Goto, TypeOK
<1> QED
  BY <1>2, <1>3, <1>4 DEF QueuedOnce

LEMMA QueueStep ==
  ASSUME TypeOK, QueuedOnce, NEW r \in Reqs, Step(r)
  PROVE  QueuedOnce'
<1>1. \A m \in Mutexes : queue[m] \in Seq(Reqs) /\ \A q \in ToSet(queue[m]) : q \in Reqs
  BY ElementOfSeq, LenProperties DEF TypeOK, ToSet
<1>2. ASSUME queue' = queue,
             \A q \in Reqs : pc[q] \in {"queued", "holding"} =>
               mine'[q] = mine[q] /\ pc'[q] \in {"queued", "holding"}
      PROVE  QueuedOnce'
  BY <1>1, <1>2 DEF QueuedOnce
<1>3. ASSUME NEW id \in Ids, Acquire(r, id) PROVE QueuedOnce'
  BY <1>2, <1>3 DEF Acquire, Goto, TypeOK
<1>4. CASE Lookup(r)
  BY <1>2, <1>4 DEF Lookup, Goto, TypeOK
<1>5. CASE Enqueue(r)
  <2>1. \A m \in Mutexes : r \notin ToSet(queue[m])
    BY <1>5 DEF Enqueue, QueuedOnce
  <2>2. \A q \in Reqs : mine'[q] = mine[q] /\ pc'[q] = IF q = r THEN "queued" ELSE pc[q]
    BY <1>5 DEF Enqueue, Goto, TypeOK
  <2> SUFFICES ASSUME NEW m \in Mutexes
               PROVE  /\ IsInjective(queue'[m])
                      /\ \A q \in ToSet(queue'[m]) :
                           mine'[q] = m /\ pc'[q] \in {"queued", "holding"}
    BY DEF QueuedOnce
  <2>3. CASE m = mine[r]
    <3>1. queue'[m] = Append(queue[m], r)
      BY <1>5, <2>3 DEF Enqueue, TypeOK
    <3>2. IsInjective(queue'[m]) /\ ToSet(queue'[m]) = ToSet(queue[m]) \union {r}
      BY <1>1, <2>1, <3>1, AppendOnce DEF QueuedOnce
    <3> QED
      BY <1>1, <2>2, <2>3, <3>2 DEF QueuedOnce
  <2>4. CASE m # mine[r]
    <3>1. queue'[m] = queue[m]
      BY <1>5, <2>4 DEF Enqueue, TypeOK
    <3> QED
      BY <1>1, <2>1, <2>2, <3>1 DEF QueuedOnce
  <2> QED
    BY <2>3, <2>4
<1>6. CASE Grant(r)
  BY <1>2, <1>6 DEF Grant, Goto, TypeOK
<1>7. CASE Cancel(r)
  <2>1. CASE pc[r] \in {"looking", "cloned"} /\ Finish(r) /\ UNCHANGED <<locks, queue>>
    BY <1>2, <2>1 DEF Finish, Goto, TypeOK
  <2> QED
    BY <1>7, <2>1, QueueLeft DEF Cancel
<1>8. CASE Drop(r)
  BY <1>8, QueueLeft DEF Drop
<1> QED
  BY <1>3, <1>4, <1>5, <1>6, <1>7, <1>8 DEF Step

LEMMA QueuesInductive == Spec => []QueuedOnce
<1>1. Init => QueuedOnce
  BY DEF Init, QueuedOnce, IsInjective, ToSet
<1>2. TypeOK /\ QueuedOnce /\ [Next]_vars => QueuedOnce'
  <2>1. QueuedOnce /\ UNCHANGED vars => QueuedOnce'
    BY DEF QueuedOnce, vars
  <2> QED
    BY <2>1, QueueStep DEF Next, Step
<1> QED
  BY <1>1, <1>2, Typing, PTL DEF Spec

(* Nobody is handed the mutex of an ID past a request that queued for it   *)
(* before: what the head of a queue is given is its only place in it.      *)
THEOREM FirstComeFirstServed == Spec => NoOvertaking
<1> DEFINE Kept ==
      \A r, q \in Reqs :
        pc[r] = "queued" /\ pc[q] = "queued" /\ mine[r] = mine[q] /\ mine[r] # NoMutex
          /\ (\E i, j \in DOMAIN queue[mine[r]] :
                i < j /\ queue[mine[r]][i] = r /\ queue[mine[r]][j] = q)
        => pc'[q] # "holding"
<1>1. TypeOK /\ QueuedOnce /\ [Next]_vars => [Kept]_vars
  <2> SUFFICES ASSUME TypeOK, QueuedOnce, NEW s \in Reqs, Step(s),
                      NEW r \in Reqs, NEW q \in Reqs,
                      pc[q] = "queued", mine[r] = mine[q], mine[r] # NoMutex,
                      NEW i \in DOMAIN queue[mine[r]], NEW j \in DOMAIN queue[mine[r]],
                      i < j, queue[mine[r]][j] = q, pc'[q] = "holding"
               PROVE  FALSE
    BY DEF Next, Step
  <2>1. s = q /\ Grant(q)
    BY DEF TypeOK, Step, Acquire, Lookup, Enqueue, Grant, Cancel, Drop, Leave, Finish, Goto
  <2>2. mine[q] \in Mutexes /\ queue[mine[q]] \in Seq(Reqs)
    BY DEF TypeOK
  <2>3. /\ queue[mine[q]] # <<>> /\ queue[mine[q]][1] = q
        /\ Len(queue[mine[q]]) \in Nat /\ DOMAIN queue[mine[q]] = 1..Len(queue[mine[q]])
    BY <2>1, <2>2, HeadTailProperties, LenProperties DEF Grant
  <2>4. j = 1
    <3>1. 1 \in DOMAIN queue[mine[q]]
      BY <2>3
    <3> QED
      BY <2>2, <2>3, <3>1 DEF QueuedOnce, IsInjective
  <2> QED
    BY <2>3, <2>4
<1> QED
  BY <1>1, Typing, QueuesInductive, PTL DEF Spec, NoOvertaking

=============================================================================
