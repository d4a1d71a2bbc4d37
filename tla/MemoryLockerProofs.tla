------------------------- MODULE MemoryLockerProofs -------------------------
(***************************************************************************)
(* Proofs about MemoryLocker, for any requests and IDs: its types, that    *)
(* locks are exclusive, and when an ID may be left marked.                 *)
(***************************************************************************)
EXTENDS MemoryLocker, ListTheorems

(* Spec keeps every variable within its type: in particular only IDs are   *)
(* ever marked held, and only requests wait for the mutex.                 *)
THEOREM Typing == Spec => []TypeOK
<1>1. Init => TypeOK
  BY NoIdAssumption, EmptySeq DEF Init, TypeOK, PCs, Waiting
<1>2. TypeOK /\ [Next]_vars => TypeOK'
  <2> SUFFICES ASSUME TypeOK, [Next]_vars PROVE TypeOK'
    OBVIOUS
  <2> USE NoIdAssumption DEF TypeOK, PCs, Waiting, Goto, Finish, HasMutex
  <2>0. mutex # <<>> => Tail(mutex) \in Seq(Reqs)
    BY HeadTailProperties
  <2>1. ASSUME NEW r \in Reqs, NEW id \in Ids, Acquire(r, id) PROVE TypeOK'
    BY <2>1 DEF Acquire
  <2>2. ASSUME NEW r \in Reqs, Insert(r) PROVE TypeOK'
    BY <2>0, <2>2 DEF Insert
  <2>3. ASSUME NEW r \in Reqs, Busy(r) PROVE TypeOK'
    BY <2>0, <2>3 DEF Busy
  <2>4. ASSUME NEW r \in Reqs, Wake(r) PROVE TypeOK'
    BY <2>4 DEF Wake
  <2>5. ASSUME NEW r \in Reqs, Expire(r) PROVE TypeOK'
    BY <2>5 DEF Expire
  <2>6. ASSUME NEW r \in Reqs, CancelAcquire(r) PROVE TypeOK'
    BY <2>6, WithoutType DEF CancelAcquire
  <2>7. ASSUME NEW r \in Reqs, Drop(r) PROVE TypeOK'
    BY <2>7 DEF Drop
  <2>8. ASSUME NEW r \in Reqs, DropFails(r) PROVE TypeOK'
    BY <2>8 DEF DropFails
  <2>9. ASSUME NEW r \in Reqs, Release(r) PROVE TypeOK'
    BY <2>9 DEF Release
  <2>10. ASSUME NEW r \in Reqs, CancelRelease(r) PROVE TypeOK'
    BY <2>10, WithoutType DEF CancelRelease
  <2>11. ASSUME NEW r \in Reqs, RemoveId(r) PROVE TypeOK'
    BY <2>0, <2>11 DEF RemoveId
  <2>12. CASE UNCHANGED vars
    BY <2>12 DEF vars
  <2> QED
    BY <2>1, <2>2, <2>3, <2>4, <2>5, <2>6, <2>7, <2>8, <2>9, <2>10, <2>11, <2>12
       DEF Next
<1> QED
  BY <1>1, <1>2, PTL DEF Spec

-----------------------------------------------------------------------------
(* Exclusive alone is not inductive: that an insert fails while somebody   *)
(* owns the ID needs the owner's ID to be in the set.                      *)
ExclusiveInv == TypeOK /\ Exclusive /\ OwnersRecorded

LEMMA ExclusiveInvInductive == Spec => []ExclusiveInv
<1>1. Init => Exclusive /\ OwnersRecorded
  BY DEF Init, Exclusive, OwnersRecorded, Owns
<1>2. TypeOK /\ TypeOK' /\ Exclusive /\ OwnersRecorded /\ [Next]_vars
        => (Exclusive /\ OwnersRecorded)'
  <2> SUFFICES ASSUME TypeOK, TypeOK', Exclusive, OwnersRecorded, [Next]_vars
               PROVE  Exclusive' /\ OwnersRecorded'
    OBVIOUS
  <2> USE DEF TypeOK, Exclusive, OwnersRecorded, Owns, Goto, Finish
  <2>1. ASSUME NEW r \in Reqs, NEW id \in Ids, Acquire(r, id)
        PROVE  Exclusive' /\ OwnersRecorded'
    BY <2>1 DEF Acquire
  <2>2. ASSUME NEW r \in Reqs, Insert(r) PROVE Exclusive' /\ OwnersRecorded'
    BY <2>2 DEF Insert
  <2>3. ASSUME NEW r \in Reqs, Busy(r) PROVE Exclusive' /\ OwnersRecorded'
    <3>1. held' = held /\ ~Owns(r)' /\ ~Owns(r)
      BY <2>3 DEF Busy
    <3>2. \A q \in Reqs \ {r} : pc'[q] = pc[q] /\ target'[q] = target[q]
      BY <2>3 DEF Busy
    <3> QED
      BY <3>1, <3>2
  <2>4. ASSUME NEW r \in Reqs, Wake(r) PROVE Exclusive' /\ OwnersRecorded'
    BY <2>4 DEF Wake
  <2>5. ASSUME NEW r \in Reqs, Expire(r) PROVE Exclusive' /\ OwnersRecorded'
    BY <2>5 DEF Expire
  <2>6. ASSUME NEW r \in Reqs, CancelAcquire(r)
        PROVE  Exclusive' /\ OwnersRecorded'
    BY <2>6 DEF CancelAcquire, Waiting
  <2>7. ASSUME NEW r \in Reqs, Drop(r) PROVE Exclusive' /\ OwnersRecorded'
    BY <2>7 DEF Drop
  <2>8. ASSUME NEW r \in Reqs, DropFails(r) PROVE Exclusive' /\ OwnersRecorded'
    BY <2>8 DEF DropFails
  <2>9. ASSUME NEW r \in Reqs, Release(r) PROVE Exclusive' /\ OwnersRecorded'
    BY <2>9 DEF Release
  <2>10. ASSUME NEW r \in Reqs, CancelRelease(r)
         PROVE  Exclusive' /\ OwnersRecorded'
    BY <2>10 DEF CancelRelease
  <2>11. ASSUME NEW r \in Reqs, RemoveId(r) PROVE Exclusive' /\ OwnersRecorded'
    <3>1. Exclusive'
      BY <2>11 DEF RemoveId
    <3>2. OwnersRecorded'
      BY <2>11 DEF RemoveId
    <3> QED
      BY <3>1, <3>2
  <2>12. CASE UNCHANGED vars
    BY <2>12 DEF vars
  <2> QED
    BY <2>1, <2>2, <2>3, <2>4, <2>5, <2>6, <2>7, <2>8, <2>9, <2>10, <2>11, <2>12
       DEF Next
<1> QED
  BY <1>1, <1>2, Typing, PTL DEF Spec, ExclusiveInv

(* lock.rs:10: MemoryLocker never lets two requests own one ID's lock,     *)
(* cancelled acquires and releases and failed drops included.              *)
THEOREM MutualExclusion == Spec => []Exclusive
BY ExclusiveInvInductive, PTL DEF ExclusiveInv

-----------------------------------------------------------------------------
(* Whoever is in the queue of the mutex has a lock() under way, or has the *)
(* guard, and has one place.  An owner that is not giving its lock back    *)
(* has none, so that what a failing Drop met there was somebody else.      *)
QueuedOnce ==
  /\ IsInjective(mutex)
  /\ \A q \in ToSet(mutex) : pc[q] \in {"locking", "releasing", "dropping"}

LEMMA HeadLeaves ==
  ASSUME TypeOK, QueuedOnce, NEW r \in Reqs, HasMutex(r)
  PROVE  IsInjective(Tail(mutex)) /\ ToSet(Tail(mutex)) = ToSet(mutex) \ {r}
<1>1. /\ mutex \in Seq(Reqs) /\ mutex # <<>> /\ mutex[1] = r
      /\ Len(mutex) \in Nat /\ Len(mutex) >= 1 /\ DOMAIN mutex = 1..Len(mutex)
  BY HeadTailProperties, LenProperties, EmptySeq DEF TypeOK, HasMutex
<1>2. /\ Len(Tail(mutex)) = Len(mutex) - 1 /\ DOMAIN Tail(mutex) = 1..(Len(mutex) - 1)
      /\ \A i \in 1..(Len(mutex) - 1) : Tail(mutex)[i] = mutex[i + 1]
  BY <1>1, HeadTailProperties, LenProperties
<1>3. \A i, j \in 1..Len(mutex) : mutex[i] = mutex[j] => i = j
  BY <1>1 DEF QueuedOnce, IsInjective
<1>4. IsInjective(Tail(mutex))
  BY <1>1, <1>2, <1>3 DEF IsInjective
<1>5. \A i \in 2..Len(mutex) : mutex[i] # r /\ mutex[i] = Tail(mutex)[i - 1]
  BY <1>1, <1>2, <1>3
<1>6. \A q : q \in ToSet(Tail(mutex)) => q \in ToSet(mutex) \ {r}
  BY <1>1, <1>2, <1>5 DEF ToSet
<1>7. \A q : q \in ToSet(mutex) \ {r} => q \in ToSet(Tail(mutex))
  <2> SUFFICES ASSUME NEW i \in 1..Len(mutex), mutex[i] # r PROVE mutex[i] \in ToSet(Tail(mutex))
    BY <1>1 DEF ToSet
  <2>1. i - 1 \in DOMAIN Tail(mutex) /\ mutex[i] = Tail(mutex)[i - 1]
    BY <1>1, <1>2, <1>5
  <2> QED
    BY <2>1 DEF ToSet
<1> QED
  BY <1>4, <1>6, <1>7

LEMMA QueueInductive == Spec => []QueuedOnce
<1>1. Init => QueuedOnce
  BY EmptySeq DEF Init, QueuedOnce, IsInjective, ToSet
<1>2. TypeOK /\ QueuedOnce /\ [Next]_vars => QueuedOnce'
  <2> SUFFICES ASSUME TypeOK, QueuedOnce, [Next]_vars PROVE QueuedOnce'
    OBVIOUS
  <2>0. mutex \in Seq(Reqs) /\ pc \in [Reqs -> PCs] /\ ToSet(mutex) \subseteq Reqs
    BY LenProperties, ElementOfSeq DEF TypeOK, ToSet
  <2>1. ASSUME NEW r \in Reqs,
               \/ \E id \in Ids : Acquire(r, id)
               \/ Wake(r) \/ Release(r)
        PROVE  QueuedOnce'
    <3>1. /\ pc[r] \in {"idle", "sleeping", "holding"} /\ mutex' = Append(mutex, r)
          /\ pc'[r] \in {"locking", "releasing"} /\ \A q \in Reqs \ {r} : pc'[q] = pc[q]
      BY <2>0, <2>1 DEF Acquire, Wake, Release, Goto
    <3>2. r \notin ToSet(mutex)
      BY <3>1 DEF QueuedOnce
    <3>3. IsInjective(mutex') /\ ToSet(mutex') = ToSet(mutex) \union {r}
      BY <2>0, <3>1, <3>2, AppendOnce DEF QueuedOnce
    <3> QED
      BY <2>0, <3>1, <3>3 DEF QueuedOnce
  <2>2. ASSUME NEW r \in Reqs, Insert(r) \/ Busy(r) \/ RemoveId(r) PROVE QueuedOnce'
    <3>1. HasMutex(r) /\ mutex' = Tail(mutex) /\ \A q \in Reqs \ {r} : pc'[q] = pc[q]
      BY <2>0, <2>2 DEF Insert, Busy, RemoveId, Finish, Goto
    <3> QED
      BY <2>0, <3>1, HeadLeaves DEF QueuedOnce
  <2>3. ASSUME NEW r \in Reqs, CancelAcquire(r) \/ CancelRelease(r) PROVE QueuedOnce'
    <3>1. mutex' = Without(mutex, r) /\ \A q \in Reqs \ {r} : pc'[q] = pc[q]
      BY <2>0, <2>3 DEF CancelAcquire, CancelRelease, Finish, Goto
    <3>2. IsInjective(mutex') /\ ToSet(mutex') = ToSet(mutex) \ {r}
      BY <2>0, <3>1, WithoutFacts DEF QueuedOnce
    <3> QED
      BY <2>0, <3>1, <3>2 DEF QueuedOnce
  <2>4. ASSUME NEW r \in Reqs, Drop(r) PROVE QueuedOnce'
    <3>1. mutex' = <<r>> /\ pc'[r] = "dropping"
      BY <2>0, <2>4 DEF Drop, Goto
    <3> QED
      BY <3>1 DEF QueuedOnce, IsInjective, ToSet
  <2>5. ASSUME NEW r \in Reqs, DropFails(r) PROVE QueuedOnce'
    <3>1. /\ pc[r] \in {"holding", "cancelled"} /\ mutex' = mutex
          /\ \A q \in Reqs \ {r} : pc'[q] = pc[q]
      BY <2>0, <2>5 DEF DropFails, Finish, Goto
    <3>2. r \notin ToSet(mutex)
      BY <3>1 DEF QueuedOnce
    <3> QED
      BY <2>0, <3>1, <3>2 DEF QueuedOnce
  <2>6. ASSUME NEW r \in Reqs, Expire(r) PROVE QueuedOnce'
    BY <2>6 DEF Expire, QueuedOnce
  <2>7. CASE UNCHANGED vars
    BY <2>7 DEF vars, QueuedOnce
  <2> QED
    BY <2>1, <2>2, <2>3, <2>4, <2>5, <2>6, <2>7 DEF Next
<1> QED
  BY <1>1, <1>2, Typing, PTL DEF Spec

(* An ID is left marked without an owner only by a lock that is dropped    *)
(* while another request has or awaits the mutex (locker.rs:89); whatever  *)
(* is cancelled, release() and a Drop that meets nobody free it.           *)
THEOREM LeaksAreFailedDrops == Spec => LeaksOnlyAtBusyMutex
<1> DEFINE Kept ==
      \A id \in Ids :
        Orphan(id)' /\ ~Orphan(id) =>
          \E r \in Reqs :
            /\ pc[r] \in {"holding", "cancelled"} /\ target[r] = id
            /\ \E q \in ToSet(mutex) : q # r
<1>1. TypeOK /\ QueuedOnce /\ [Next]_vars => [Kept]_vars
  <2> SUFFICES ASSUME TypeOK, QueuedOnce, Next, NEW id \in Ids, Orphan(id)', ~Orphan(id)
               PROVE  \E r \in Reqs :
                        /\ pc[r] \in {"holding", "cancelled"} /\ target[r] = id
                        /\ \E q \in ToSet(mutex) : q # r
    OBVIOUS
  <2> USE DEF TypeOK, Goto, Finish, Orphan, Owns
  <2>1. ASSUME NEW r \in Reqs,
               \/ \E i \in Ids : Acquire(r, i)
               \/ Wake(r) \/ Expire(r) \/ Drop(r) \/ Release(r) \/ CancelRelease(r)
        PROVE  FALSE
    <3>1. held' = held /\ \A q \in Reqs : Owns(q) => Owns(q)' /\ target'[q] = target[q]
      BY <2>1 DEF Acquire, Wake, Expire, Drop, Release, CancelRelease, Waiting
    <3> QED
      BY <3>1
  <2>2. ASSUME NEW r \in Reqs, Busy(r) \/ CancelAcquire(r) PROVE FALSE
    <3>1. held' = held /\ \A q \in Reqs : Owns(q) => Owns(q)' /\ target'[q] = target[q]
      BY <2>2 DEF Busy, CancelAcquire, Waiting
    <3> QED
      BY <3>1
  <2>3. ASSUME NEW r \in Reqs, Insert(r) PROVE FALSE
    <3>1. /\ held' = held \union {target[r]} /\ Owns(r)' /\ target'[r] = target[r]
          /\ \A q \in Reqs : Owns(q) => Owns(q)' /\ target'[q] = target[q]
      BY <2>3 DEF Insert
    <3> QED
      BY <3>1
  <2>4. ASSUME NEW r \in Reqs, RemoveId(r) PROVE FALSE
    <3>1. /\ held' = held \ {target[r]}
          /\ \A q \in Reqs \ {r} : Owns(q) => Owns(q)' /\ target'[q] = target[q]
      BY <2>4 DEF RemoveId
    <3> QED
      BY <3>1
  <2>5. ASSUME NEW r \in Reqs, DropFails(r)
        PROVE  /\ pc[r] \in {"holding", "cancelled"} /\ target[r] = id
               /\ \E q \in ToSet(mutex) : q # r
    <3>1. /\ held' = held /\ pc[r] \in {"holding", "cancelled"} /\ mutex # <<>>
          /\ \A q \in Reqs \ {r} : Owns(q) => Owns(q)' /\ target'[q] = target[q]
      BY <2>5 DEF DropFails
    <3>2. target[r] = id
      BY <3>1
    <3>3. mutex[1] \in ToSet(mutex)
      BY <3>1, LenProperties, EmptySeq DEF ToSet
    <3>4. r \notin ToSet(mutex)
      BY <3>1 DEF QueuedOnce
    <3> QED
      BY <3>1, <3>2, <3>3, <3>4
  <2> QED
    BY <2>1, <2>2, <2>3, <2>4, <2>5 DEF Next
<1> QED
  BY <1>1, Typing, QueueInductive, PTL DEF Spec, LeaksOnlyAtBusyMutex
=============================================================================
