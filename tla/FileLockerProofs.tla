-------------------------- MODULE FileLockerProofs --------------------------
(***************************************************************************)
(* Theorems about FileLocker.  Exclusion is not among them: it fails when  *)
(* an unlink takes away the path of the next holder (FileLockerRace.cfg).  *)
(* What does hold is that an flock always has a live holder.               *)
(***************************************************************************)
EXTENDS FileLocker, TLAPS

(* The steps of one request. *)
AnyStep(r) ==
  \/ \E id \in Ids : Acquire(r, id)
  \/ Step(r) \/ GiveUp(r) \/ Release(r) \/ Crash(r)

(* Every step of the locker keeps its types: paths and handles are inodes, *)
(* flocks belong to requests, and a request has a target unless it is idle.*)
LEMMA TypeStep ==
  ASSUME TypeOK, NEW r \in Reqs, AnyStep(r)
  PROVE  TypeOK'
<1> USE FileAssumption DEF TypeOK, PCs, Waiting, Goto, Finish, Close
<1>1. CASE \E id \in Ids : Acquire(r, id)
  BY <1>1 DEF Acquire
<1>2. CASE Open(r)
  BY <1>2 DEF Open
<1>3. CASE TryLock(r)
  BY <1>3 DEF TryLock
<1>4. CASE TryFails(r)
  <2>1. /\ path' \in [Ids -> Inodes \union {NoInode}]
        /\ flock' \in [Inodes -> Reqs \union {NoReq}]
        /\ file' \in [Reqs -> Inodes \union {NoInode}]
    BY <1>4 DEF TryFails
  <2>2. CASE ~late[r]
    BY <1>4, <2>1, <2>2 DEF TryFails
  <2>3. CASE late[r]
    <3>1. pc' \in [Reqs -> PCs] /\ target' \in [Reqs -> Ids \union {NoId}]
      BY <1>4, <2>3 DEF TryFails
    <3>2. late' \in [Reqs -> BOOLEAN] /\ detached' \in [Reqs -> BOOLEAN]
      BY <1>4, <2>3 DEF TryFails
    <3>3. \A q \in Reqs : pc'[q] = "idle" <=> target'[q] = NoId
      BY <1>4, <2>3 DEF TryFails
    <3> QED BY <2>1, <3>1, <3>2, <3>3
  <2> QED BY <2>2, <2>3
<1>5. CASE Wake(r)
  BY <1>5 DEF Wake
<1>6. CASE Expire(r)
  BY <1>6 DEF Expire
<1>7. CASE Unlock(r)
  BY <1>7 DEF Unlock
<1>8. CASE Unlink(r)
  BY <1>8 DEF Unlink
<1>9. CASE GiveUp(r)
  BY <1>9 DEF GiveUp
<1>10. CASE Release(r)
  BY <1>10 DEF Release
<1>11. CASE Crash(r)
  BY <1>11 DEF Crash
<1> QED
  BY <1>1, <1>2, <1>3, <1>4, <1>5, <1>6, <1>7, <1>8, <1>9, <1>10, <1>11 DEF AnyStep, Step

(* The types of the lock files, handles and threads, in every state.       *)
THEOREM Typing == Spec => []TypeOK
<1>1. Init => TypeOK
  BY FileAssumption DEF Init, TypeOK, PCs
<1>2. TypeOK /\ [Next]_vars => TypeOK'
  <2>1. ASSUME TypeOK, UNCHANGED vars PROVE TypeOK'
    BY <2>1 DEF TypeOK, vars
  <2> QED
    BY <2>1, TypeStep DEF Next, AnyStep
<1> QED
  BY <1>1, <1>2, PTL DEF Spec

(* Whoever ends, times out, is dropped or dies closes its file, and the    *)
(* kernel gives up its flock with it; nobody else's flock is touched.      *)
LEMMA HolderStep ==
  ASSUME TypeOK, LocksHaveHolders, NEW r \in Reqs, AnyStep(r)
  PROVE  LocksHaveHolders'
<1> USE FileAssumption DEF TypeOK, LocksHaveHolders, PCs, Waiting, Goto, Finish, Close
<1>1. CASE \E id \in Ids : Acquire(r, id)
  BY <1>1 DEF Acquire
<1>2. CASE Open(r)
  BY <1>2 DEF Open
<1>3. CASE TryLock(r)
  BY <1>3 DEF TryLock
<1>4. CASE TryFails(r)
  <2>1. CASE late[r]
    BY <1>4, <2>1 DEF TryFails
  <2>2. CASE ~late[r]
    BY <1>4, <2>2 DEF TryFails
  <2> QED BY <2>1, <2>2
<1>5. CASE Wake(r)
  BY <1>5 DEF Wake
<1>6. CASE Expire(r)
  BY <1>6 DEF Expire
<1>7. CASE Unlock(r)
  BY <1>7 DEF Unlock
<1>8. CASE Unlink(r)
  BY <1>8 DEF Unlink
<1>9. CASE GiveUp(r)
  BY <1>9 DEF GiveUp
<1>10. CASE Release(r)
  BY <1>10 DEF Release
<1>11. CASE Crash(r)
  BY <1>11 DEF Crash
<1> QED
  BY <1>1, <1>2, <1>3, <1>4, <1>5, <1>6, <1>7, <1>8, <1>9, <1>10, <1>11 DEF AnyStep, Step

(* Only a live holder, through its own handle, keeps others out of a lock  *)
(* file: no leftover file, abandoned thread or dead process does.          *)
THEOREM HoldersOnly == Spec => []LocksHaveHolders
<1>1. Init => LocksHaveHolders
  BY DEF Init, LocksHaveHolders
<1>2. TypeOK /\ LocksHaveHolders /\ [Next]_vars => LocksHaveHolders'
  <2>1. ASSUME LocksHaveHolders, UNCHANGED vars PROVE LocksHaveHolders'
    BY <2>1 DEF LocksHaveHolders, vars
  <2> QED
    BY <2>1, HolderStep DEF Next, AnyStep
<1> QED
  BY <1>1, <1>2, Typing, PTL DEF Spec
=============================================================================
