------------------------- MODULE ObjectStoreProofs -------------------------
(***************************************************************************)
(* Theorems about the objects of an upload in S3, GCS and Azure, for any   *)
(* number of requests, parts, partials and bytes, any limit on the sources *)
(* of one call and any number of failed and lost calls.                    *)
(***************************************************************************)
EXTENDS ObjectStore, ListTheorems

Parts == ToSet(PartNames)
Sources == ToSet(SourceNames)
Blobs == Keys \ {"info"}
Bytes == Seq(Nat \ {0})
Active(r) == pc[r] \notin {"idle", "lock"}

(* The intermediates of a request that has made t of them.                 *)
Made(t) == {TmpNames[i] : i \in 1..t}

-----------------------------------------------------------------------------
(* What a program point says of the locals of a request.                   *)

Jobs ==
  [op : {"none", "post", "patch", "get", "delete"}, at : Nat, n : Nat,
   info : Infos \union {Absent}, key : Keys, value : Infos \union Bytes,
   then : Labels, back : Labels, level : Seq(Blobs), made : Seq(Blobs), tmps : Nat,
   src : Seq(Blobs), dest : Blobs, k : Nat, pos : Nat, buf : Bytes,
   blocks : Seq(Bytes), todo : Seq(Keys)]

PutFits(j) ==
  /\ j.then \in {"concat", "body", "chunk", "save", "reread", "done"}
  /\ j.then \in {"concat", "body"} => j.op = "post"
  /\ j.then \in {"chunk", "save", "reread", "done"} => j.op \in {"post", "patch"}
  /\ j.then = "concat" => j.made = <<>> /\ j.tmps = 0
  /\ j.then = "save" => j.key \in Parts
  /\ j.then = "done" => j.key = "data"
  /\ j.then \in {"save", "done"} => j.info \in Infos /\ j.value \in Bytes
  /\ j.then \notin {"save", "done"} => j.key = "info" /\ j.value \in Infos

(* What is combined: the data objects of the partials, or the parts.       *)
Origin(j) == IF j.back = "total" THEN Sources ELSE Parts
Usable(j, t) == Origin(j) \union Made(t)

(* A list of objects to combine never has the one it is combined into.     *)
Grouped(j) ==
  /\ j.src # <<>>
  /\ j.dest = "data" => j.level = <<>> /\ j.made = <<>> /\ j.src \in Seq(Usable(j, j.tmps))
  /\ j.dest # "data" =>
       /\ j.tmps > 0 /\ j.dest = TmpNames[j.tmps]
       /\ j.made # <<>> /\ j.made[Len(j.made)] = j.dest
       /\ j.src \in Seq(Usable(j, j.tmps - 1)) /\ j.level \in Seq(Usable(j, j.tmps - 1))

CombineFits(l, j) ==
  /\ j.op \in {"post", "patch"} /\ j.back \in {"total", "done"}
  /\ j.back = "total" => j.op = "post"
  /\ j.back = "done" => j.info \in Infos
  /\ j.tmps \in 0..Len(TmpNames) /\ j.made \in Seq(Made(j.tmps))
  /\ j.level \in Seq(Usable(j, j.tmps))
  /\ IF l = "group" THEN Pending(j) # <<>> ELSE Grouped(j)

EraseFits(j) ==
  /\ j.todo # <<>>
  /\ \/ j.op = "delete" /\ j.then \in {"left", "deleted"}
     \/ /\ CombineFits("erase", j) /\ j.todo \in Seq(ToSet(j.src))
        /\ j.then = IF j.dest = "data" THEN j.back ELSE "group"

Fits(l, j) ==
  /\ l = "idle" => j = Blank
  /\ l \in {"concat", "total", "body"} => j.op = "post"
  /\ l = "concat" => j.made = <<>> /\ j.tmps = 0
  /\ l \in {"lock", "load"} => j.op \in {"patch", "get", "delete"}
  /\ l = "declare" => j.op = "patch"
  /\ l = "read" => j.op = "get"
  /\ l \in {"left", "deleted"} => j.op = "delete"
  /\ l \in {"chunk", "list", "save", "reread", "finish", "parts", "done"}
       => j.op \in {"post", "patch"}
  /\ l \in {"list", "save", "finish", "parts", "done", "read"} => j.info \in Infos
  /\ l = "put" => PutFits(j)
  /\ l \in {"group", "fetch", "commit"} => CombineFits(l, j)
  /\ l = "fetch" => j.k \in 1..Len(j.src)
  /\ l = "erase" => EraseFits(j)

ObjsOK ==
  /\ DOMAIN objs = Keys
  /\ objs["info"] \in Infos \union {Absent}
  /\ \A key \in Blobs : objs[key] = Absent \/ objs[key] \in Bytes

(* Who may be at work: the POST is alone with the upload it makes; the     *)
(* others have the lock.                                                   *)
Order ==
  /\ life = "new" => \A r \in Reqs : pc[r] = "idle"
  /\ life = "made" => \A r \in Reqs : job[r].op \in {"post", "none"}
  /\ \A r \in Reqs : job[r].op = "post" =>
       life = "made" /\ \A q \in Reqs : q # r => pc[q] = "idle"
  /\ \A r \in Reqs : Active(r) /\ job[r].op # "post" => owner = r
  /\ \A r \in Reqs : owner = r => Active(r)

Counters ==
  /\ cloud \in Clouds /\ given \subseteq Sources
  /\ owner \in Reqs \union {NoReq}
  /\ life \in {"new", "made", "known", "doomed", "gone"}
  /\ told \in Nat /\ finished \in BOOLEAN /\ faults \in 0..MaxFaults

Placed ==
  /\ pc \in [Reqs -> Labels] /\ job \in [Reqs -> Jobs]
  /\ \A r \in Reqs : Fits(pc[r], job[r])

TypeInv == ObjsOK /\ Counters /\ Placed /\ Order

-----------------------------------------------------------------------------
(* The names of objects.                                                   *)

LEMMA KeyFacts ==
  /\ "info" \in Keys /\ "data" \in Keys /\ "data" \in Blobs /\ Blobs \subseteq Keys
  /\ Keys = Blobs \union {"info"} /\ "info" \notin Blobs
  /\ Parts \subseteq Blobs /\ "data" \notin Parts /\ "info" \notin Parts
  /\ Sources \subseteq Blobs /\ "data" \notin Sources /\ "info" \notin Sources
  /\ Parts \intersect Sources = {}
<1>1. PartNames \in Seq(Names) /\ SourceNames \in Seq(Names) /\ TmpNames \in Seq(Names)
  BY ObjectAssumption
<1>2. \A s \in Seq(Names) : ToSet(s) \subseteq Names
  BY ElementOfSeq, LenProperties DEF ToSet
<1>3. Parts \subseteq Names /\ Sources \subseteq Names
  BY <1>1, <1>2 DEF Parts, Sources
<1>4. Parts \intersect Sources = {}
  BY ObjectAssumption DEF Parts, Sources
<1> QED BY <1>3, <1>4 DEF Keys, Blobs, Names, Parts, Sources

LEMMA PartFacts ==
  /\ PartNames \in Seq(Parts) /\ Len(PartNames) \in Nat /\ DOMAIN PartNames = 1..Len(PartNames)
  /\ \A i \in 1..Len(PartNames) : PartNames[i] \in Parts
  /\ \A i, j \in 1..Len(PartNames) : PartNames[i] = PartNames[j] => i = j
  /\ \A p \in Parts : \E i \in 1..Len(PartNames) : p = PartNames[i]
<1>1. PartNames \in Seq(Names) /\ IsInjective(PartNames)
  BY ObjectAssumption
<1>2. /\ Len(PartNames) \in Nat /\ DOMAIN PartNames = 1..Len(PartNames)
      /\ \A i \in 1..Len(PartNames) : PartNames[i] \in Names
  BY <1>1, LenProperties, ElementOfSeq
<1>3. \A i \in 1..Len(PartNames) : PartNames[i] \in Parts
  BY <1>2 DEF Parts, ToSet
<1>4. \A p \in Parts : \E i \in 1..Len(PartNames) : p = PartNames[i]
  BY <1>2 DEF Parts, ToSet
<1>5. PartNames \in Seq(Parts)
  BY <1>1, <1>2, <1>3, SeqDef
<1> QED BY <1>1, <1>2, <1>3, <1>4, <1>5 DEF IsInjective

LEMMA SourceFacts ==
  /\ SourceNames \in Seq(Sources) /\ SourceNames # <<>>
  /\ Len(SourceNames) \in Nat /\ DOMAIN SourceNames = 1..Len(SourceNames)
  /\ \A i \in 1..Len(SourceNames) : SourceNames[i] \in Sources /\ SourceBytes[i] \in Bytes
  /\ \A s \in Sources : \E i \in 1..Len(SourceNames) : s = SourceNames[i]
<1>1. SourceNames \in Seq(Names) /\ SourceNames # <<>>
  BY ObjectAssumption
<1>2. /\ Len(SourceNames) \in Nat /\ DOMAIN SourceNames = 1..Len(SourceNames)
      /\ \A i \in 1..Len(SourceNames) : SourceNames[i] \in Names
  BY <1>1, LenProperties, ElementOfSeq
<1>3. \A i \in 1..Len(SourceNames) : SourceNames[i] \in Sources
  BY <1>2 DEF Sources, ToSet
<1>4. \A s \in Sources : \E i \in 1..Len(SourceNames) : s = SourceNames[i]
  BY <1>2 DEF Sources, ToSet
<1>5. SourceNames \in Seq(Sources)
  BY <1>1, <1>2, <1>3, SeqDef
<1>6. \A i \in 1..Len(SourceNames) : SourceBytes[i] \in Bytes
  <2>1. SourceBytes \in Seq(Bytes) /\ Len(SourceBytes) = Len(SourceNames)
    BY ObjectAssumption DEF Bytes
  <2> QED BY <2>1, ElementOfSeq
<1> QED BY <1>1, <1>2, <1>3, <1>4, <1>5, <1>6

LEMMA TmpFacts ==
  /\ Len(TmpNames) \in Nat
  /\ \A i \in 1..Len(TmpNames) :
       /\ TmpNames[i] \in Blobs /\ TmpNames[i] \notin Parts /\ TmpNames[i] \notin Sources
       /\ TmpNames[i] # "data"
  /\ \A i, j \in 1..Len(TmpNames) : TmpNames[i] = TmpNames[j] => i = j
<1>1. TmpNames \in Seq(Names) /\ IsInjective(TmpNames)
  BY ObjectAssumption
<1>2. /\ Len(TmpNames) \in Nat /\ DOMAIN TmpNames = 1..Len(TmpNames)
      /\ \A i \in 1..Len(TmpNames) : TmpNames[i] \in Names
  BY <1>1, LenProperties, ElementOfSeq
<1>3. \A i \in 1..Len(TmpNames) : TmpNames[i] \in ToSet(TmpNames)
  BY <1>2 DEF ToSet
<1>4. ToSet(TmpNames) \intersect Parts = {} /\ ToSet(TmpNames) \intersect Sources = {}
  BY ObjectAssumption DEF Parts, Sources
<1> QED BY <1>1, <1>2, <1>3, <1>4 DEF IsInjective, Keys, Blobs, Names

(* What may be combined, and what is made of it.                           *)
LEMMA UsableFacts ==
  ASSUME NEW j, NEW t \in 0..Len(TmpNames)
  PROVE  /\ Made(t) \subseteq Blobs /\ Usable(j, t) \subseteq Blobs
         /\ "data" \notin Usable(j, t)
         /\ t > 0 => /\ t - 1 \in 0..Len(TmpNames)
                     /\ TmpNames[t] \in Made(t) /\ TmpNames[t] \notin Usable(j, t - 1)
                     /\ Made(t - 1) \subseteq Made(t) /\ Usable(j, t - 1) \subseteq Usable(j, t)
<1>1. \A i \in 1..t : i \in 1..Len(TmpNames)
  BY TmpFacts
<1>2. Made(t) \subseteq Blobs /\ "data" \notin Made(t)
  BY <1>1, TmpFacts DEF Made
<1>3. Usable(j, t) \subseteq Blobs /\ "data" \notin Usable(j, t)
  BY <1>2, KeyFacts DEF Usable, Origin
<1>4. ASSUME t > 0
      PROVE  /\ t - 1 \in 0..Len(TmpNames)
             /\ TmpNames[t] \in Made(t) /\ TmpNames[t] \notin Usable(j, t - 1)
             /\ Made(t - 1) \subseteq Made(t) /\ Usable(j, t - 1) \subseteq Usable(j, t)
  <2>1. t - 1 \in 0..Len(TmpNames) /\ t \in 1..t /\ t \in 1..Len(TmpNames)
    BY <1>4, TmpFacts
  <2>2. TmpNames[t] \in Made(t)
    BY <2>1 DEF Made
  <2>3. Made(t - 1) \subseteq Made(t)
    BY <2>1, TmpFacts DEF Made
  <2>4. TmpNames[t] \notin Made(t - 1)
    <3>1. \A i \in 1..(t - 1) : i \in 1..Len(TmpNames) /\ i # t
      BY <1>4, TmpFacts
    <3> QED BY <2>1, <3>1, TmpFacts DEF Made
  <2>5. TmpNames[t] \notin Origin(j)
    BY <2>1, TmpFacts DEF Origin
  <2> QED BY <2>1, <2>2, <2>3, <2>4, <2>5 DEF Usable
<1> QED BY <1>2, <1>3, <1>4

LEMMA AbsentFacts ==
  /\ Absent \notin Bytes /\ Absent \notin Infos /\ Absent # <<>>
  /\ NoLen \notin Nat /\ NoReq \notin Reqs
<1>1. Absent \notin Seq(Nat) /\ Absent \notin Infos /\ NoLen \notin Nat /\ NoReq \notin Reqs
  BY ObjectAssumption
<1>2. <<>> \in Seq(Nat)
  BY EmptySeq
<1>3. \A s \in Seq(Nat \ {0}) : s \in Seq(Nat)
  BY SeqMonotonic
<1> QED BY <1>1, <1>2, <1>3 DEF Bytes

(* list_parts: the part objects there are, and no others.                  *)
LEMMA ListFacts ==
  /\ ListParts \in Seq({p \in Parts : objs[p] # Absent})
  /\ ListParts \in Seq(Parts) /\ ListParts \in Seq(Blobs) /\ ListParts \in Seq(Keys)
  /\ ToSet(ListParts) = {p \in Parts : objs[p] # Absent}
<1> DEFINE S == {p \in Parts : objs[p] # Absent}
           one == [i \in DOMAIN PartNames |-> Listed(PartNames[i])]
<1>2. one \in Seq(Seq(S)) /\ Len(one) = Len(PartNames)
  <2>1. \A i \in 1..Len(PartNames) : Listed(PartNames[i]) \in Seq(S)
    <3> TAKE i \in 1..Len(PartNames)
    <3>1. PartNames[i] \in Parts
      BY PartFacts
    <3>2. CASE objs[PartNames[i]] = Absent
      BY <3>2, EmptySeq DEF Listed
    <3>3. CASE objs[PartNames[i]] # Absent
      <4>1. PartNames[i] \in S
        BY <3>1, <3>3
      <4> HIDE DEF S
      <4>2. <<PartNames[i]>> \in Seq(S)
        BY <4>1
      <4> QED BY <3>3, <4>2 DEF Listed
    <3> QED BY <3>2, <3>3
  <2> HIDE DEF S
  <2> QED BY <2>1, PartFacts
<1> HIDE DEF S
<1>3. ListParts \in Seq(S) /\ \A i \in 1..Len(one) : Within(one[i], ListParts)
  BY <1>2, FlattenFacts DEF ListParts
<1>4. S \subseteq Parts /\ S \subseteq Blobs /\ S \subseteq Keys
  BY KeyFacts DEF S
<1>5. ToSet(ListParts) \subseteq S
  BY <1>3, ElementOfSeq, LenProperties DEF ToSet
<1>6. ASSUME NEW p \in S PROVE p \in ToSet(ListParts)
  <2>1. PICK i \in 1..Len(PartNames) : p = PartNames[i]
    BY PartFacts DEF S
  <2>2. one[i] = <<p>>
    BY <1>6, <2>1, PartFacts DEF S, Listed
  <2>3. Within(<<p>>, ListParts)
    BY <1>2, <1>3, <2>1, <2>2
  <2>4. PICK j \in 0..Len(ListParts) : /\ j + Len(<<p>>) <= Len(ListParts)
                                       /\ \A m \in 1..Len(<<p>>) : ListParts[j + m] = <<p>>[m]
    BY <2>3 DEF Within
  <2>5. ListParts[j + 1] = p /\ j + 1 \in 1..Len(ListParts)
    BY <1>3, <2>4, LenProperties
  <2> QED BY <1>3, <2>5, LenProperties DEF ToSet
<1>7. \A s \in Seq(S) : s \in Seq(Parts) /\ s \in Seq(Blobs) /\ s \in Seq(Keys)
  BY <1>4, SeqMonotonic
<1> QED BY <1>3, <1>5, <1>6, <1>7 DEF S

-----------------------------------------------------------------------------
(* Steps of one request.                                                   *)

Moves(r) ==
  /\ pc' \in [Reqs -> Labels] /\ job' \in [Reqs -> Jobs]
  /\ \A q \in Reqs : q # r => pc'[q] = pc[q] /\ job'[q] = job[q]
  /\ Fits(pc'[r], job'[r])

LEMMA BlankFits == Blank \in Jobs /\ Fits("idle", Blank) /\ Blank.op = "none"
<1>1. /\ <<>> \in Seq(Blobs) /\ <<>> \in Seq(Keys) /\ <<>> \in Seq(Bytes) /\ <<>> \in Bytes
      /\ "info" \in Keys /\ "data" \in Blobs /\ "idle" \in Labels
  BY EmptySeq, KeyFacts DEF Labels, Bytes
<1> QED BY <1>1 DEF Blank, Jobs, Fits

(* Only an idle request has no operation.                                  *)
LEMMA OpFacts ==
  ASSUME TypeInv, NEW r \in Reqs
  PROVE  /\ pc[r] = "idle" <=> job[r].op = "none"
         /\ job[r] \in Jobs /\ pc[r] \in Labels /\ Fits(pc[r], job[r])
         /\ pc[r] = "idle" => job[r] = Blank
<1>1. job[r] \in Jobs /\ pc[r] \in Labels /\ Fits(pc[r], job[r])
  BY DEF TypeInv, Placed
<1>2. pc[r] = "idle" => job[r] = Blank
  BY <1>1 DEF Fits
<1>3. pc[r] # "idle" => job[r].op # "none"
  BY <1>1 DEF Fits, PutFits, EraseFits, CombineFits, Labels, Calls
<1> QED BY <1>1, <1>2, <1>3, BlankFits

(* While a request is at work, every other one is idle or waits.           *)
LEMMA Solo ==
  ASSUME TypeInv, NEW r \in Reqs, Active(r), NEW q \in Reqs, q # r
  PROVE  ~Active(q) /\ (job[r].op = "post" => pc[q] = "idle")
<1>1. job[r].op = "post" => pc[q] = "idle"
  BY DEF TypeInv, Order
<1>2. job[q].op = "post" => pc[r] = "idle"
  BY DEF TypeInv, Order
<1>3. job[r].op # "post" /\ job[q].op # "post" => ~Active(q)
  BY DEF TypeInv, Order
<1> QED BY <1>1, <1>2, <1>3 DEF Active

LEMMA PlacedKeeps == ASSUME TypeInv, NEW r \in Reqs, Moves(r) PROVE Placed'
<1> SUFFICES ASSUME NEW q \in Reqs PROVE Fits(pc'[q], job'[q])
  BY DEF Placed, Moves
<1> QED BY DEF Moves, TypeInv, Placed

(* A handler goes on with the request it serves.                           *)
LEMMA GoesOn ==
  ASSUME TypeInv, NEW r \in Reqs, Active(r), Moves(r), job'[r].op = job[r].op, pc'[r] # "lock",
         ObjsOK', Counters', owner' = owner, life' \in {life, "doomed"},
         life = "made" => life' = "made"
  PROVE  TypeInv'
<1>1. Placed'
  BY PlacedKeeps
<1>2. Order'
  <2>1. \A q \in Reqs : (q # r => pc'[q] = pc[q]) /\ job'[q].op = job[q].op
    BY DEF Moves
  <2>2. life # "new"
    BY DEF TypeInv, Order, Active
  <2>3. \A q \in Reqs : q # r /\ job[q].op = "post" => FALSE
    BY DEF TypeInv, Order, Active
  <2>4. Active(r)'
    <3>1. job'[r].op # "none"
      BY OpFacts DEF Active
    <3>2. pc'[r] # "idle"
      BY <3>1, BlankFits DEF Moves, Fits
    <3> QED BY <3>2 DEF Active
  <2>5. \A q \in Reqs : owner' = q => Active(q)'
    BY <2>1, <2>4 DEF TypeInv, Order, Active
  <2> QED BY <2>1, <2>2, <2>3, <2>5 DEF TypeInv, Order, Active
<1> QED BY <1>1, <1>2 DEF TypeInv

(* A handler has answered, or is given up.                                 *)
LEMMA Ends ==
  ASSUME TypeInv, NEW r \in Reqs, pc[r] # "idle", End(r), ObjsOK', Counters',
         life' \in {life, "known", "gone"}, life # "made" \/ life' \in {"made", "known"}
  PROVE  TypeInv'
<1>1. /\ pc' = [pc EXCEPT ![r] = "idle"] /\ job' = [job EXCEPT ![r] = Blank]
      /\ owner' = IF owner = r THEN NoReq ELSE owner
  BY DEF End, Goto, Set, Unlock
<1>2. Moves(r) /\ pc'[r] = "idle" /\ job'[r] = Blank
  BY <1>1, BlankFits DEF Moves, TypeInv, Placed, Labels
<1>3. Placed'
  BY <1>2, PlacedKeeps
<1>4. Order'
  <2>1. \A q \in Reqs : q # r => pc'[q] = pc[q] /\ job'[q] = job[q]
    BY <1>2 DEF Moves
  <2>2. \A q \in Reqs : job[q].op = "post" => q = r
    BY DEF TypeInv, Order
  <2>3. job'[r].op = "none" /\ ~Active(r)'
    BY <1>2, BlankFits DEF Active
  <2>4. life # "new" /\ life' # "new"
    BY DEF TypeInv, Order
  <2>5. ASSUME NEW q \in Reqs, Active(q)', job'[q].op # "post" PROVE owner' = q
    <3>1. q # r /\ Active(q) /\ job[q].op # "post"
      BY <2>1, <2>3, <2>5 DEF Active
    <3> QED BY <1>1, <3>1 DEF TypeInv, Order
  <2>6. life' = "made" => life = "made"
    OBVIOUS
  <2>7. ASSUME NEW q \in Reqs, owner' = q PROVE Active(q)'
    <3>1. q # r /\ owner = q
      BY <1>1, <2>7, AbsentFacts
    <3>2. Active(q)
      BY <3>1 DEF TypeInv, Order
    <3> QED BY <2>1, <3>1, <3>2 DEF Active
  <2> QED BY <2>1, <2>2, <2>3, <2>4, <2>5, <2>6, <2>7 DEF TypeInv, Order
<1> QED BY <1>3, <1>4 DEF TypeInv

(* A step of a handler that goes on, at l and with the locals j.           *)
LEMMA StepType ==
  ASSUME TypeInv, NEW r \in Reqs, Active(r), NEW l \in Labels, l # "lock", NEW j \in Jobs,
         Goto(r, l), Set(r, j), j.op = job[r].op, Fits(l, j), ObjsOK', Counters',
         owner' = owner, life' \in {life, "doomed"}, life = "made" => life' = "made"
  PROVE  TypeInv'
<1>1. Moves(r) /\ job'[r] = j /\ pc'[r] = l
  BY DEF Moves, TypeInv, Placed, Goto, Set
<1> QED BY <1>1, GoesOn

LEMMA GotoType ==
  ASSUME TypeInv, NEW r \in Reqs, Active(r), NEW l \in Labels, l # "lock",
         Goto(r, l), job' = job, Fits(l, job[r]), ObjsOK', Counters', owner' = owner, life' = life
  PROVE  TypeInv'
<1>1. Moves(r) /\ job'[r] = job[r] /\ pc'[r] = l
  BY DEF Moves, TypeInv, Placed, Goto
<1> QED BY <1>1, GoesOn

LEMMA OutsideSame == ASSUME TypeInv, UNCHANGED <<outside, owner>> PROVE Counters' /\ life' = life
BY DEF TypeInv, Counters, outside

LEMMA ObjsSame == ASSUME TypeInv, objs' = objs PROVE ObjsOK'
BY DEF TypeInv, ObjsOK

(* One object is written or deleted.                                       *)
LEMMA ObjChanges ==
  ASSUME TypeInv, NEW key \in Keys, NEW c, objs' = [objs EXCEPT ![key] = c],
         key = "info" => c \in Infos \union {Absent},
         key # "info" => c = Absent \/ c \in Bytes
  PROVE  ObjsOK'
<1>1. DOMAIN objs' = Keys /\ \A q \in Keys : objs'[q] = IF q = key THEN c ELSE objs[q]
  BY DEF TypeInv, ObjsOK
<1>2. objs'["info"] \in Infos \union {Absent}
  BY <1>1, KeyFacts DEF TypeInv, ObjsOK
<1>3. ASSUME NEW q \in Blobs PROVE objs'[q] = Absent \/ objs'[q] \in Bytes
  <2>1. q \in Keys /\ q # "info" /\ (objs[q] = Absent \/ objs[q] \in Bytes)
    BY KeyFacts DEF TypeInv, ObjsOK
  <2> QED BY <1>1, <2>1
<1> QED BY <1>1, <1>2, <1>3 DEF ObjsOK

(* The bytes of a list of objects that are all there, when the bucket is o. *)
Content(o, keys) == FlattenSeq([i \in DOMAIN keys |-> o[keys[i]]])
Present(o, keys) == \A i \in DOMAIN keys : o[keys[i]] # Absent
Typed(o) == \A key \in Blobs : o[key] = Absent \/ o[key] \in Bytes

LEMMA ContentType ==
  ASSUME NEW o, Typed(o), NEW keys \in Seq(Blobs), Present(o, keys)
  PROVE  /\ [i \in DOMAIN keys |-> o[keys[i]]] \in Seq(Bytes)
         /\ Content(o, keys) \in Bytes
<1>1. /\ Len(keys) \in Nat /\ DOMAIN keys = 1..Len(keys) /\ \A i \in 1..Len(keys) : keys[i] \in Blobs
  BY LenProperties, ElementOfSeq
<1>2. \A i \in 1..Len(keys) : o[keys[i]] \in Bytes
  BY <1>1 DEF Typed, Present
<1>3. [i \in DOMAIN keys |-> o[keys[i]]] \in Seq(Bytes)
  <2> HIDE DEF Bytes
  <2> QED BY <1>1, <1>2
<1> QED BY <1>3, FlattenFacts DEF Content, Bytes

-----------------------------------------------------------------------------
(* Typing: the remote calls.                                               *)

LEMMA PutObjs ==
  ASSUME TypeInv, NEW r \in Reqs, pc[r] = "put", objs' = Effect(r)
  PROVE  ObjsOK' /\ objs' = [objs EXCEPT ![job[r].key] = job[r].value]
<1> DEFINE k == job[r].key
           v == job[r].value
<1>1. k \in Keys /\ PutFits(job[r])
  BY OpFacts DEF Jobs, Fits
<1>2. objs' = [objs EXCEPT ![k] = v]
  BY DEF Effect
<1>3. (k = "info" => v \in Infos) /\ (k # "info" => v \in Bytes)
  BY <1>1, KeyFacts DEF PutFits
<1> HIDE DEF k, v
<1>4. ObjsOK'
  BY <1>1, <1>2, <1>3, ObjChanges
<1> QED BY <1>2, <1>4 DEF k, v

LEMMA EraseObjs ==
  ASSUME TypeInv, NEW r \in Reqs, pc[r] = "erase", objs' = Effect(r)
  PROVE  /\ ObjsOK' /\ Head(job[r].todo) \in Keys
         /\ objs' = [objs EXCEPT ![Head(job[r].todo)] = Absent]
<1> DEFINE k == Head(job[r].todo)
<1>1. k \in Keys
  <2>1. job[r].todo \in Seq(Keys) /\ job[r].todo # <<>>
    BY OpFacts DEF Jobs, Fits, EraseFits
  <2> QED BY <2>1, HeadTailProperties
<1>2. objs' = [objs EXCEPT ![k] = Absent]
  BY DEF Effect
<1> HIDE DEF k
<1>3. ObjsOK'
  BY <1>1, <1>2, ObjChanges
<1> QED BY <1>1, <1>2, <1>3 DEF k

(* What a call that combines objects leaves where.                         *)
LEMMA CommitObjs ==
  ASSUME TypeInv, NEW r \in Reqs, pc[r] = "commit", ~Refused(r), objs' = Effect(r)
  PROVE  LET j == job[r]
         IN /\ ObjsOK' /\ DOMAIN objs' = Keys
            /\ CombineFits("commit", j) /\ j.dest \in Blobs /\ j.src \in Seq(Blobs)
            /\ cloud = "gcs" =>
                 /\ Present(objs, j.src) /\ Content(objs, j.src) \in Bytes
                 /\ objs'[j.dest] = Content(objs, j.src)
                 /\ \A key \in Keys : key # j.dest =>
                      objs'[key] = IF key \in ToSet(j.src) THEN Absent ELSE objs[key]
            /\ cloud # "gcs" =>
                 /\ objs'[j.dest] = FlattenSeq(j.blocks)
                 /\ \A key \in Keys : key # j.dest => objs'[key] = objs[key]
            /\ objs'["info"] = objs["info"] /\ objs'[j.dest] \in Bytes
<1> DEFINE j == job[r]
<1>1. j \in Jobs /\ CombineFits("commit", j)
  BY OpFacts DEF Fits
<1>2. j.dest \in Blobs /\ j.src \in Seq(Blobs) /\ j.blocks \in Seq(Bytes)
  BY <1>1 DEF Jobs
<1>3. j.dest \in Keys /\ j.dest # "info" /\ "info" \notin ToSet(j.src)
  <2>1. \A i \in DOMAIN j.src : j.src[i] \in Blobs
    BY <1>2, ElementOfSeq, LenProperties
  <2>2. j.dest \in Keys /\ j.dest # "info"
    <3> HIDE DEF j
    <3> QED BY <1>2, KeyFacts
  <2> QED BY <2>1, <2>2, KeyFacts DEF ToSet
<1>4. CASE cloud = "gcs"
  <2>1. \A s \in ToSet(j.src) : objs[s] # Absent
    BY <1>4 DEF Refused
  <2>2. Present(objs, j.src)
    BY <2>1 DEF Present, ToSet
  <2>3. Content(objs, j.src) \in Bytes
    BY <1>2, <2>2, ContentType DEF TypeInv, ObjsOK, Typed
  <2>4. objs' = Composed(j)
    BY <1>4 DEF Effect
  <2>5. DOMAIN objs' = Keys /\ \A key \in Keys : objs'[key] =
          IF key = j.dest THEN Content(objs, j.src) ELSE IF key \in ToSet(j.src) THEN Absent ELSE objs[key]
    <3> HIDE DEF j
    <3> QED BY <2>4 DEF Composed, Content
  <2>6. ObjsOK'
    BY <1>3, <2>3, <2>5, KeyFacts DEF TypeInv, ObjsOK
  <2> HIDE DEF j
  <2> QED BY <1>1, <1>2, <1>3, <1>4, <2>2, <2>3, <2>5, <2>6, KeyFacts DEF j
<1>5. CASE cloud # "gcs"
  <2> DEFINE c == FlattenSeq(j.blocks)
             d == j.dest
  <2>1. objs' = [objs EXCEPT ![d] = c]
    BY <1>5 DEF Effect
  <2>2. c \in Bytes
    BY <1>2, FlattenFacts DEF Bytes
  <2>3. d \in Keys /\ d # "info"
    BY <1>3
  <2> HIDE DEF c, d
  <2>4. ObjsOK'
    BY <2>1, <2>2, <2>3, ObjChanges
  <2>5. DOMAIN objs' = Keys /\ objs'[d] = c /\ \A key \in Keys : key # d => objs'[key] = objs[key]
    BY <2>1, <2>3 DEF TypeInv, ObjsOK
  <2> QED BY <1>1, <1>2, <1>5, <2>2, <2>3, <2>4, <2>5, KeyFacts DEF c, d
<1> QED BY <1>4, <1>5

LEMMA PutType == ASSUME TypeInv, NEW r \in Reqs, Put(r) PROVE TypeInv'
<1>1. /\ pc[r] = "put" /\ job[r] \in Jobs /\ PutFits(job[r]) /\ Active(r)
      /\ objs' = Effect(r) /\ job' = job /\ owner' = owner /\ Goto(r, job[r].then)
      /\ UNCHANGED <<outside, owner>>
  BY OpFacts DEF Put, Fits, Active
<1>2. Fits(job[r].then, job[r]) /\ job[r].then \in Labels /\ job[r].then # "lock"
  BY <1>1 DEF PutFits, Fits, Labels
<1> QED BY <1>1, <1>2, PutObjs, GotoType, OutsideSame

(* What a combination leaves of its request goes on with what it made, or  *)
(* it is over.                                                             *)
LEMMA CombinedFits ==
  ASSUME NEW j \in Jobs, CombineFits("erase", j)
  PROVE  LET l == IF j.dest = "data" THEN j.back ELSE "group"
         IN /\ Fits(l, j) /\ l \in Labels
            /\ l \notin {"erase", "commit", "fetch", "idle", "lock", "left", "deleted"}
<1>1. CASE j.dest = "data"
  BY <1>1 DEF CombineFits, Fits, Labels
<1>2. CASE j.dest # "data"
  <2>1. Grouped(j) /\ j.made # <<>>
    BY <1>2 DEF CombineFits, Grouped
  <2>2. Pending(j) # <<>>
    BY <2>1 DEF Pending
  <2> QED BY <1>2, <2>2 DEF CombineFits, Fits, Labels
<1> QED BY <1>1, <1>2

LEMMA EraseType == ASSUME TypeInv, NEW r \in Reqs, Erase(r) PROVE TypeInv'
<1> DEFINE j == [job[r] EXCEPT !.todo = Tail(@)]
           l == IF Len(job[r].todo) = 1 THEN job[r].then ELSE "erase"
<1>1. /\ pc[r] = "erase" /\ job[r] \in Jobs /\ EraseFits(job[r]) /\ Active(r)
      /\ Set(r, j) /\ owner' = owner /\ life' = life
  BY OpFacts DEF Erase, Fits, Active
<1>2. ObjsOK' /\ Counters'
  <2>1. objs' = Effect(r) \/ objs' = objs
    BY DEF Erase
  <2>2. Counters'
    BY ObjectAssumption DEF TypeInv, Counters, Erase
  <2> QED BY <1>1, <2>1, <2>2, EraseObjs, ObjsSame
<1>3. /\ job[r].todo \in Seq(Keys) /\ job[r].todo # <<>>
      /\ Tail(job[r].todo) \in Seq(Keys) /\ (Len(job[r].todo) # 1 => Tail(job[r].todo) # <<>>)
  <2> DEFINE t == job[r].todo
  <2>1. t \in Seq(Keys) /\ t # <<>>
    BY <1>1 DEF Jobs, EraseFits
  <2> HIDE DEF t
  <2>2. Tail(t) \in Seq(Keys) /\ Len(Tail(t)) = Len(t) - 1 /\ Len(t) \in Nat /\ Len(t) > 0
    BY <2>1, HeadTailProperties, LenProperties, EmptySeq
  <2>3. Len(t) # 1 => Tail(t) # <<>>
    <3> DEFINE u == Tail(t)
    <3>1. Len(u) = Len(t) - 1 /\ Len(t) \in Nat
      BY <2>2
    <3> HIDE DEF u
    <3>2. u = <<>> => Len(u) = 0
      OBVIOUS
    <3> QED BY <3>1, <3>2 DEF u
  <2> QED BY <2>1, <2>2, <2>3 DEF t
<1>4. /\ j \in Jobs /\ j.op = job[r].op /\ j.todo = Tail(job[r].todo) /\ j.then = job[r].then
      /\ j.src = job[r].src /\ j.dest = job[r].dest /\ j.back = job[r].back
      /\ (CombineFits("erase", job[r]) => CombineFits("erase", j))
  <2>1. j \in Jobs
    BY <1>1, <1>3 DEF Jobs
  <2>2. CombineFits("erase", job[r]) => CombineFits("erase", j)
    BY <1>1 DEF Jobs, CombineFits, Grouped, Usable, Origin
  <2> QED BY <1>1, <2>1, <2>2 DEF Jobs
<1>5. job[r].op # "delete" => CombineFits("erase", job[r]) /\ job[r].todo \in Seq(ToSet(job[r].src))
  BY <1>1 DEF EraseFits
<1> HIDE DEF j
<1>6. CASE Len(job[r].todo) = 1
  <2>1. Goto(r, job[r].then)
    BY <1>6 DEF Erase
  <2>2. Fits(job[r].then, j) /\ job[r].then \in Labels /\ job[r].then # "lock"
    <3>1. CASE job[r].op = "delete"
      <4>1. job[r].then \in {"left", "deleted"}
        BY <1>1, <3>1 DEF EraseFits, CombineFits
      <4> QED BY <1>4, <3>1, <4>1 DEF Fits, Labels
    <3>2. CASE job[r].op # "delete"
      BY <1>1, <1>4, <1>5, <3>2, CombinedFits DEF EraseFits
    <3> QED BY <3>1, <3>2
  <2> QED BY <1>1, <1>2, <1>4, <2>1, <2>2, StepType
<1>7. CASE Len(job[r].todo) # 1
  <2>1. pc' = pc
    BY <1>7 DEF Erase
  <2>2. Goto(r, "erase")
    BY <1>1, <2>1 DEF Goto, TypeInv, Placed
  <2>3. EraseFits(j)
    <3>1. j.todo # <<>>
      BY <1>3, <1>4, <1>7
    <3>2. job[r].op # "delete" => j.todo \in Seq(ToSet(job[r].src))
      <4> DEFINE t == job[r].todo
                 S == ToSet(job[r].src)
      <4>1. t # <<>> /\ (job[r].op # "delete" => t \in Seq(S))
        BY <1>3, <1>5
      <4> HIDE DEF t, S
      <4>2. job[r].op # "delete" => Tail(t) \in Seq(S)
        BY <4>1, HeadTailProperties
      <4> QED BY <1>4, <4>2 DEF t, S
    <3> QED BY <1>1, <1>4, <1>5, <3>1, <3>2 DEF EraseFits, CombineFits
  <2>4. Fits("erase", j) /\ "erase" \in Labels
    BY <2>3 DEF Fits, Labels, Calls
  <2> QED BY <1>1, <1>2, <1>4, <2>2, <2>4, StepType
<1> QED BY <1>6, <1>7

LEMMA LoseCallType == ASSUME TypeInv, NEW r \in Reqs, LoseCall(r) PROVE TypeInv'
<1>1. /\ pc[r] \in {"put", "commit", "erase"} /\ ~Refused(r) /\ End(r) /\ life' = life
      /\ objs' = objs \/ objs' = Effect(r)
  BY DEF LoseCall, Calls
<1>2. ObjsOK'
  BY <1>1, ObjsSame, PutObjs, CommitObjs, EraseObjs
<1>3. Counters'
  BY <1>1, ObjectAssumption, AbsentFacts DEF TypeInv, Counters, LoseCall, End, Unlock
<1> QED BY <1>1, <1>2, <1>3, Ends

-----------------------------------------------------------------------------
(* Typing: combining objects.                                              *)

(* The group a request combines next has objects to combine, and goes into *)
(* one that none of them is.                                               *)
LEMMA GroupFacts ==
  ASSUME TypeInv, NEW r \in Reqs, NextGroup(r)
  PROVE  LET j == job[r]
         IN \E i \in Jobs :
              /\ Set(r, i) /\ CombineFits("commit", i)
              /\ i.k = 1 /\ i.pos = 0 /\ i.buf = <<>> /\ i.blocks = <<>> /\ i.op = j.op
              /\ i.back = j.back /\ i.info = j.info /\ i.at = j.at /\ i.n = j.n
              /\ Pending(j) \in Seq(Blobs) /\ Pending(j) # <<>>
              /\ \/ /\ FinalGroup(j) /\ i.src = Pending(j) /\ i.dest = "data"
                    /\ i.level = <<>> /\ i.made = <<>> /\ i.tmps = j.tmps
                 \/ /\ ~FinalGroup(j) /\ i.tmps = j.tmps + 1 /\ i.dest = TmpNames[j.tmps + 1]
                    /\ j.tmps + 1 \in 1..Len(TmpNames)
                    /\ \E n \in 1..Len(Pending(j)) :
                         /\ i.src = SubSeq(Pending(j), 1, n)
                         /\ i.level = SubSeq(Pending(j), n + 1, Len(Pending(j)))
                    /\ i.made = IF j.level = <<>> THEN <<i.dest>> ELSE Append(j.made, i.dest)
<1> DEFINE j == job[r]
           b == [j EXCEPT !.k = 1, !.pos = 0, !.buf = <<>>, !.blocks = <<>>]
           keys == Pending(j)
           n == IF Len(keys) < Batch THEN Len(keys) ELSE Batch
           t == j.tmps
<1>1. j \in Jobs /\ CombineFits("group", j) /\ keys # <<>>
  BY OpFacts DEF NextGroup, Fits, CombineFits
<1>2. /\ b \in Jobs /\ b.k = 1 /\ b.pos = 0 /\ b.buf = <<>> /\ b.blocks = <<>> /\ b.op = j.op
      /\ b.back = j.back /\ b.info = j.info /\ b.at = j.at /\ b.n = j.n /\ b.level = j.level
      /\ b.made = j.made /\ b.tmps = t
      /\ Pending(b) = keys /\ FinalGroup(b) = FinalGroup(j)
  <2>1. <<>> \in Bytes /\ <<>> \in Seq(Bytes)
    BY EmptySeq DEF Bytes
  <2> QED BY <1>1, <2>1 DEF Jobs, Pending, FinalGroup, GcsLast, AzureLast
<1>3. /\ j.op \in {"post", "patch"} /\ j.back \in {"total", "done"}
      /\ j.back = "total" => j.op = "post"
      /\ j.back = "done" => j.info \in Infos
      /\ t \in 0..Len(TmpNames) /\ Len(TmpNames) \in Nat
  BY <1>1, TmpFacts DEF CombineFits
<1>4. keys \in Seq(Usable(j, t)) /\ j.made \in Seq(Made(t)) /\ keys \in Seq(Blobs)
  <2> DEFINE U == Usable(j, t)
  <2>1. Made(t) \subseteq U /\ U \subseteq Blobs
    BY <1>3, UsableFacts DEF Usable
  <2>2. j.made \in Seq(Made(t)) /\ j.level \in Seq(U)
    BY <1>1 DEF CombineFits
  <2> HIDE DEF U, j
  <2>3. j.made \in Seq(U)
    BY <2>1, <2>2, SeqMonotonic
  <2>4. keys \in Seq(U)
    BY <2>2, <2>3 DEF Pending
  <2> QED BY <2>1, <2>2, <2>4, SeqMonotonic DEF U
<1>5. CASE FinalGroup(j)
  <2> DEFINE i == [b EXCEPT !.src = keys, !.dest = "data", !.level = <<>>, !.made = <<>>]
  <2>1. Set(r, i)
    BY <1>2, <1>5 DEF NextGroup
  <2> HIDE DEF j, b, keys
  <2>2. <<>> \in Seq(Blobs) /\ <<>> \in Seq(Made(t)) /\ \A S : <<>> \in Seq(S)
    BY EmptySeq
  <2>3. /\ i \in Jobs /\ i.src = keys /\ i.dest = "data" /\ i.level = <<>> /\ i.made = <<>>
        /\ i.tmps = t /\ i.op = b.op /\ i.back = b.back /\ i.info = b.info /\ i.at = b.at
        /\ i.n = b.n /\ i.k = b.k /\ i.pos = b.pos /\ i.buf = b.buf /\ i.blocks = b.blocks
    <3>1. b \in Jobs /\ keys \in Seq(Blobs) /\ <<>> \in Seq(Blobs) /\ "data" \in Blobs
      BY <1>2, <1>4, <2>2, KeyFacts
    <3>2. i \in Jobs
      BY <3>1 DEF Jobs
    <3>3. /\ i.src = keys /\ i.dest = "data" /\ i.level = <<>> /\ i.made = <<>>
          /\ i.tmps = b.tmps /\ i.op = b.op /\ i.back = b.back /\ i.info = b.info
      BY <3>1 DEF Jobs
    <3>4. /\ i.at = b.at /\ i.n = b.n /\ i.k = b.k /\ i.pos = b.pos /\ i.buf = b.buf
          /\ i.blocks = b.blocks
      BY <3>1 DEF Jobs
    <3>5. b.tmps = t
      BY <1>2
    <3> QED BY <3>2, <3>3, <3>4, <3>5
  <2> HIDE DEF i
  <2>4. Usable(i, t) = Usable(j, t)
    BY <1>2, <2>3 DEF Usable, Origin
  <2>5. CombineFits("commit", i)
    BY <1>1, <1>2, <1>3, <1>4, <2>2, <2>3, <2>4 DEF CombineFits, Grouped
  <2> QED BY <1>1, <1>2, <1>4, <1>5, <2>1, <2>3, <2>5 DEF j, keys
<1>6. CASE ~FinalGroup(j)
  <2> DEFINE d == TmpNames[t + 1]
             made == IF j.level = <<>> THEN <<d>> ELSE Append(j.made, d)
             src == SubSeq(keys, 1, n)
             level == SubSeq(keys, n + 1, Len(keys))
             i == [b EXCEPT !.src = src, !.dest = d, !.tmps = t + 1, !.level = level, !.made = made]
  <2>1. Set(r, i) /\ t < Len(TmpNames)
    BY <1>1, <1>2, <1>6 DEF NextGroup, Jobs
  <2>2. t + 1 \in 1..Len(TmpNames) /\ t + 1 \in 0..Len(TmpNames) /\ (t + 1) - 1 = t /\ t + 1 > 0
    BY <1>3, <2>1
  <2> DEFINE u == t + 1
             U == Usable(j, t)
             V == Usable(j, u)
  <2>3. /\ d \in Blobs /\ d # "data" /\ d = TmpNames[u] /\ u \in 1..Len(TmpNames) /\ u > 0
        /\ u - 1 = t /\ u \in 0..Len(TmpNames) /\ u \in Nat
    BY <2>2, TmpFacts
  <2>4. d \in Made(u) /\ Made(t) \subseteq Made(u) /\ U \subseteq V /\ Made(u) \subseteq Blobs
    <3> HIDE DEF u
    <3> QED BY <2>3, UsableFacts
  <2>5. n \in 1..Len(keys) /\ Len(keys) \in Nat
    <3> HIDE DEF keys
    <3>1. Len(keys) \in Nat /\ Len(keys) # 0 /\ Batch \in Nat \ {0, 1}
      BY <1>1, <1>4, LenProperties, EmptySeq, ObjectAssumption
    <3> QED BY <3>1
  <2> HIDE DEF U, V, n, keys, u
  <2>6. /\ src \in Seq(U) /\ level \in Seq(U) /\ src \in Seq(Blobs) /\ level \in Seq(Blobs)
        /\ Len(src) = n
    <3>1. keys \in Seq(U) /\ keys \in Seq(Blobs)
      BY <1>4 DEF U
    <3> QED BY <2>5, <3>1
  <2>7. src # <<>>
    <3> HIDE DEF src
    <3> QED BY <2>5, <2>6
  <2>8. /\ made \in Seq(Made(u)) /\ made # <<>> /\ made[Len(made)] = d /\ made \in Seq(Blobs)
    <3> DEFINE M == Made(u)
               m == j.made
    <3>1. m \in Seq(Made(t)) /\ d \in M /\ Made(t) \subseteq M
      BY <1>4, <2>4
    <3>2. m \in Seq(M)
      <4> HIDE DEF M, m
      <4> QED BY <3>1, SeqMonotonic
    <3> HIDE DEF M, m
    <3>3. Append(m, d) \in Seq(M) /\ Append(m, d) # <<>> /\ Append(m, d)[Len(Append(m, d))] = d
      <4>1. Len(m) \in Nat
        BY <3>2
      <4> QED BY <3>1, <3>2, <4>1, AppendProperties
    <3>4. <<d>> \in Seq(M) /\ <<d>> # <<>> /\ <<d>>[Len(<<d>>)] = d
      BY <3>1
    <3>5. M \subseteq Blobs
      BY <2>4 DEF M
    <3>6. made \in Seq(M) /\ made # <<>> /\ made[Len(made)] = d
      BY <3>3, <3>4 DEF m
    <3> HIDE DEF made
    <3> QED BY <3>5, <3>6, SeqMonotonic DEF M
  <2>9. level \in Seq(V)
    BY <2>4, <2>6, SeqMonotonic
  <2>10. Set(r, [b EXCEPT !.src = src, !.dest = d, !.tmps = u, !.level = level, !.made = made])
    BY <2>1 DEF u
  <2> DEFINE i2 == [b EXCEPT !.src = src, !.dest = d, !.tmps = u, !.level = level, !.made = made]
  <2> HIDE DEF src, level, made, d, j, b, t
  <2>11. /\ i2 \in Jobs /\ i2.src = src /\ i2.dest = d /\ i2.level = level /\ i2.made = made
         /\ i2.tmps = u /\ i2.op = b.op /\ i2.back = b.back /\ i2.info = b.info /\ i2.at = b.at
         /\ i2.n = b.n /\ i2.k = b.k /\ i2.pos = b.pos /\ i2.buf = b.buf /\ i2.blocks = b.blocks
    BY <1>2, <2>3, <2>6, <2>8 DEF Jobs
  <2>12. Set(r, i2)
    BY <2>10
  <2> HIDE DEF i2
  <2>13. Usable(i2, u) = V /\ Usable(i2, t) = U
    BY <1>2, <2>11 DEF Usable, Origin, U, V
  <2>14. Grouped(i2)
    BY <1>2, <2>3, <2>6, <2>7, <2>8, <2>11, <2>13 DEF Grouped
  <2>15. CombineFits("commit", i2)
    BY <1>1, <1>2, <1>3, <2>3, <2>8, <2>9, <2>11, <2>13, <2>14 DEF CombineFits
  <2>16. \E m \in 1..Len(keys) : src = SubSeq(keys, 1, m) /\ level = SubSeq(keys, m + 1, Len(keys))
    BY <2>5 DEF src, level
  <2> QED BY <1>1, <1>2, <1>4, <1>6, <2>3, <2>11, <2>12, <2>15, <2>16 DEF made, j, keys, t, u, d
<1> QED BY <1>5, <1>6

LEMMA NextGroupType == ASSUME TypeInv, NEW r \in Reqs, NextGroup(r) PROVE TypeInv'
<1>1. PICK i \in Jobs : /\ Set(r, i) /\ CombineFits("commit", i) /\ i.op = job[r].op
                        /\ i.k = 1
  BY GroupFacts
<1>2. pc[r] = "group" /\ Active(r) /\ objs' = objs /\ UNCHANGED <<outside, owner>>
  BY DEF NextGroup, Active
<1>3. PICK l \in {"commit", "fetch"} : Goto(r, l)
  BY DEF NextGroup
<1>4. Fits(l, i)
  <2>1. CombineFits("fetch", i) /\ Grouped(i)
    BY <1>1 DEF CombineFits
  <2>2. i.k \in 1..Len(i.src)
    <3>1. i.src \in Seq(Blobs) /\ i.src # <<>>
      BY <2>1 DEF Jobs, Grouped
    <3>2. Len(i.src) \in Nat /\ Len(i.src) # 0
      BY <3>1, LenProperties, EmptySeq
    <3> QED BY <1>1, <3>2
  <2> QED BY <1>1, <2>1, <2>2 DEF Fits
<1> QED BY <1>1, <1>2, <1>3, <1>4, StepType, ObjsSame, OutsideSame DEF Labels, Calls

(* A source that is being fetched.                                         *)
LEMMA SourceFetched ==
  ASSUME TypeInv, NEW r \in Reqs, pc[r] = "fetch", Source(r) # Absent
  PROVE  /\ job[r] \in Jobs /\ CombineFits("fetch", job[r]) /\ job[r].k \in 1..Len(job[r].src)
         /\ job[r].src[job[r].k] \in Blobs /\ Source(r) \in Bytes
         /\ job[r].src \in Seq(Blobs) /\ Len(job[r].src) \in Nat /\ Active(r)
<1>1. job[r] \in Jobs /\ CombineFits("fetch", job[r]) /\ job[r].k \in 1..Len(job[r].src)
  BY OpFacts DEF Fits
<1>2. job[r].src \in Seq(Blobs)
  BY <1>1 DEF Jobs
<1>3. job[r].src[job[r].k] \in Blobs /\ Len(job[r].src) \in Nat
  BY <1>1, <1>2, ElementOfSeq, LenProperties
<1> QED BY <1>1, <1>2, <1>3 DEF TypeInv, ObjsOK, Source, Active

(* A fetch changes what was fetched, not what is combined.                 *)
Fetching(j, blocks, buf, k, pos) ==
  [j EXCEPT !.blocks = blocks, !.buf = buf, !.k = k, !.pos = pos]

LEMMA FetchedFits ==
  ASSUME NEW j \in Jobs, CombineFits("fetch", j), NEW blocks \in Seq(Bytes), NEW buf \in Bytes,
         NEW k \in Nat, NEW pos \in Nat
  PROVE  LET i == Fetching(j, blocks, buf, k, pos)
         IN /\ i \in Jobs /\ i.op = j.op /\ i.src = j.src /\ i.dest = j.dest /\ i.k = k
            /\ i.pos = pos /\ i.buf = buf /\ i.blocks = blocks /\ i.back = j.back
            /\ i.level = j.level /\ i.made = j.made /\ i.tmps = j.tmps /\ i.info = j.info
            /\ i.at = j.at /\ i.n = j.n
            /\ CombineFits("fetch", i) /\ CombineFits("commit", i)
<1> DEFINE i == Fetching(j, blocks, buf, k, pos)
<1>1. /\ i \in Jobs /\ i.op = j.op /\ i.src = j.src /\ i.dest = j.dest /\ i.k = k
      /\ i.pos = pos /\ i.buf = buf /\ i.blocks = blocks /\ i.back = j.back
      /\ i.level = j.level /\ i.made = j.made /\ i.tmps = j.tmps /\ i.info = j.info
      /\ i.at = j.at /\ i.n = j.n
  BY DEF Jobs, Fetching
<1> HIDE DEF i
<1>2. Origin(i) = Origin(j) /\ Usable(i, j.tmps) = Usable(j, j.tmps)
      /\ Usable(i, j.tmps - 1) = Usable(j, j.tmps - 1)
  BY <1>1 DEF Usable, Origin
<1>3. Grouped(j) => Grouped(i)
  BY <1>1, <1>2 DEF Grouped
<1>4. CombineFits("fetch", i) /\ CombineFits("commit", i)
  BY <1>1, <1>2, <1>3 DEF CombineFits
<1> QED BY <1>1, <1>4 DEF i

LEMMA FetchBlockFacts ==
  ASSUME TypeInv, NEW r \in Reqs, FetchBlock(r)
  PROVE  LET j == job[r]
             k == IF LastSource(r) THEN j.k ELSE j.k + 1
             bs == Append(j.blocks, Source(r))
         IN /\ Set(r, Fetching(j, bs, j.buf, k, j.pos)) /\ j.buf \in Bytes /\ j.pos \in Nat
            /\ k \in Nat /\ bs \in Seq(Bytes) /\ j.blocks \in Seq(Bytes)
            /\ Goto(r, IF LastSource(r) THEN "commit" ELSE "fetch")
            /\ ~LastSource(r) => k \in 1..Len(j.src)
<1> DEFINE j == job[r]
           s == Source(r)
           k == IF LastSource(r) THEN j.k ELSE j.k + 1
           bs == Append(j.blocks, s)
<1>1. pc[r] = "fetch" /\ s # Absent
  BY DEF FetchBlock
<1>2. /\ j \in Jobs /\ j.k \in 1..Len(j.src) /\ s \in Bytes /\ Len(j.src) \in Nat
  BY <1>1, SourceFetched
<1>3. k \in Nat /\ (~LastSource(r) => k \in 1..Len(j.src))
  BY <1>2 DEF LastSource
<1>4. j.buf \in Bytes /\ j.pos \in Nat /\ j.blocks \in Seq(Bytes)
  BY <1>2 DEF Jobs
<1>5. bs \in Seq(Bytes)
  <2> HIDE DEF Bytes, j, s
  <2> QED BY <1>2, <1>4, AppendProperties
<1>6. Goto(r, IF LastSource(r) THEN "commit" ELSE "fetch")
  BY <1>1 DEF FetchBlock, Goto, TypeInv, Placed
<1>7. Set(r, Fetching(j, bs, j.buf, k, j.pos))
  BY <1>2 DEF FetchBlock, Set, Jobs, Fetching
<1> QED BY <1>3, <1>4, <1>5, <1>6, <1>7

(* What the request is left with fits where it goes on.                    *)
LEMMA FetchType ==
  ASSUME TypeInv, NEW r \in Reqs, pc[r] = "fetch", Source(r) # Absent,
         NEW blocks \in Seq(Bytes), NEW buf \in Bytes, NEW k \in Nat, NEW pos \in Nat,
         Set(r, Fetching(job[r], blocks, buf, k, pos)), NEW l \in {"fetch", "commit"},
         Goto(r, l), l = "fetch" => k \in 1..Len(job[r].src),
         objs' = objs, UNCHANGED <<outside, owner>>
  PROVE  TypeInv'
<1> DEFINE j == job[r]
           i == Fetching(j, blocks, buf, k, pos)
<1>1. j \in Jobs /\ CombineFits("fetch", j) /\ Active(r)
  BY SourceFetched
<1>2. /\ i \in Jobs /\ i.op = j.op /\ i.src = j.src /\ i.k = k
      /\ CombineFits("fetch", i) /\ CombineFits("commit", i)
  BY <1>1, FetchedFits
<1>3. Set(r, i)
  OBVIOUS
<1> HIDE DEF i
<1>4. Fits(l, i) /\ l \in Labels
  BY <1>2 DEF Fits, Labels, Calls
<1> QED BY <1>1, <1>2, <1>3, <1>4, StepType, ObjsSame, OutsideSame

LEMMA FetchBlockType == ASSUME TypeInv, NEW r \in Reqs, FetchBlock(r) PROVE TypeInv'
<1> DEFINE j == job[r]
           k == IF LastSource(r) THEN j.k ELSE j.k + 1
           bs == Append(j.blocks, Source(r))
           l == IF LastSource(r) THEN "commit" ELSE "fetch"
<1>1. /\ pc[r] = "fetch" /\ Source(r) # Absent /\ objs' = objs /\ UNCHANGED <<outside, owner>>
  BY DEF FetchBlock
<1>2. /\ Set(r, Fetching(job[r], bs, j.buf, k, j.pos)) /\ j.buf \in Bytes /\ j.pos \in Nat
      /\ k \in Nat /\ bs \in Seq(Bytes)
      /\ Goto(r, l) /\ (l = "fetch" => k \in 1..Len(job[r].src)) /\ l \in {"fetch", "commit"}
  BY FetchBlockFacts
<1> DEFINE buf == j.buf
           pos == j.pos
<1>3. buf \in Bytes /\ pos \in Nat /\ Set(r, Fetching(job[r], bs, buf, k, pos))
  BY <1>2
<1> HIDE DEF j, k, bs, l, buf, pos
<1> QED BY <1>1, <1>2, <1>3, FetchType

(* Whole parts and the rest of a buffer.                                   *)
LEMMA CutFacts ==
  ASSUME NEW buf \in Bytes, NEW c \in Nat, c * MinPart <= Len(buf)
  PROVE  /\ Cut(buf, c) \in Seq(Bytes) /\ Len(Cut(buf, c)) = c
         /\ \A i \in 1..c : Len(Cut(buf, c)[i]) = MinPart
         /\ Beyond(buf, c) \in Bytes /\ Len(Beyond(buf, c)) = Len(buf) - c * MinPart
         /\ FlattenSeq(Cut(buf, c)) \o Beyond(buf, c) = buf
<1> DEFINE S == Nat \ {0}
<1>1. MinPart \in Nat \ {0} /\ buf \in Seq(S)
  BY ObjectAssumption DEF Bytes
<1>2. Len(Cut(buf, c)) = c
  BY DEF Cut
<1> HIDE DEF S
<1>3. /\ Cut(buf, c) \in Seq(Seq(S)) /\ \A i \in 1..c : Len(Cut(buf, c)[i]) = MinPart
      /\ Beyond(buf, c) \in Seq(S) /\ Len(Beyond(buf, c)) = Len(buf) - c * MinPart
      /\ FlattenSeq(Cut(buf, c)) \o Beyond(buf, c) = buf
  BY <1>1, FlattenPieces DEF Cut, Beyond
<1> QED BY <1>2, <1>3 DEF S, Bytes

(* How many whole parts a buffer of n bytes has, and how many are cut off  *)
(* it when a last part must be left.                                       *)
LEMMA DivFacts ==
  ASSUME NEW n \in Nat
  PROVE  /\ n \div MinPart \in Nat /\ (n \div MinPart) * MinPart <= n
         /\ n - (n \div MinPart) * MinPart < MinPart
         /\ n < MinPart => n \div MinPart = 0
<1>1. MinPart \in Nat \ {0}
  BY ObjectAssumption
<1> DEFINE m == MinPart
           q == n \div m
<1>2. m \in Nat \ {0}
  BY <1>1
<1> HIDE DEF m
<1>3. q \in Nat /\ m * q <= n /\ n - m * q < m
  BY <1>2, Z3
<1>4. n < m => q = 0
  BY <1>2, Z3
<1>5. q * m = m * q
  <2> HIDE DEF q
  <2> QED BY <1>2, <1>3
<1> QED BY <1>3, <1>4, <1>5 DEF m

(* One read of a source, as whole parts and the rest.                      *)
Pieces(r, n, c, buf, blocks) ==
  LET j == job[r]
      eof == j.pos = Len(Source(r))
      end == eof /\ LastSource(r)
      rest == Beyond(buf, c)
  IN /\ IF eof THEN n = 0 ELSE n > 0 /\ j.pos + n <= Len(Source(r))
     /\ buf = j.buf \o SubSeq(Source(r), j.pos + 1, j.pos + n)
     /\ blocks = j.blocks \o Cut(buf, c) /\ c * MinPart <= Len(buf) /\ rest \in Bytes
     /\ ~end =>
          /\ c = Len(buf) \div MinPart /\ Len(rest) < MinPart /\ Goto(r, "fetch")
          /\ Set(r, Fetching(j, blocks, rest, IF eof THEN j.k + 1 ELSE j.k,
                             IF eof THEN 0 ELSE j.pos + n))
     /\ end =>
          /\ Len(buf) > 0 => rest # <<>>
          /\ Len(buf) < MinPart => c = 0
          /\ Goto(r, "commit")
          /\ Set(r, Fetching(j, IF rest = <<>> /\ blocks # <<>> THEN blocks
                                ELSE Append(blocks, rest), <<>>, j.k, j.pos))

LEMMA PieceFacts ==
  ASSUME TypeInv, NEW r \in Reqs, FetchPiece(r)
  PROVE  \E n \in Nat, c \in Nat, buf \in Bytes, blocks \in Seq(Bytes) : Pieces(r, n, c, buf, blocks)
<1> DEFINE j == job[r]
           s == Source(r)
           eof == j.pos = Len(s)
           end == eof /\ LastSource(r)
<1>1. pc[r] = "fetch" /\ s # Absent
  BY DEF FetchPiece
<1>2. /\ j \in Jobs /\ s \in Bytes /\ Len(s) \in Nat /\ j.buf \in Bytes /\ j.blocks \in Seq(Bytes)
      /\ j.pos \in Nat /\ j.k \in Nat
  <2>1. j \in Jobs /\ s \in Bytes
    BY <1>1, SourceFetched
  <2>2. j.buf \in Bytes /\ j.blocks \in Seq(Bytes) /\ j.pos \in Nat /\ j.k \in Nat
    BY <2>1 DEF Jobs
  <2> QED BY <2>1, <2>2, LenProperties DEF Bytes
<1> DEFINE got(n) == j.buf \o SubSeq(s, j.pos + 1, j.pos + n)
           cut(n) == IF end /\ Len(got(n)) > 0 THEN (Len(got(n)) - 1) \div MinPart
                     ELSE Len(got(n)) \div MinPart
           bs(n) == j.blocks \o Cut(got(n), cut(n))
           rest(n) == Beyond(got(n), cut(n))
<1>3. PICK n \in 0..Piece :
        /\ IF eof THEN n = 0 ELSE n > 0 /\ j.pos + n <= Len(s)
        /\ IF ~end
           THEN Set(r, [j EXCEPT !.pos = IF eof THEN 0 ELSE @ + n, !.k = IF eof THEN @ + 1 ELSE @,
                          !.buf = rest(n), !.blocks = bs(n)])
           ELSE Set(r, [j EXCEPT !.buf = <<>>,
                          !.blocks = IF rest(n) = <<>> /\ bs(n) # <<>> THEN bs(n)
                                     ELSE Append(bs(n), rest(n))])
        /\ IF end THEN Goto(r, "commit") ELSE UNCHANGED pc
  BY DEF FetchPiece
<1> DEFINE buf == got(n)
           c == cut(n)
           blocks == bs(n)
           left == rest(n)
<1>4. n \in Nat
  BY <1>3, ObjectAssumption
<1>5. buf \in Bytes /\ Len(buf) \in Nat
  <2> DEFINE S == Nat \ {0}
  <2>1. /\ s \in Seq(S) /\ j.buf \in Seq(S) /\ j.pos \in Nat
        /\ n = 0 \/ j.pos + n <= Len(s)
    BY <1>2, <1>3 DEF Bytes
  <2> HIDE DEF S, s, j
  <2>2. SubSeq(s, j.pos + 1, j.pos + n) \in Seq(S)
    BY <1>2, <1>4, <2>1
  <2>3. j.buf \o SubSeq(s, j.pos + 1, j.pos + n) \in Seq(S)
    BY <2>1, <2>2, ConcatProperties
  <2> QED BY <2>3, LenProperties DEF S, Bytes
<1> DEFINE b == Len(buf)
<1>6. /\ c \in Nat /\ c * MinPart <= b
      /\ ~end => b - c * MinPart < MinPart /\ c = b \div MinPart
      /\ end /\ b > 0 => b - c * MinPart > 0
      /\ end /\ b < MinPart => c = 0
  <2> DEFINE e == end
  <2>1. c = IF e /\ b > 0 THEN (b - 1) \div MinPart ELSE b \div MinPart
    OBVIOUS
  <2>2. MinPart \in Nat \ {0} /\ b \in Nat
    BY <1>5, ObjectAssumption
  <2> HIDE DEF e, b, c
  <2>3. CASE e /\ b > 0
    <3> DEFINE m == b - 1
               q == m \div MinPart
    <3>1. m \in Nat /\ b = m + 1 /\ c = q
      BY <2>1, <2>2, <2>3
    <3> HIDE DEF m
    <3>2. q \in Nat /\ q * MinPart <= m /\ (m < MinPart => q = 0)
      BY <3>1, DivFacts
    <3> DEFINE p == q * MinPart
    <3>3. p \in Nat /\ p <= m /\ p = c * MinPart
      BY <2>2, <3>1, <3>2
    <3> HIDE DEF p, q
    <3>4. p <= b /\ b - p > 0 /\ (b < MinPart => m < MinPart)
      BY <2>2, <3>1, <3>3
    <3> QED BY <2>3, <3>1, <3>2, <3>3, <3>4 DEF e, b
  <2>4. CASE ~(e /\ b > 0)
    <3> DEFINE q == b \div MinPart
    <3>1. c = q
      BY <2>1, <2>4
    <3>2. q \in Nat /\ q * MinPart <= b /\ b - q * MinPart < MinPart /\ (b < MinPart => q = 0)
      BY <2>2, DivFacts
    <3> HIDE DEF q
    <3>3. c \in Nat /\ c * MinPart <= b /\ b - c * MinPart < MinPart /\ (b < MinPart => c = 0)
      BY <3>1, <3>2
    <3> QED BY <2>4, <3>1, <3>3 DEF q, e, b
  <2> QED BY <2>3, <2>4
<1> HIDE DEF c, buf
<1>7. /\ Cut(buf, c) \in Seq(Bytes) /\ Beyond(buf, c) \in Bytes
      /\ Len(Beyond(buf, c)) = b - c * MinPart
  BY <1>5, <1>6, CutFacts
<1>8. /\ ~end => Len(Beyond(buf, c)) < MinPart
      /\ end /\ b > 0 => Beyond(buf, c) # <<>>
  <2> DEFINE u == Beyond(buf, c)
  <2>1. /\ ~end => Len(u) < MinPart
        /\ end /\ b > 0 => Len(u) > 0
    BY <1>6, <1>7
  <2> HIDE DEF u, end, b
  <2>2. Len(u) > 0 => u # <<>>
    OBVIOUS
  <2> QED BY <2>1, <2>2 DEF u, end
<1>9. left = Beyond(buf, c) /\ blocks = j.blocks \o Cut(buf, c)
  BY DEF buf, c
<1>10. blocks \in Seq(Bytes)
  <2> HIDE DEF Bytes, j, blocks
  <2> QED BY <1>2, <1>7, <1>9, ConcatProperties
<1> HIDE DEF blocks, left
<1>11. ~end => /\ Goto(r, "fetch")
               /\ Set(r, Fetching(j, blocks, left, IF eof THEN j.k + 1 ELSE j.k,
                                  IF eof THEN 0 ELSE j.pos + n))
  <2>1. ~end => Goto(r, "fetch")
    BY <1>1, <1>3 DEF Goto, TypeInv, Placed
  <2>2. ~end => Set(r, [j EXCEPT !.pos = IF eof THEN 0 ELSE @ + n, !.k = IF eof THEN @ + 1 ELSE @,
                          !.buf = left, !.blocks = blocks])
    BY <1>3 DEF blocks, left
  <2>3. [j EXCEPT !.pos = IF eof THEN 0 ELSE @ + n, !.k = IF eof THEN @ + 1 ELSE @,
                  !.buf = left, !.blocks = blocks]
         = Fetching(j, blocks, left, IF eof THEN j.k + 1 ELSE j.k, IF eof THEN 0 ELSE j.pos + n)
    <3> HIDE DEF j, s
    <3> QED BY <1>2 DEF Jobs, Fetching
  <2> HIDE DEF end, eof
  <2> QED BY <2>1, <2>2, <2>3
<1>12. end => /\ Goto(r, "commit")
              /\ Set(r, Fetching(j, IF left = <<>> /\ blocks # <<>> THEN blocks
                                    ELSE Append(blocks, left), <<>>, j.k, j.pos))
  <2> DEFINE new == IF left = <<>> /\ blocks # <<>> THEN blocks ELSE Append(blocks, left)
  <2>1. end => Goto(r, "commit")
    BY <1>3
  <2>2. end => Set(r, [j EXCEPT !.buf = <<>>, !.blocks = new])
    BY <1>3 DEF blocks, left
  <2> HIDE DEF new, end
  <2>3. [j EXCEPT !.buf = <<>>, !.blocks = new] = Fetching(j, new, <<>>, j.k, j.pos)
    <3> HIDE DEF j
    <3> QED BY <1>2 DEF Jobs, Fetching
  <2> QED BY <2>1, <2>2, <2>3 DEF new
<1>13. buf = j.buf \o SubSeq(s, j.pos + 1, j.pos + n)
  BY DEF buf
<1>14. Pieces(r, n, c, buf, blocks)
  <2>1. IF eof THEN n = 0 ELSE n > 0 /\ j.pos + n <= Len(s)
    BY <1>3
  <2> QED BY <1>6, <1>7, <1>8, <1>9, <1>11, <1>12, <1>13, <2>1 DEF Pieces
<1> QED BY <1>4, <1>5, <1>6, <1>10, <1>14

LEMMA FetchPieceType == ASSUME TypeInv, NEW r \in Reqs, FetchPiece(r) PROVE TypeInv'
<1> DEFINE j == job[r]
           eof == j.pos = Len(Source(r))
           end == eof /\ LastSource(r)
<1>1. /\ pc[r] = "fetch" /\ Source(r) # Absent /\ objs' = objs /\ UNCHANGED <<outside, owner>>
  BY DEF FetchPiece
<1>2. /\ j \in Jobs /\ j.k \in 1..Len(j.src) /\ Len(j.src) \in Nat /\ j.k \in Nat /\ j.pos \in Nat
  BY <1>1, SourceFetched DEF Jobs
<1>3. PICK n \in Nat, c \in Nat, buf \in Bytes, blocks \in Seq(Bytes) : Pieces(r, n, c, buf, blocks)
  BY PieceFacts
<1>4. CASE ~end
  <2> DEFINE k == IF eof THEN j.k + 1 ELSE j.k
             pos == IF eof THEN 0 ELSE j.pos + n
             rest == Beyond(buf, c)
  <2>1. k \in Nat /\ pos \in Nat /\ k \in 1..Len(j.src)
    BY <1>2, <1>4 DEF LastSource
  <2>2. Goto(r, "fetch") /\ Set(r, Fetching(job[r], blocks, rest, k, pos)) /\ rest \in Bytes
    BY <1>3, <1>4 DEF Pieces
  <2> HIDE DEF k, pos, rest
  <2> QED BY <1>1, <2>1, <2>2, FetchType
<1>5. CASE end
  <2> DEFINE rest == Beyond(buf, c)
             new == IF rest = <<>> /\ blocks # <<>> THEN blocks ELSE Append(blocks, rest)
             k == j.k
             pos == j.pos
             none == <<>>
  <2>1. Goto(r, "commit") /\ Set(r, Fetching(job[r], new, none, k, pos)) /\ rest \in Bytes
    BY <1>3, <1>5 DEF Pieces
  <2>2. new \in Seq(Bytes)
    <3> HIDE DEF Bytes, rest
    <3> QED BY <2>1, AppendProperties
  <2>3. none \in Bytes /\ k \in Nat /\ pos \in Nat
    BY <1>2, EmptySeq DEF Bytes
  <2> HIDE DEF rest, new, k, pos, none
  <2> QED BY <1>1, <2>1, <2>2, <2>3, FetchType
<1> QED BY <1>4, <1>5

LEMMA CommitType == ASSUME TypeInv, NEW r \in Reqs, Commit(r) PROVE TypeInv'
<1> DEFINE next == IF job[r].dest = "data" THEN job[r].back ELSE "group"
<1>1. /\ pc[r] = "commit" /\ ~Refused(r) /\ objs' = Effect(r) /\ UNCHANGED <<outside, owner>>
      /\ job[r] \in Jobs /\ CombineFits("commit", job[r]) /\ Active(r)
  BY OpFacts DEF Commit, Fits, Active
<1>2. CombineFits("erase", job[r]) /\ job[r].src # <<>>
  BY <1>1 DEF CombineFits, Grouped
<1>3. ObjsOK'
  BY <1>1, CommitObjs
<1>4. CASE cloud = "gcs"
  <2>1. Goto(r, next) /\ job' = job
    BY <1>4 DEF Commit
  <2>2. Fits(next, job[r]) /\ next \in Labels /\ next # "lock"
    BY <1>1, <1>2, CombinedFits
  <2> HIDE DEF next
  <2> QED BY <1>1, <1>3, <2>1, <2>2, GotoType, OutsideSame
<1>5. CASE cloud # "gcs"
  <2> DEFINE j == [job[r] EXCEPT !.todo = job[r].src, !.then = next]
  <2>1. Goto(r, "erase") /\ Set(r, j)
    BY <1>5 DEF Commit
  <2>2. job[r].src \in Seq(Keys) /\ next \in Labels
    <3>1. job[r].src \in Seq(Blobs)
      BY <1>1 DEF Jobs
    <3> QED BY <1>1, <1>2, <3>1, CombinedFits, KeyFacts, SeqMonotonic
  <2>3. /\ j \in Jobs /\ j.op = job[r].op /\ j.todo = job[r].src /\ j.then = next
        /\ j.src = job[r].src /\ j.dest = job[r].dest /\ j.back = job[r].back
        /\ j.level = job[r].level /\ j.made = job[r].made /\ j.tmps = job[r].tmps
        /\ j.info = job[r].info
    BY <1>1, <2>2 DEF Jobs
  <2> HIDE DEF j
  <2>4. CombineFits("erase", j)
    BY <1>2, <2>3 DEF CombineFits, Grouped, Usable, Origin
  <2>5. j.todo \in Seq(ToSet(j.src))
    <3> DEFINE s == job[r].src
    <3>1. s \in Seq(Blobs)
      BY <1>1 DEF Jobs
    <3> HIDE DEF s
    <3>2. s \in Seq(ToSet(s))
      BY <3>1, SeqDef, LenProperties DEF ToSet
    <3> QED BY <2>3, <3>2 DEF s
  <2>6. EraseFits(j)
    BY <1>2, <2>3, <2>4, <2>5 DEF EraseFits
  <2>7. Fits("erase", j) /\ "erase" \in Labels
    BY <2>6 DEF Fits, Labels, Calls
  <2> QED BY <1>1, <1>3, <2>1, <2>3, <2>7, StepType, OutsideSame
<1> QED BY <1>4, <1>5

-----------------------------------------------------------------------------
(* Typing: the handlers.                                                   *)

LEMMA PostArriveType ==
  ASSUME TypeInv, NEW r \in Reqs, NEW size \in Sizes, NEW kind \in Kinds,
         PostArrive(r, size, kind)
  PROVE  TypeInv'
<1> DEFINE v == [size |-> size, offset |-> 0, final |-> kind = "final"]
           then == IF kind = "final" THEN "concat" ELSE "body"
           j == [Blank EXCEPT !.op = "post", !.key = "info", !.value = v, !.then = then]
<1>1. /\ pc[r] = "idle" /\ life = "new" /\ life' = "made"
      /\ pc' = [pc EXCEPT ![r] = "put"] /\ job' = [job EXCEPT ![r] = j]
      /\ objs' = objs /\ owner' = owner /\ told' = told /\ finished' = finished
      /\ faults' = faults /\ cloud' = cloud /\ given' = given
  BY DEF PostArrive, Goto, Set
<1>2. v \in Infos
  <2>1. size \in Nat \union {NoLen}
    BY ObjectAssumption
  <2> QED BY <2>1 DEF Infos
<1> HIDE DEF v
<1>3. /\ j \in Jobs /\ j.op = "post" /\ j.key = "info" /\ j.then = then /\ j.value = v
      /\ j.made = <<>> /\ j.tmps = 0 /\ then \in {"concat", "body"}
  <2>1. then \in Labels /\ "info" \in Keys /\ v \in Infos \union Bytes
    BY <1>2, KeyFacts DEF Labels
  <2>2. Blank \in Jobs /\ Blank.made = <<>> /\ Blank.tmps = 0
    BY BlankFits DEF Blank
  <2> QED BY <2>1, <2>2 DEF Jobs
<1> HIDE DEF j, then
<1>4. Fits("put", j)
  BY <1>2, <1>3 DEF Fits, PutFits
<1>5. Moves(r) /\ pc'[r] = "put" /\ job'[r] = j
  BY <1>1, <1>3, <1>4 DEF Moves, TypeInv, Placed, Labels, Calls
<1>6. ObjsOK' /\ Placed'
  BY <1>1, <1>5, PlacedKeeps, ObjsSame
<1>7. Order'
  <2>1. \A q \in Reqs : q # r => pc'[q] = "idle" /\ job'[q].op = "none"
    BY <1>1, <1>5, OpFacts DEF Moves, TypeInv, Order
  <2>2. \A q \in Reqs : owner' # q
    BY <1>1 DEF TypeInv, Order, Active
  <2> QED BY <1>1, <1>3, <1>5, <2>1, <2>2 DEF Order, Active
<1> QED BY <1>1, <1>6, <1>7 DEF TypeInv, Counters

LEMMA ArriveType ==
  ASSUME TypeInv, NEW r \in Reqs, NEW op \in {"patch", "get", "delete"}, NEW at \in Nat,
         NEW n \in Nat, Arrive(r, op, at, n)
  PROVE  TypeInv'
<1> DEFINE j == [Blank EXCEPT !.op = op, !.at = at, !.n = n]
<1>1. /\ pc[r] = "idle" /\ life \in {"known", "doomed", "gone"}
      /\ pc' = [pc EXCEPT ![r] = "lock"] /\ job' = [job EXCEPT ![r] = j]
      /\ objs' = objs /\ owner' = owner /\ life' = life /\ UNCHANGED <<outside, owner>>
  BY DEF Arrive, Goto, Set, outside
<1>2. j \in Jobs /\ j.op = op
  BY BlankFits DEF Jobs
<1> HIDE DEF j
<1>3. Fits("lock", j)
  BY <1>2 DEF Fits
<1>4. Moves(r) /\ pc'[r] = "lock" /\ job'[r] = j
  BY <1>1, <1>2, <1>3 DEF Moves, TypeInv, Placed, Labels
<1>5. ObjsOK' /\ Placed' /\ Counters'
  BY <1>1, <1>4, PlacedKeeps, ObjsSame, OutsideSame
<1>6. Order'
  <2>1. \A q \in Reqs : q # r => pc'[q] = pc[q] /\ job'[q] = job[q]
    BY <1>4 DEF Moves
  <2>2. \A q \in Reqs : job[q].op # "post"
    BY <1>1 DEF TypeInv, Order
  <2> QED BY <1>1, <1>2, <1>4, <2>1, <2>2 DEF TypeInv, Order, Active
<1> QED BY <1>5, <1>6 DEF TypeInv

LEMMA LockType == ASSUME TypeInv, NEW r \in Reqs, Lock(r) PROVE TypeInv'
<1>1. /\ pc[r] = "lock" /\ owner = NoReq /\ owner' = r
      /\ pc' = [pc EXCEPT ![r] = "load"] /\ job' = job /\ objs' = objs /\ life' = life
      /\ told' = told /\ finished' = finished /\ faults' = faults /\ cloud' = cloud
      /\ given' = given
  BY DEF Lock, Goto, outside
<1>2. Fits("load", job[r])
  BY <1>1, OpFacts DEF Fits
<1>3. Moves(r) /\ pc'[r] = "load"
  BY <1>1, <1>2 DEF Moves, TypeInv, Placed, Labels
<1>4. ObjsOK' /\ Placed'
  BY <1>1, <1>3, PlacedKeeps, ObjsSame
<1>5. Order'
  <2>1. \A q \in Reqs : q # r => pc'[q] = pc[q]
    BY <1>3 DEF Moves
  <2>2. \A q \in Reqs : owner # q
    BY <1>1, AbsentFacts
  <2> QED BY <1>1, <1>3, <2>1, <2>2 DEF TypeInv, Order, Active
<1> QED BY <1>1, <1>4, <1>5 DEF TypeInv, Counters

LEMMA InfoFacts ==
  ASSUME TypeInv, Found
  PROVE  /\ Info \in Infos /\ Info.size \in Nat \union {NoLen} /\ Info.offset \in Nat
         /\ Info.final \in BOOLEAN
<1>1. Info \in Infos
  BY DEF TypeInv, ObjsOK, Found, Info
<1> QED BY <1>1 DEF Infos

(* The handler puts an object, and goes on at l when that is done.         *)
Putting(j, key, value, l) == [j EXCEPT !.key = key, !.value = value, !.then = l]

LEMMA PuttingFacts ==
  ASSUME NEW j \in Jobs, NEW key \in Keys, NEW value \in Infos \union Bytes, NEW l \in Labels
  PROVE  LET i == Putting(j, key, value, l)
         IN /\ i \in Jobs /\ i.op = j.op /\ i.key = key /\ i.value = value /\ i.then = l
            /\ i.info = j.info /\ i.made = j.made /\ i.tmps = j.tmps /\ i.at = j.at /\ i.n = j.n
            /\ i.back = j.back
BY DEF Jobs, Putting

LEMMA WriteType ==
  ASSUME TypeInv, NEW r \in Reqs, Active(r), NEW key \in Keys, NEW value \in Infos \union Bytes,
         NEW l \in Labels, Goto(r, "put"), Set(r, Putting(job[r], key, value, l)),
         PutFits(Putting(job[r], key, value, l)), objs' = objs, UNCHANGED <<owner, outside>>
  PROVE  TypeInv'
<1> DEFINE j == job[r]
           i == Putting(j, key, value, l)
<1>1. j \in Jobs
  BY DEF TypeInv, Placed
<1>2. i \in Jobs /\ i.op = j.op
  BY <1>1, PuttingFacts
<1>3. Fits("put", i) /\ "put" \in Labels /\ Set(r, i)
  BY DEF Fits, Labels, Calls
<1> HIDE DEF i
<1> QED BY <1>2, <1>3, StepType, ObjsSame, OutsideSame

LEMMA ConcatenateType == ASSUME TypeInv, NEW r \in Reqs, Concatenate(r) PROVE TypeInv'
<1> DEFINE j == [job[r] EXCEPT !.level = SourceNames, !.back = "total"]
<1>1. /\ pc[r] = "concat" /\ Fits("concat", job[r]) /\ Active(r) /\ job[r] \in Jobs
      /\ Set(r, j) /\ Goto(r, "group") /\ objs' = objs /\ UNCHANGED <<outside, owner>>
  BY OpFacts DEF Concatenate, Active
<1>2. SourceNames \in Seq(Blobs) /\ SourceNames # <<>>
  BY KeyFacts, SourceFacts, SeqMonotonic
<1>3. /\ j \in Jobs /\ j.op = job[r].op /\ j.level = SourceNames /\ j.back = "total"
      /\ j.made = job[r].made /\ j.tmps = job[r].tmps
  <2>1. /\ j.op = job[r].op /\ j.level = SourceNames /\ j.back = "total"
        /\ j.made = job[r].made /\ j.tmps = job[r].tmps
    BY <1>1 DEF Jobs
  <2>2. j \in Jobs
    BY <1>1, <1>2 DEF Jobs, Labels
  <2> QED BY <2>1, <2>2
<1>4. j.op = "post" /\ j.made = <<>> /\ j.tmps = 0
  BY <1>1, <1>3 DEF Fits
<1> HIDE DEF j
<1>5. Sources \subseteq Usable(j, 0) /\ 0 \in 0..Len(TmpNames)
  BY <1>3, TmpFacts DEF Usable, Origin
<1>6. SourceNames \in Seq(Usable(j, 0)) /\ <<>> \in Seq(Made(0))
  BY <1>5, SourceFacts, SeqMonotonic, EmptySeq
<1>7. Pending(j) # <<>>
  BY <1>2, <1>3 DEF Pending
<1>8. Fits("group", j)
  BY <1>3, <1>4, <1>5, <1>6, <1>7 DEF Fits, CombineFits
<1> QED BY <1>1, <1>3, <1>8, StepType, ObjsSame, OutsideSame DEF Labels

LEMMA TakePartialType ==
  ASSUME TypeInv, NEW r \in Reqs, NEW s \in given, TakePartial(r, s)
  PROVE  TypeInv'
<1>1. /\ objs' = [objs EXCEPT ![s] = Absent] /\ given' = given \ {s} /\ pc' = pc /\ job' = job
      /\ UNCHANGED <<cloud, owner, life, told, finished, faults>>
  BY DEF TakePartial
<1>2. s \in Keys /\ s # "info"
  BY KeyFacts DEF TypeInv, Counters
<1>3. ObjsOK'
  BY <1>1, <1>2, ObjChanges
<1>4. Placed' /\ Order'
  BY <1>1 DEF TypeInv, Placed, Order, Active
<1> QED BY <1>1, <1>3, <1>4 DEF TypeInv, Counters

LEMMA FinalLenType == FinalLen \in Nat
<1>1. SourceBytes \in Seq(Seq(Nat \ {0}))
  BY ObjectAssumption
<1>2. FlattenSeq(SourceBytes) \in Seq(Nat \ {0})
  BY <1>1, FlattenFacts
<1> QED BY <1>2, LenProperties DEF FinalLen

LEMMA SaveTotalType == ASSUME TypeInv, NEW r \in Reqs, SaveTotal(r) PROVE TypeInv'
<1> DEFINE v == [size |-> FinalLen, offset |-> FinalLen, final |-> TRUE]
           key == "info"
           l == "body"
           i == Putting(job[r], key, v, l)
<1>1. /\ pc[r] = "total" /\ Fits("total", job[r]) /\ Active(r) /\ job[r] \in Jobs
      /\ Set(r, i) /\ Goto(r, "put") /\ objs' = objs /\ UNCHANGED <<outside, owner>>
  BY OpFacts DEF SaveTotal, Active, Write, Putting
<1>2. v \in Infos /\ v \in Infos \union Bytes
  BY FinalLenType DEF Infos
<1>3. key \in Keys /\ l \in Labels
  BY KeyFacts DEF Labels
<1> HIDE DEF v
<1>4. i.op = job[r].op /\ i.key = key /\ i.value = v /\ i.then = l
  BY <1>1, <1>2, <1>3, PuttingFacts
<1>5. PutFits(i)
  BY <1>1, <1>2, <1>4 DEF PutFits, Fits
<1> HIDE DEF key, l
<1> QED BY <1>1, <1>2, <1>3, <1>5, WriteType

(* Steps that only move on.                                                *)
LEMMA PlainType ==
  ASSUME TypeInv, NEW r \in Reqs, PostNoBody(r) \/ LoadPatch(r) \/ PreFinish(r)
  PROVE  TypeInv'
<1>1. /\ Active(r) /\ job' = job /\ Fits(pc[r], job[r]) /\ objs' = objs
      /\ UNCHANGED <<owner, outside>>
  BY OpFacts DEF PostNoBody, LoadPatch, PreFinish, Active
<1>2. \E l \in {"reread", "chunk", "declare", "parts"} : Goto(r, l) /\ Fits(l, job[r])
  <2>1. CASE PostNoBody(r)
    BY <1>1, <2>1 DEF PostNoBody, Fits
  <2>2. CASE LoadPatch(r)
    BY <1>1, <2>2 DEF LoadPatch, Fits
  <2>3. CASE PreFinish(r)
    BY <1>1, <2>3 DEF PreFinish, Fits
  <2> QED BY <2>1, <2>2, <2>3
<1> QED BY <1>1, <1>2, GotoType, ObjsSame, OutsideSame DEF Labels

LEMMA PostBodyType ==
  ASSUME TypeInv, NEW r \in Reqs, NEW n \in Nat, PostBody(r, n)
  PROVE  TypeInv'
<1> DEFINE j == [job[r] EXCEPT !.n = n]
<1>1. /\ pc[r] = "body" /\ Active(r) /\ Fits("body", job[r]) /\ job[r] \in Jobs
      /\ Set(r, j) /\ Goto(r, "chunk") /\ objs' = objs /\ UNCHANGED <<owner, outside>>
  BY OpFacts DEF PostBody, Active
<1>2. j \in Jobs /\ j.op = job[r].op
  BY <1>1 DEF Jobs
<1> HIDE DEF j
<1>3. Fits("chunk", j)
  BY <1>1, <1>2 DEF Fits
<1> QED BY <1>1, <1>2, <1>3, StepType, ObjsSame, OutsideSame DEF Labels

LEMMA DeclareType ==
  ASSUME TypeInv, NEW r \in Reqs, NEW n \in Nat, Declare(r, n)
  PROVE  TypeInv'
<1> DEFINE v == [Info EXCEPT !.size = n]
           key == "info"
           l == "chunk"
           i == Putting(job[r], key, v, l)
<1>1. /\ pc[r] = "declare" /\ Fits("declare", job[r]) /\ Active(r) /\ job[r] \in Jobs
      /\ Set(r, i) /\ Goto(r, "put") /\ objs' = objs /\ UNCHANGED <<outside, owner>> /\ Found
  BY OpFacts DEF Declare, Active, Write, Putting
<1>2. v \in Infos /\ v \in Infos \union Bytes
  BY <1>1, InfoFacts DEF Infos
<1>3. key \in Keys /\ l \in Labels
  BY KeyFacts DEF Labels
<1> HIDE DEF v
<1>4. i.op = job[r].op /\ i.key = key /\ i.value = v /\ i.then = l
  BY <1>1, <1>2, <1>3, PuttingFacts
<1>5. PutFits(i)
  BY <1>1, <1>2, <1>4 DEF PutFits, Fits
<1> HIDE DEF key, l
<1> QED BY <1>1, <1>2, <1>3, <1>5, WriteType

(* The handler keeps the info it has read.                                 *)
LEMMA KeptInfo ==
  ASSUME NEW j \in Jobs, NEW info \in Infos
  PROVE  LET i == [j EXCEPT !.info = info]
         IN /\ i \in Jobs /\ i.op = j.op /\ i.info = info /\ i.at = j.at /\ i.n = j.n
            /\ i.back = j.back /\ i.made = j.made /\ i.level = j.level /\ i.then = j.then
            /\ i.value = j.value
BY DEF Jobs

LEMMA ReadInfoType ==
  ASSUME TypeInv, NEW r \in Reqs, Active(r), Found, NEW l \in {"list", "finish", "read"},
         l = "read" => job[r].op = "get", l # "read" => job[r].op \in {"post", "patch"},
         Goto(r, l), Set(r, [job[r] EXCEPT !.info = Info]), objs' = objs,
         UNCHANGED <<outside, owner>>
  PROVE  TypeInv'
<1> DEFINE j == [job[r] EXCEPT !.info = Info]
<1>1. job[r] \in Jobs /\ Info \in Infos
  BY OpFacts, InfoFacts
<1>2. j \in Jobs /\ j.op = job[r].op /\ j.info = Info
  BY <1>1 DEF Jobs
<1>3. Set(r, j)
  OBVIOUS
<1> HIDE DEF j
<1>4. Fits(l, j) /\ l \in Labels
  BY <1>1, <1>2 DEF Fits, Labels
<1> QED BY <1>2, <1>3, <1>4, StepType, ObjsSame, OutsideSame

LEMMA ReadChunkType == ASSUME TypeInv, NEW r \in Reqs, ReadChunk(r) PROVE TypeInv'
<1>1. /\ pc[r] = "chunk" /\ Active(r) /\ Fits("chunk", job[r])
  BY OpFacts DEF ReadChunk, Active
<1>2. job[r].op \in {"post", "patch"}
  BY <1>1 DEF Fits
<1> QED BY <1>1, <1>2, ReadInfoType DEF ReadChunk

LEMMA ChunkFacts ==
  ASSUME NEW at \in Nat, NEW n \in Nat
  PROVE  /\ Chunk(at, n) \in Bytes /\ Len(Chunk(at, n)) = n
         /\ \A i \in 1..n : Chunk(at, n)[i] = at + i
         /\ Whole(n) \in Bytes /\ Len(Whole(n)) = n
         /\ \A i \in 1..n : Whole(n)[i] = i
BY DEF Chunk, Whole, Bytes

LEMMA WritePartType == ASSUME TypeInv, NEW r \in Reqs, WritePart(r) PROVE TypeInv'
<1> DEFINE v == Chunk(job[r].at, job[r].n)
           key == PartNames[Len(ListParts) + 1]
           l == "save"
           i == Putting(job[r], key, v, l)
<1>1. /\ pc[r] = "list" /\ Fits("list", job[r]) /\ Active(r) /\ job[r] \in Jobs
      /\ Set(r, i) /\ Goto(r, "put") /\ objs' = objs /\ UNCHANGED <<outside, owner>>
      /\ Len(ListParts) < Len(PartNames)
  BY OpFacts DEF WritePart, Active, Write, Putting
<1>2. v \in Bytes /\ v \in Infos \union Bytes
  BY <1>1, ChunkFacts DEF Jobs
<1>3. key \in Parts /\ key \in Keys /\ l \in Labels
  <2>1. Len(ListParts) \in Nat
    BY ListFacts, LenProperties
  <2>2. Len(ListParts) + 1 \in 1..Len(PartNames)
    BY <1>1, <2>1, PartFacts
  <2> QED BY <2>2, PartFacts, KeyFacts DEF Labels
<1> HIDE DEF v, key
<1>4. i.op = job[r].op /\ i.key = key /\ i.value = v /\ i.then = l /\ i.info = job[r].info
  BY <1>1, <1>2, <1>3, PuttingFacts
<1>5. PutFits(i)
  BY <1>1, <1>2, <1>3, <1>4 DEF PutFits, Fits
<1> HIDE DEF l
<1> QED BY <1>1, <1>2, <1>3, <1>5, WriteType

LEMMA SaveOffsetType == ASSUME TypeInv, NEW r \in Reqs, SaveOffset(r) PROVE TypeInv'
<1> DEFINE v == [job[r].info EXCEPT !.offset = job[r].at + job[r].n]
           key == "info"
           l == "reread"
           i == Putting(job[r], key, v, l)
<1>1. /\ pc[r] = "save" /\ Fits("save", job[r]) /\ Active(r) /\ job[r] \in Jobs
      /\ Set(r, i) /\ Goto(r, "put") /\ objs' = objs /\ UNCHANGED <<outside, owner>>
  BY OpFacts DEF SaveOffset, Active, Write, Putting
<1>2. v \in Infos /\ v \in Infos \union Bytes
  <2>1. job[r].info \in Infos
    BY <1>1 DEF Fits
  <2>2. job[r].at + job[r].n \in Nat
    BY <1>1 DEF Jobs
  <2> QED BY <2>1, <2>2 DEF Infos
<1>3. key \in Keys /\ l \in Labels
  BY KeyFacts DEF Labels
<1> HIDE DEF v
<1>4. i.op = job[r].op /\ i.key = key /\ i.value = v /\ i.then = l
  BY <1>1, <1>2, <1>3, PuttingFacts
<1>5. PutFits(i)
  BY <1>1, <1>2, <1>4 DEF PutFits, Fits
<1> HIDE DEF key, l
<1> QED BY <1>1, <1>2, <1>3, <1>5, WriteType

LEMMA TellFacts == ASSUME told \in Nat, NEW n \in Nat, Tell(n) PROVE told' \in Nat /\ told <= told'
BY DEF Tell

LEMMA Freed == ASSUME TypeInv, NEW r \in Reqs, Unlock(r) PROVE owner' \in Reqs \union {NoReq}
BY DEF TypeInv, Counters, Unlock

LEMMA RereadType == ASSUME TypeInv, NEW r \in Reqs, Reread(r) PROVE TypeInv'
<1>1. /\ pc[r] = "reread" /\ Fits("reread", job[r]) /\ Active(r) /\ Found /\ objs' = objs
      /\ UNCHANGED <<cloud, given, finished, faults>>
  BY OpFacts DEF Reread, Active
<1>2. job[r].op \in {"post", "patch"}
  BY <1>1 DEF Fits
<1>3. CASE IsComplete(Info)
  <2>1. Set(r, [job[r] EXCEPT !.info = Info]) /\ Goto(r, "finish") /\ UNCHANGED <<owner, life, told>>
    BY <1>3 DEF Reread
  <2> QED BY <1>1, <1>2, <2>1, ReadInfoType DEF outside
<1>4. CASE ~IsComplete(Info)
  <2>1. End(r) /\ Tell(Info.offset) /\ life' = IF life = "made" THEN "known" ELSE life
    BY <1>4 DEF Reread
  <2>2. told' \in Nat
    BY <1>1, <2>1, InfoFacts, TellFacts DEF TypeInv, Counters
  <2>3. Counters'
    BY <1>1, <2>1, <2>2, Freed DEF TypeInv, Counters, End
  <2> QED BY <1>1, <2>1, <2>3, Ends, ObjsSame DEF Active
<1> QED BY <1>3, <1>4

LEMMA FinalizeType == ASSUME TypeInv, NEW r \in Reqs, Finalize(r) PROVE TypeInv'
<1>1. /\ pc[r] = "parts" /\ Fits("parts", job[r]) /\ Active(r) /\ job[r] \in Jobs
      /\ objs' = objs /\ UNCHANGED <<outside, owner>>
  BY OpFacts DEF Finalize, Active
<1>2. job[r].op \in {"post", "patch"} /\ job[r].info \in Infos
  BY <1>1 DEF Fits
<1>3. CASE ListParts = <<>>
  <2> DEFINE v == <<>>
             key == "data"
             l == "done"
             i == Putting(job[r], key, v, l)
  <2>1. Set(r, i) /\ Goto(r, "put")
    BY <1>3 DEF Finalize, Write, Putting
  <2>2. v \in Bytes /\ v \in Infos \union Bytes /\ key \in Keys /\ l \in Labels
    BY EmptySeq, KeyFacts DEF Labels, Bytes
  <2> HIDE DEF v
  <2>3. i.op = job[r].op /\ i.key = key /\ i.value = v /\ i.then = l /\ i.info = job[r].info
    BY <1>1, <2>2, PuttingFacts
  <2>4. PutFits(i)
    BY <1>2, <2>2, <2>3 DEF PutFits
  <2> HIDE DEF key, l
  <2> QED BY <1>1, <2>1, <2>2, <2>4, WriteType
<1>4. CASE ListParts # <<>>
  <2> DEFINE j == [job[r] EXCEPT !.level = ListParts, !.made = <<>>, !.tmps = 0, !.back = "done"]
  <2>1. Set(r, j) /\ Goto(r, "group")
    BY <1>4 DEF Finalize
  <2>2. ListParts \in Seq(Parts) /\ ListParts \in Seq(Blobs) /\ <<>> \in Seq(Blobs)
    BY ListFacts, EmptySeq
  <2>3. /\ j \in Jobs /\ j.op = job[r].op /\ j.level = ListParts /\ j.back = "done"
        /\ j.made = <<>> /\ j.tmps = 0 /\ j.info = job[r].info
    <3>1. /\ DOMAIN job[r] = DOMAIN j /\ j.op = job[r].op /\ j.level = ListParts
          /\ j.back = "done" /\ j.made = <<>> /\ j.tmps = 0 /\ j.info = job[r].info
      BY <1>1 DEF Jobs
    <3>2. 0 \in Nat /\ "done" \in Labels
      BY DEF Labels
    <3>3. j \in Jobs
      BY <1>1, <2>2, <3>2 DEF Jobs
    <3> QED BY <3>1, <3>3
  <2> HIDE DEF j
  <2>4. Parts \subseteq Usable(j, 0) /\ 0 \in 0..Len(TmpNames)
    BY <2>3, TmpFacts DEF Usable, Origin
  <2>5. ListParts \in Seq(Usable(j, 0)) /\ <<>> \in Seq(Made(0))
    BY <2>2, <2>4, SeqMonotonic, EmptySeq
  <2>6. Pending(j) # <<>>
    BY <1>4, <2>3 DEF Pending
  <2>7. Fits("group", j)
    BY <1>2, <2>3, <2>4, <2>5, <2>6 DEF Fits, CombineFits
  <2>8. "group" \in Labels /\ ObjsOK'
    BY <1>1, ObjsSame DEF Labels
  <2> QED BY <1>1, <2>1, <2>3, <2>7, <2>8, StepType, OutsideSame
<1> QED BY <1>3, <1>4

LEMMA DoneType == ASSUME TypeInv, NEW r \in Reqs, Done(r) PROVE TypeInv'
<1>1. /\ pc[r] = "done" /\ Fits("done", job[r]) /\ objs' = objs /\ End(r)
      /\ UNCHANGED <<cloud, given, faults>> /\ finished' = TRUE /\ Tell(job[r].info.offset)
      /\ life' = IF life = "made" THEN "known" ELSE life
  BY OpFacts DEF Done
<1>2. told' \in Nat
  BY <1>1, TellFacts DEF TypeInv, Counters, Fits, Infos
<1>3. Counters'
  BY <1>1, <1>2, Freed DEF TypeInv, Counters, End
<1> QED BY <1>1, <1>3, Ends, ObjsSame

LEMMA HeadType == ASSUME TypeInv, NEW r \in Reqs, HeadRequest(r) PROVE TypeInv'
<1>1. /\ Found /\ Tell(Info.offset) /\ objs' = objs /\ pc' = pc /\ job' = job
      /\ UNCHANGED <<cloud, given, owner, life, finished, faults>>
  BY DEF HeadRequest
<1>2. told' \in Nat
  BY <1>1, InfoFacts, TellFacts DEF TypeInv, Counters
<1>3. Placed' /\ Order'
  BY <1>1 DEF TypeInv, Placed, Order, Active
<1> QED BY <1>1, <1>2, <1>3, ObjsSame DEF TypeInv, Counters

LEMMA LoadGetType == ASSUME TypeInv, NEW r \in Reqs, LoadGet(r) PROVE TypeInv'
<1>1. pc[r] = "load" /\ Active(r)
  BY DEF LoadGet, Active
<1> QED BY <1>1, ReadInfoType DEF LoadGet

LEMMA DeleteType == ASSUME TypeInv, NEW r \in Reqs, Delete(r) PROVE TypeInv'
<1> DEFINE todo == <<"data", "info">>
           j == [job[r] EXCEPT !.todo = todo, !.then = "left"]
<1>1. /\ pc[r] = "load" /\ job[r].op = "delete" /\ job[r] \in Jobs /\ Active(r)
      /\ Set(r, j) /\ Goto(r, "erase") /\ objs' = objs /\ life' = "doomed" /\ owner' = owner
      /\ UNCHANGED <<cloud, given, told, finished, faults>>
  BY OpFacts DEF Delete, Active
<1>2. todo \in Seq(Keys) /\ todo # <<>>
  BY KeyFacts
<1> HIDE DEF todo
<1>3. j \in Jobs /\ j.op = job[r].op /\ j.todo = todo /\ j.then = "left"
  BY <1>1, <1>2 DEF Jobs, Labels
<1> HIDE DEF j
<1>4. Fits("erase", j) /\ "erase" \in Labels
  BY <1>1, <1>2, <1>3 DEF Fits, EraseFits, Labels, Calls
<1>5. Counters'
  BY <1>1 DEF TypeInv, Counters
<1>6. life # "made"
  BY <1>1 DEF TypeInv, Order
<1> QED BY <1>1, <1>3, <1>4, <1>5, <1>6, StepType, ObjsSame

LEMMA DeletePartsType == ASSUME TypeInv, NEW r \in Reqs, DeleteParts(r) PROVE TypeInv'
<1>1. /\ pc[r] = "left" /\ job[r].op = "delete" /\ job[r] \in Jobs /\ Active(r) /\ objs' = objs
      /\ UNCHANGED <<outside, owner>>
  BY OpFacts DEF DeleteParts, Active, Fits
<1>2. Counters' /\ life' = life /\ ObjsOK'
  BY <1>1, OutsideSame, ObjsSame
<1>3. CASE ListParts = <<>>
  <2>1. Goto(r, "deleted") /\ job' = job
    BY <1>3 DEF DeleteParts
  <2>2. Fits("deleted", job[r]) /\ "deleted" \in Labels
    BY <1>1 DEF Fits, Labels
  <2> QED BY <1>1, <1>2, <2>1, <2>2, GotoType
<1>4. CASE ListParts # <<>>
  <2> DEFINE j == [job[r] EXCEPT !.todo = ListParts, !.then = "deleted"]
  <2>1. Set(r, j) /\ Goto(r, "erase")
    BY <1>4 DEF DeleteParts
  <2>2. ListParts \in Seq(Keys) /\ "deleted" \in Labels
    BY ListFacts DEF Labels
  <2>3. j \in Jobs /\ j.op = "delete" /\ j.todo = ListParts /\ j.then = "deleted"
    BY <1>1, <2>2 DEF Jobs
  <2> HIDE DEF j
  <2>4. Fits("erase", j) /\ "erase" \in Labels
    BY <1>4, <2>3 DEF Fits, EraseFits, Labels, Calls
  <2> QED BY <1>1, <1>2, <2>1, <2>3, <2>4, StepType
<1> QED BY <1>3, <1>4

LEMMA DeleteUnlistedType == ASSUME TypeInv, NEW r \in Reqs, DeletePartsUnlisted(r) PROVE TypeInv'
<1>1. /\ pc[r] = "left" /\ job[r].op = "delete" /\ Active(r) /\ objs' = objs /\ job' = job
      /\ Goto(r, "deleted") /\ owner' = owner /\ life' = life
      /\ UNCHANGED <<cloud, given, told, finished>> /\ faults' = faults + 1 /\ faults < MaxFaults
  BY OpFacts DEF DeletePartsUnlisted, Active, Fits
<1>2. Counters' /\ ObjsOK'
  BY <1>1, ObjsSame, ObjectAssumption DEF TypeInv, Counters
<1>3. Fits("deleted", job[r]) /\ "deleted" \in Labels
  BY <1>1 DEF Fits, Labels
<1> QED BY <1>1, <1>2, <1>3, GotoType

LEMMA DeletedType == ASSUME TypeInv, NEW r \in Reqs, Deleted(r) PROVE TypeInv'
<1>1. /\ pc[r] = "deleted" /\ job[r].op = "delete" /\ objs' = objs /\ End(r) /\ life' = "gone"
      /\ UNCHANGED <<cloud, given, told, finished, faults>>
  BY OpFacts DEF Deleted, Fits
<1>2. life # "made"
  BY <1>1 DEF TypeInv, Order
<1>3. Counters'
  BY <1>1, Freed DEF TypeInv, Counters, End
<1> QED BY <1>1, <1>2, <1>3, Ends, ObjsSame

(* The handler answers, and nothing else changes.                          *)
LEMMA StopType ==
  ASSUME TypeInv, NEW r \in Reqs, GetRead(r) \/ Fail(r)
  PROVE  TypeInv'
<1>1. pc[r] # "idle" /\ End(r) /\ UNCHANGED <<outside, objs>>
  BY DEF GetRead, Fail, Refused
<1>2. Counters' /\ life' = life
  BY <1>1, Freed DEF TypeInv, Counters, End, outside
<1> QED BY <1>1, <1>2, Ends, ObjsSame

-----------------------------------------------------------------------------
(* Typing is an invariant.                                                 *)

Acts(r) ==
  Put(r) \/ Erase(r) \/ LoseCall(r) \/ Post(r) \/ Patch(r) \/ Combine(r) \/ Others(r) \/ Fail(r)

LEMMA TypeStep == ASSUME TypeInv, [Next]_vars PROVE TypeInv'
<1>1. ASSUME NEW r \in Reqs, Put(r) \/ Erase(r) \/ LoseCall(r) \/ Fail(r) PROVE TypeInv'
  BY <1>1, PutType, EraseType, LoseCallType, StopType
<1>2. ASSUME NEW r \in Reqs, Post(r) PROVE TypeInv'
  <2>1. ASSUME NEW n \in ChunkLens, PostBody(r, n) PROVE TypeInv'
    <3>1. n \in Nat
      BY ObjectAssumption
    <3> QED BY <2>1, <3>1, PostBodyType
  <2> QED BY <1>2, <2>1, PostArriveType, TakePartialType, ConcatenateType, SaveTotalType, PlainType
          DEF Post
<1>3. ASSUME NEW r \in Reqs, Patch(r) PROVE TypeInv'
  <2>1. ASSUME NEW at \in 0..MaxLen, NEW n \in ChunkLens, Arrive(r, "patch", at, n) PROVE TypeInv'
    <3>1. at \in Nat /\ n \in Nat
      BY ObjectAssumption
    <3> QED BY <2>1, <3>1, ArriveType
  <2>2. ASSUME NEW n \in Sizes \ {NoLen}, Declare(r, n) PROVE TypeInv'
    <3>1. n \in Nat
      BY ObjectAssumption
    <3> QED BY <2>2, <3>1, DeclareType
  <2> QED BY <1>3, <2>1, <2>2, PlainType, ReadChunkType, WritePartType, SaveOffsetType, RereadType,
             FinalizeType, DoneType DEF Patch
<1>4. ASSUME NEW r \in Reqs, Combine(r) PROVE TypeInv'
  BY <1>4, NextGroupType, FetchBlockType, FetchPieceType, CommitType DEF Combine
<1>5. ASSUME NEW r \in Reqs, Others(r) PROVE TypeInv'
  BY <1>5, ArriveType, LockType, HeadType, LoadGetType, StopType, DeleteType, DeletePartsType,
     DeleteUnlistedType, DeletedType DEF Others
<1>6. ASSUME UNCHANGED vars PROVE TypeInv'
  BY <1>6 DEF vars, TypeInv, ObjsOK, Counters, Placed, Order, Active
<1> QED BY <1>1, <1>2, <1>3, <1>4, <1>5, <1>6 DEF Next

(* The bytes of a partial, found by its name.                              *)
LEMMA SourceContent ==
  ASSUME NEW s \in Sources
  PROVE  \E i \in 1..Len(SourceNames) :
           s = SourceNames[i] /\ PartialBytes(s) = SourceBytes[i]
<1> DEFINE standing == CHOOSE i \in DOMAIN SourceNames : SourceNames[i] = s
<1>1. PICK i \in 1..Len(SourceNames) : s = SourceNames[i]
  BY SourceFacts
<1>2. standing \in DOMAIN SourceNames /\ SourceNames[standing] = s
  BY <1>1, SourceFacts
<1>3. SourceBytes[standing] = SourceBytes[i]
  BY <1>1, <1>2, SourceFacts, ObjectAssumption
<1> QED BY <1>1, <1>3 DEF PartialBytes

LEMMA InitObjs ==
  ASSUME Init
  PROVE  /\ DOMAIN objs = Keys /\ \A key \in Keys \ Sources : objs[key] = Absent
         /\ \A i \in 1..Len(SourceNames) : objs[SourceNames[i]] = SourceBytes[i]
<1>1. /\ DOMAIN objs = Keys
      /\ \A key \in Keys : objs[key] =
           IF key \in Sources THEN PartialBytes(key) ELSE Absent
  BY DEF Init, Sources
<1>2. ASSUME NEW i \in 1..Len(SourceNames) PROVE objs[SourceNames[i]] = SourceBytes[i]
  <2>1. SourceNames[i] \in Sources /\ SourceNames[i] \in Keys
    BY SourceFacts, KeyFacts
  <2>2. PICK k \in 1..Len(SourceNames) :
          SourceNames[i] = SourceNames[k] /\ objs[SourceNames[i]] = SourceBytes[k]
    BY <1>1, <2>1, SourceContent
  <2>3. SourceBytes[k] = SourceBytes[i]
    BY <2>2, SourceFacts, ObjectAssumption
  <2> QED BY <2>2, <2>3
<1> QED BY <1>1, <1>2

LEMMA TypeInit == Init => TypeInv
<1> SUFFICES ASSUME Init PROVE TypeInv
  OBVIOUS
<1>1. ObjsOK
  <2>1. \A key \in Blobs \ Sources : objs[key] = Absent
    BY InitObjs, KeyFacts
  <2>2. ASSUME NEW key \in Sources PROVE objs[key] \in Bytes
    <3>1. PICK i \in 1..Len(SourceNames) : key = SourceNames[i]
      BY SourceFacts
    <3> QED BY <3>1, InitObjs, SourceFacts
  <2>3. objs["info"] = Absent /\ DOMAIN objs = Keys
    BY InitObjs, KeyFacts
  <2> QED BY <2>1, <2>2, <2>3 DEF ObjsOK
<1>2. \A r \in Reqs : pc[r] = "idle" /\ job[r] = Blank
  BY DEF Init
<1>3. Placed
  BY <1>2, BlankFits DEF Init, Placed, Labels
<1>4. Counters
  <2>1. 0 \in 0..MaxFaults
    BY ObjectAssumption
  <2> QED BY <2>1 DEF Init, Counters, Sources
<1>5. Order
  BY <1>2, BlankFits, AbsentFacts DEF Init, Order, Active
<1> QED BY <1>1, <1>3, <1>4, <1>5 DEF TypeInv

LEMMA TypeInvariance == Spec => []TypeInv
BY TypeInit, TypeStep, PTL DEF Spec

(* Objects, locals and counters have their types in every state, for any   *)
(* values of the constants.                                                *)
THEOREM Typing == Spec => []TypeOK
<1>1. TypeInv => TypeOK
  <2> SUFFICES ASSUME TypeInv PROVE TypeOK
    OBVIOUS
  <2>1. \A r \in Reqs : pc[r] = "idle" <=> job[r] = Blank
    BY OpFacts, BlankFits
  <2>2. \A r \in Reqs : pc[r] = "erase" => job[r].todo # <<>>
    BY OpFacts DEF Fits, EraseFits
  <2>3. pc \in [Reqs -> Labels]
    BY DEF TypeInv, Placed
  <2>4. owner # NoReq => pc[owner] \notin {"idle", "lock"}
    BY DEF TypeInv, Order, Counters, Active
  <2> QED BY <2>1, <2>2, <2>3, <2>4 DEF TypeInv, ObjsOK, Counters, TypeOK, Blobs, Bytes, Sources
<1> QED BY <1>1, TypeInvariance, PTL

-----------------------------------------------------------------------------
(* Whom a step concerns.                                                   *)

Mine(r) == \A q \in Reqs : q # r => pc'[q] = pc[q] /\ job'[q] = job[q]

LEMMA EndMine ==
  ASSUME TypeInv, NEW r \in Reqs, End(r)
  PROVE  Mine(r) /\ pc'[r] = "idle" /\ job'[r] = Blank
BY DEF TypeInv, Placed, End, Goto, Set, Mine

LEMMA StepMine ==
  ASSUME TypeInv, NEW r \in Reqs, NEW l, NEW j, Goto(r, l), Set(r, j)
  PROVE  Mine(r) /\ pc'[r] = l /\ job'[r] = j
BY DEF TypeInv, Placed, Goto, Set, Mine

LEMMA GotoMine ==
  ASSUME TypeInv, NEW r \in Reqs, NEW l, Goto(r, l), UNCHANGED job
  PROVE  Mine(r) /\ pc'[r] = l /\ job'[r] = job[r]
BY DEF TypeInv, Placed, Goto, Mine

LEMMA Frame == ASSUME TypeInv, NEW r \in Reqs, Acts(r) PROVE Mine(r) /\ cloud' = cloud
<1>1. CASE Put(r) \/ Erase(r) \/ LoseCall(r) \/ Fail(r)
  BY <1>1, EndMine DEF Put, Erase, LoseCall, Fail, TypeInv, Placed, Goto, Set, Mine, outside
<1>2. CASE Post(r)
  BY <1>2 DEF Post, PostArrive, TakePartial, Concatenate, SaveTotal, PostNoBody, PostBody, Write,
              TypeInv, Placed, Goto, Set, Mine, outside
<1>3. CASE Patch(r)
  <2>1. CASE Reread(r) \/ Done(r)
    BY <2>1, EndMine DEF Reread, Done, TypeInv, Placed, Goto, Set, Mine
  <2>2. CASE ~(Reread(r) \/ Done(r))
    BY <1>3, <2>2 DEF Patch, Arrive, LoadPatch, Declare, ReadChunk, WritePart, SaveOffset,
                      PreFinish, Finalize, Write, TypeInv, Placed, Goto, Set, Mine, outside
  <2> QED BY <2>1, <2>2
<1>4. CASE Combine(r)
  <2>1. CASE NextGroup(r)
    BY <2>1, GroupFacts DEF NextGroup, TypeInv, Placed, Goto, Set, Mine, outside
  <2>2. CASE FetchBlock(r) \/ FetchPiece(r)
    BY <2>2 DEF FetchBlock, FetchPiece, TypeInv, Placed, Goto, Set, Mine, outside
  <2>3. CASE Commit(r)
    BY <2>3 DEF Commit, TypeInv, Placed, Goto, Set, Mine, outside
  <2> QED BY <1>4, <2>1, <2>2, <2>3 DEF Combine
<1>5. CASE Others(r)
  BY <1>5, EndMine DEF Others, Arrive, Lock, HeadRequest, LoadGet, GetRead, Delete, DeleteParts,
                       DeletePartsUnlisted, Deleted, TypeInv, Placed, Goto, Set, Mine, outside
<1> QED BY <1>1, <1>2, <1>3, <1>4, <1>5 DEF Acts

(* A step of a request that is idle or waits leaves the bucket alone.      *)
LEMMA Waiting ==
  ASSUME TypeInv, NEW r \in Reqs, Acts(r), ~Active(r)
  PROVE  /\ objs' = objs /\ faults' = faults /\ given' = given
         /\ \/ life = "new" /\ \E size \in Sizes, kind \in Kinds : PostArrive(r, size, kind)
            \/ /\ life' = life /\ life # "new"
               /\ \/ pc'[r] \in {"idle", "lock", "load"} /\ job'[r].op \in {"none", job[r].op}
                  \/ pc[r] = "idle" /\ pc'[r] = "lock" /\ job'[r].op \in {"patch", "get", "delete"}
<1>1. pc[r] \in {"idle", "lock"}
  BY DEF Active
<1>2. ~Post(r) \/ \E size \in Sizes, kind \in Kinds : PostArrive(r, size, kind)
  BY <1>1 DEF Post, TakePartial, Concatenate, SaveTotal, PostNoBody, PostBody
<1>3. ~Combine(r) /\ ~Put(r) /\ ~Erase(r) /\ ~LoseCall(r)
  BY <1>1 DEF Combine, NextGroup, FetchBlock, FetchPiece, Commit, Put, Erase, LoseCall, Calls
<1>4. Patch(r) => \E at \in 0..MaxLen, n \in ChunkLens : Arrive(r, "patch", at, n)
  BY <1>1 DEF Patch, LoadPatch, Declare, ReadChunk, WritePart, SaveOffset, Reread, PreFinish,
              Finalize, Done
<1>5. Others(r) => (\E op \in {"get", "delete"} : Arrive(r, op, 0, 0)) \/ Lock(r) \/ HeadRequest(r)
  BY <1>1 DEF Others, LoadGet, GetRead, Delete, DeleteParts, DeletePartsUnlisted, Deleted
<1>6. ASSUME NEW op \in {"patch", "get", "delete"}, NEW at, NEW n, Arrive(r, op, at, n)
      PROVE  /\ objs' = objs /\ UNCHANGED outside /\ life # "new"
             /\ pc[r] = "idle" /\ pc'[r] = "lock" /\ job'[r].op \in {"patch", "get", "delete"}
  <2> DEFINE j == [Blank EXCEPT !.op = op, !.at = at, !.n = n]
  <2>1. Goto(r, "lock") /\ Set(r, j) /\ objs' = objs /\ UNCHANGED outside /\ life # "new"
        /\ pc[r] = "idle"
    BY <1>6 DEF Arrive
  <2>2. j.op = op
    BY DEF Blank
  <2> HIDE DEF j
  <2> QED BY <2>1, <2>2, StepMine
<1>7. ASSUME Lock(r) PROVE objs' = objs /\ UNCHANGED outside /\ pc'[r] = "load" /\ job' = job
  BY <1>7, GotoMine DEF Lock
<1>8. ASSUME HeadRequest(r)
      PROVE  /\ objs' = objs /\ life' = life /\ faults' = faults /\ given' = given
             /\ pc' = pc /\ job' = job /\ pc[r] = "idle" /\ life # "new"
  BY <1>8 DEF HeadRequest
<1>9. ASSUME Fail(r)
      PROVE  /\ objs' = objs /\ UNCHANGED outside /\ pc'[r] = "idle" /\ job'[r].op = "none"
             /\ pc[r] = "lock"
  BY <1>1, <1>9, EndMine, BlankFits DEF Fail, Refused
<1>10. pc[r] = "lock" => life # "new"
  BY DEF TypeInv, Order
<1>11. ASSUME NEW size \in Sizes, NEW kind \in Kinds, PostArrive(r, size, kind)
       PROVE  objs' = objs /\ faults' = faults /\ given' = given /\ life = "new"
  BY <1>11 DEF PostArrive
<1>12. UNCHANGED outside => life' = life /\ faults' = faults /\ given' = given
  BY DEF outside
<1>13. Lock(r) => pc[r] = "lock"
  BY DEF Lock
<1> QED BY <1>2, <1>3, <1>4, <1>5, <1>6, <1>7, <1>8, <1>9, <1>10, <1>11, <1>12, <1>13 DEF Acts

LEMMA PostArrives ==
  ASSUME TypeInv, NEW r \in Reqs, NEW size \in Sizes, NEW kind \in Kinds,
         PostArrive(r, size, kind)
  PROVE  /\ life = "new" /\ life' = "made" /\ pc'[r] = "put" /\ job'[r].op = "post"
         /\ job'[r].value = [size |-> size, offset |-> 0, final |-> kind = "final"]
         /\ job'[r].then = (IF kind = "final" THEN "concat" ELSE "body")
         /\ job'[r].key = "info" /\ job'[r].tmps = 0
         /\ objs' = objs /\ told' = told /\ faults' = faults /\ given' = given
         /\ \A q \in Reqs : q # r => pc'[q] = "idle" /\ job'[q] = job[q]
<1> DEFINE v == [size |-> size, offset |-> 0, final |-> kind = "final"]
           then == IF kind = "final" THEN "concat" ELSE "body"
           j == [Blank EXCEPT !.op = "post", !.key = "info", !.value = v, !.then = then]
<1>1. /\ Goto(r, "put") /\ Set(r, j) /\ life = "new" /\ life' = "made"
      /\ objs' = objs /\ told' = told /\ faults' = faults /\ given' = given
  BY DEF PostArrive
<1> HIDE DEF v, then
<1>2. j.op = "post" /\ j.value = v /\ j.then = then /\ j.key = "info" /\ j.tmps = 0
  BY DEF Blank
<1> HIDE DEF j
<1>3. pc'[r] = "put" /\ job'[r] = j /\ Mine(r)
  BY <1>1, StepMine
<1>4. \A q \in Reqs : q # r => pc'[q] = "idle" /\ job'[q] = job[q]
  BY <1>1, <1>3 DEF Mine, TypeInv, Order
<1> QED BY <1>1, <1>2, <1>3, <1>4 DEF v, then

-----------------------------------------------------------------------------
(* The bytes of a list of objects.                                         *)

LEMMA ContentAppend ==
  ASSUME NEW o, Typed(o), NEW keys \in Seq(Blobs), Present(o, keys), NEW x \in Blobs, o[x] # Absent
  PROVE  /\ Content(o, Append(keys, x)) = Content(o, keys) \o o[x]
         /\ Present(o, Append(keys, x)) /\ o[x] \in Bytes
<1> DEFINE more == Append(keys, x)
           s == [i \in DOMAIN keys |-> o[keys[i]]]
           t == [i \in DOMAIN more |-> o[more[i]]]
           n == Len(keys)
<1>1. /\ n \in Nat /\ DOMAIN keys = 1..n /\ more \in Seq(Blobs) /\ DOMAIN more = 1..(n + 1)
      /\ more[n + 1] = x /\ \A i \in 1..n : more[i] = keys[i]
  BY LenProperties, AppendProperties
<1> HIDE DEF more, n
<1>2. o[x] \in Bytes
  BY DEF Typed
<1>3. s \in Seq(Bytes) /\ Len(s) = n
  <2>1. s \in Seq(Bytes)
    BY ContentType
  <2>2. DOMAIN s = 1..n
    BY <1>1
  <2> HIDE DEF s, Bytes
  <2> QED BY <1>1, <2>1, <2>2, LenProperties
<1>4. t = Append(s, o[x])
  <2>1. t \in [1..(n + 1) -> Bytes] /\ \A i \in 1..(n + 1) : t[i] = IF i = n + 1 THEN o[x] ELSE s[i]
    <3>1. \A i \in 1..(n + 1) : i = n + 1 \/ i \in 1..n
      BY <1>1
    <3>2. \A i \in 1..n : o[keys[i]] \in Bytes
      BY <1>1, ElementOfSeq DEF Typed, Present, n
    <3> HIDE DEF Bytes
    <3>3. \A i \in 1..(n + 1) : t[i] = IF i = n + 1 THEN o[x] ELSE s[i]
      BY <1>1, <3>1
    <3> QED BY <1>1, <1>2, <3>1, <3>2, <3>3
  <2> HIDE DEF s, t, Bytes
  <2>2. /\ Append(s, o[x]) \in Seq(Bytes) /\ Len(Append(s, o[x])) = n + 1
        /\ \A i \in 1..(n + 1) : Append(s, o[x])[i] = IF i = n + 1 THEN o[x] ELSE s[i]
    BY <1>1, <1>2, <1>3, AppendProperties
  <2>3. t \in Seq(Bytes) /\ Len(t) = n + 1
    BY <1>1, <2>1
  <2> QED BY <2>1, <2>2, <2>3, SeqEqual
<1>5. FlattenSeq(t) = FlattenSeq(s) \o o[x]
  BY <1>2, <1>3, <1>4, FlattenAppend DEF Bytes
<1>6. Present(o, more)
  <2>1. \A i \in 1..(n + 1) : i = n + 1 \/ i \in 1..n
    BY <1>1
  <2> QED BY <1>1, <2>1 DEF Present
<1> QED BY <1>2, <1>5, <1>6 DEF Content, more

LEMMA ContentWithin ==
  ASSUME NEW o, Typed(o), NEW keys \in Seq(Blobs), Present(o, keys), NEW key \in ToSet(keys)
  PROVE  /\ o[key] \in Bytes /\ ToSet(o[key]) \subseteq ToSet(Content(o, keys))
         /\ key \in Blobs
<1> DEFINE s == [i \in DOMAIN keys |-> o[keys[i]]]
           c == Content(o, keys)
<1>1. /\ Len(keys) \in Nat /\ DOMAIN keys = 1..Len(keys) /\ \A i \in 1..Len(keys) : keys[i] \in Blobs
  BY LenProperties, ElementOfSeq
<1>2. PICK i \in 1..Len(keys) : key = keys[i]
  BY <1>1 DEF ToSet
<1>3. s \in Seq(Bytes) /\ c \in Bytes /\ Len(s) = Len(keys) /\ s[i] = o[key] /\ c = FlattenSeq(s)
  BY <1>1, <1>2, ContentType DEF Content
<1>4. o[key] \in Bytes
  BY <1>1, <1>2 DEF Typed, Present
<1> HIDE DEF s, c
<1>5. Within(s[i], c)
  BY <1>3, <1>2, FlattenFacts DEF Bytes
<1> DEFINE u == o[key]
<1>6. u \in Bytes /\ Within(u, c)
  BY <1>3, <1>4, <1>5
<1> HIDE DEF u
<1>7. ToSet(u) \subseteq ToSet(c)
  <2>1. PICK a \in 0..Len(c) : a + Len(u) <= Len(c) /\ \A j \in 1..Len(u) : c[a + j] = u[j]
    BY <1>6 DEF Within
  <2>2. Len(c) \in Nat /\ Len(u) \in Nat /\ DOMAIN c = 1..Len(c) /\ DOMAIN u = 1..Len(u)
    BY <1>3, <1>6, LenProperties DEF Bytes
  <2>3. \A j \in 1..Len(u) : a + j \in 1..Len(c) /\ c[a + j] = u[j]
    BY <2>1, <2>2
  <2> QED BY <2>2, <2>3 DEF ToSet
<1> QED BY <1>1, <1>2, <1>4, <1>7 DEF u, c

(* The same objects have the same bytes.                                   *)
LEMMA ContentSame ==
  ASSUME NEW o, NEW p, NEW keys, \A i \in DOMAIN keys : p[keys[i]] = o[keys[i]]
  PROVE  Content(p, keys) = Content(o, keys) /\ Present(p, keys) = Present(o, keys)
<1>1. [i \in DOMAIN keys |-> p[keys[i]]] = [i \in DOMAIN keys |-> o[keys[i]]]
  OBVIOUS
<1> QED BY <1>1 DEF Content, Present

LEMMA ContentEmpty == \A o : Content(o, <<>>) = <<>> /\ Present(o, <<>>)
BY DEF Content, Present, FlattenSeq

-----------------------------------------------------------------------------
(* The data objects of the partials: whoever takes or erases one, its      *)
(* bytes are known.                                                        *)

Stock(o) == [key \in Blobs |-> IF key \in Sources THEN PartialBytes(key) ELSE o[key]]

Originals == \A s \in Sources : objs[s] = Absent \/ objs[s] = PartialBytes(s)

LEMMA StockFacts ==
  ASSUME TypeInv
  PROVE  /\ Typed(Stock(objs)) /\ \A s \in Sources : PartialBytes(s) \in Bytes
         /\ \A key \in Blobs :
              Stock(objs)[key] = IF key \in Sources THEN PartialBytes(key) ELSE objs[key]
<1>1. ASSUME NEW s \in Sources PROVE PartialBytes(s) \in Bytes
  BY SourceContent, SourceFacts
<1> QED BY <1>1 DEF Stock, Typed, TypeInv, ObjsOK

LEMMA StockHere ==
  ASSUME TypeInv, Originals, NEW key \in Blobs, objs[key] # Absent
  PROVE  Stock(objs)[key] = objs[key]
BY StockFacts DEF Originals

LEMMA StockKept ==
  ASSUME \A key \in Blobs \ Sources : objs'[key] = objs[key]
  PROVE  Stock(objs') = Stock(objs)
BY DEF Stock

LEMMA OriginalsInit == Init => Originals
<1> SUFFICES ASSUME Init, NEW s \in Sources PROVE objs[s] = PartialBytes(s)
  BY DEF Originals
<1> QED BY KeyFacts DEF Init, Sources

(* Where a request combines objects into is no partial.                    *)
LEMMA PlaceFacts ==
  ASSUME NEW j \in Jobs, Grouped(j), j.tmps \in 0..Len(TmpNames)
  PROVE  j.dest \in Blobs /\ j.dest \notin Sources
<1>1. j.dest \in Blobs
  BY DEF Jobs
<1>2. CASE j.dest # "data"
  <2>1. j.tmps \in 1..Len(TmpNames) /\ j.dest = TmpNames[j.tmps]
    BY <1>2, TmpFacts DEF Grouped
  <2> QED BY <1>1, <2>1, TmpFacts
<1> QED BY <1>1, <1>2, KeyFacts

LEMMA OriginalsKept == ASSUME TypeInv, Originals, [Next]_vars PROVE Originals'
<1>1. ASSUME \A s \in Sources : objs'[s] = objs[s] \/ objs'[s] = Absent PROVE Originals'
  BY <1>1 DEF Originals
<1>2. ASSUME objs' = objs PROVE Originals'
  BY <1>1, <1>2
<1>3. ASSUME NEW k \in Keys, objs' = [objs EXCEPT ![k] = Absent] PROVE Originals'
  BY <1>1, <1>3, KeyFacts DEF TypeInv, ObjsOK
<1>4. ASSUME NEW r \in Reqs, pc[r] \in Calls, ~Refused(r), objs' = Effect(r) PROVE Originals'
  <2> DEFINE j == job[r]
  <2>1. CASE pc[r] = "put"
    <3> DEFINE k == j.key
    <3>1. objs' = [objs EXCEPT ![k] = j.value]
      BY <1>4, <2>1, PutObjs
    <3>2. k \notin Sources
      BY <2>1, OpFacts, KeyFacts DEF Fits, PutFits
    <3> HIDE DEF k
    <3> QED BY <1>1, <3>1, <3>2, KeyFacts DEF TypeInv, ObjsOK
  <2>2. CASE pc[r] = "erase"
    BY <1>3, <1>4, <2>2, EraseObjs
  <2>3. CASE pc[r] = "commit"
    <3>1. j \in Jobs /\ CombineFits("commit", j)
      BY <2>3, OpFacts DEF Fits
    <3>2. j.dest \notin Sources
      BY <3>1, PlaceFacts DEF CombineFits
    <3>3. \A key \in Keys : key # j.dest => objs'[key] = objs[key] \/ objs'[key] = Absent
      BY <1>4, <2>3, CommitObjs
    <3> HIDE DEF j
    <3> QED BY <1>1, <3>2, <3>3, KeyFacts
  <2> QED BY <1>4, <2>1, <2>2, <2>3 DEF Calls
<1>5. CASE UNCHANGED vars
  BY <1>2, <1>5 DEF vars
<1>6. ASSUME NEW r \in Reqs, Acts(r) PROVE Originals'
  <2>1. CASE Put(r)
    BY <1>4, <2>1 DEF Put, Calls, Refused
  <2>2. CASE Erase(r)
    BY <1>2, <1>4, <2>2 DEF Erase, Calls, Refused
  <2>3. CASE LoseCall(r)
    BY <1>2, <1>4, <2>3 DEF LoseCall
  <2>4. CASE Post(r)
    <3>1. ASSUME NEW s \in given, TakePartial(r, s) PROVE Originals'
      BY <1>3, <3>1, KeyFacts DEF TakePartial, TypeInv, Counters
    <3> QED BY <1>2, <2>4, <3>1 DEF Post, PostArrive, Concatenate, SaveTotal, PostNoBody, PostBody
  <2>5. CASE Patch(r) \/ Others(r) \/ Fail(r)
    BY <1>2, <2>5 DEF Patch, Arrive, LoadPatch, Declare, ReadChunk, WritePart, SaveOffset, Reread,
                      PreFinish, Finalize, Done, Write, Others, Lock, HeadRequest, LoadGet, GetRead,
                      Delete, DeleteParts, DeletePartsUnlisted, Deleted, Fail
  <2>6. CASE Combine(r)
    BY <1>2, <1>4, <2>6 DEF Combine, NextGroup, FetchBlock, FetchPiece, Commit, Calls
  <2> QED BY <1>6, <2>1, <2>2, <2>3, <2>4, <2>5, <2>6 DEF Acts
<1> QED BY <1>5, <1>6 DEF Next, Acts

-----------------------------------------------------------------------------
(* Multipart uploads and block lists: what has been fetched is the sources *)
(* up to where the request is.                                             *)

(* The first pos bytes of a source, none of it when it is not begun.       *)
Begun(s, pos) == IF pos = 0 THEN <<>> ELSE SubSeq(s, 1, pos)

Fetched(j, o, c) ==
  LET done == SubSeq(j.src, 1, j.k - 1)
      here == o[j.src[j.k]]
  IN /\ Present(o, done)
     /\ j.pos = 0 \/ (here # Absent /\ j.pos <= Len(here))
     /\ FlattenSeq(j.blocks) \o j.buf = Content(o, done) \o Begun(here, j.pos)
     /\ c # "s3" => j.buf = <<>> /\ j.pos = 0
     /\ c = "s3" => Len(j.buf) < MinPart /\ \A i \in 1..Len(j.blocks) : Len(j.blocks[i]) = MinPart

Legal(b) ==
  /\ \A i \in 1..Len(b) - 1 : Len(b[i]) = MinPart
  /\ Len(b) > 0 /\ (Len(b) > 1 => b[Len(b)] # <<>>)

(* The bytes of what is still to be erased are in the object just made.    *)
Covered(j, o) ==
  /\ o[j.dest] # Absent
  /\ \A key \in ToSet(j.todo) : o[key] # Absent => ToSet(o[key]) \subseteq ToSet(o[j.dest])

Gathered(l, j, o, c) ==
  /\ l = "fetch" => Fetched(j, o, c) /\ c # "gcs"
  /\ l = "commit" /\ c # "gcs" => Present(o, j.src) /\ FlattenSeq(j.blocks) = Content(o, j.src)
  /\ l = "commit" /\ c = "s3" => Legal(j.blocks)
  /\ l = "erase" /\ j.op # "delete" => Covered(j, o)

GatherInv == Originals /\ \A r \in Reqs : Gathered(pc[r], job[r], Stock(objs), cloud)

LEMMA Elsewhere ==
  ASSUME NEW l, NEW j, NEW o, NEW c, l \notin {"fetch", "commit", "erase"}
  PROVE  Gathered(l, j, o, c)
BY DEF Gathered

LEMMA TypedObjs == ASSUME TypeInv PROVE Typed(objs)
BY DEF TypeInv, ObjsOK, Typed

LEMMA GroupGathers ==
  ASSUME TypeInv, GatherInv, NEW r \in Reqs, NextGroup(r)
  PROVE  Gathered(pc'[r], job'[r], Stock(objs'), cloud')
<1>1. PICK i \in Jobs : /\ Set(r, i) /\ i.k = 1 /\ i.pos = 0 /\ i.buf = <<>> /\ i.blocks = <<>>
  BY GroupFacts
<1>2. /\ objs' = objs /\ cloud' = cloud /\ cloud \in {"s3", "gcs", "azure"}
      /\ Goto(r, IF cloud = "gcs" THEN "commit" ELSE "fetch")
  BY ObjectAssumption DEF NextGroup, outside, TypeInv, Counters
<1>3. job'[r] = i /\ pc'[r] = IF cloud = "gcs" THEN "commit" ELSE "fetch"
  BY <1>1, <1>2, StepMine
<1>4. Fetched(i, Stock(objs), cloud)
  <2>1. SubSeq(i.src, 1, i.k - 1) = <<>>
    <3>1. i.src \in Seq(Blobs)
      BY DEF Jobs
    <3> QED BY <1>1, <3>1
  <2>2. FlattenSeq(i.blocks) = <<>> /\ Len(i.buf) = 0 /\ Len(i.blocks) = 0
    BY <1>1 DEF FlattenSeq
  <2>3. FlattenSeq(i.blocks) \o i.buf = <<>> \o <<>>
    BY <1>1, <2>2
  <2>4. Content(Stock(objs), <<>>) = <<>> /\ Present(Stock(objs), <<>>)
    BY ContentEmpty
  <2>5. MinPart \in Nat /\ MinPart > 0
    BY ObjectAssumption
  <2> DEFINE done == SubSeq(i.src, 1, i.k - 1)
             all == FlattenSeq(i.blocks) \o i.buf
             none == Content(Stock(objs), <<>>) \o <<>>
  <2>6. all = none
    BY <2>3, <2>4
  <2>7. done = <<>> /\ i.pos = 0 /\ Len(i.buf) < MinPart /\ i.buf = <<>>
        /\ \A m \in 1..Len(i.blocks) : Len(i.blocks[m]) = MinPart
    BY <1>1, <2>1, <2>2, <2>5
  <2> HIDE DEF done, all, none
  <2>8. Present(Stock(objs), done) /\ all = Content(Stock(objs), done) \o Begun(Stock(objs)[i.src[i.k]], i.pos)
    BY <2>4, <2>6, <2>7 DEF none, Begun
  <2> QED BY <2>7, <2>8 DEF Fetched, done, all
<1> QED BY <1>2, <1>3, <1>4 DEF Gathered

(* The sources up to the one being fetched, and with it.                   *)
LEMMA SourcesUpTo ==
  ASSUME TypeInv, Originals, NEW r \in Reqs, pc[r] = "fetch", Source(r) # Absent,
         Present(Stock(objs), SubSeq(job[r].src, 1, job[r].k - 1))
  PROVE  LET j == job[r]
             done == SubSeq(j.src, 1, j.k - 1)
             with == SubSeq(j.src, 1, j.k)
         IN /\ Content(Stock(objs), done) \in Bytes /\ done \in Seq(Blobs)
            /\ Content(Stock(objs), with) = Content(Stock(objs), done) \o Source(r) /\ Present(Stock(objs), with)
            /\ LastSource(r) => with = j.src
            /\ j.k = (j.k + 1) - 1 /\ Stock(objs)[j.src[j.k]] = Source(r)
<1> DEFINE j == job[r]
           done == SubSeq(j.src, 1, j.k - 1)
           with == SubSeq(j.src, 1, j.k)
           x == j.src[j.k]
<1>1. /\ j.src \in Seq(Blobs) /\ j.k \in 1..Len(j.src) /\ Len(j.src) \in Nat
      /\ x \in Blobs /\ Stock(objs)[x] = Source(r)
  BY SourceFetched, StockHere DEF Source
<1>2. done \in Seq(Blobs) /\ with = Append(done, x) /\ (LastSource(r) => with = j.src)
  <2> DEFINE s == j.src
             k == j.k
  <2>1. s \in Seq(Blobs) /\ k \in 1..Len(s) /\ Len(s) \in Nat
    BY <1>1
  <2> HIDE DEF s, k
  <2>2. SubSeq(s, 1, k - 1) \in Seq(Blobs)
    BY <2>1
  <2>3. SubSeq(s, 1, k) = Append(SubSeq(s, 1, k - 1), s[k])
    BY <2>1
  <2>4. k = Len(s) => SubSeq(s, 1, k) = s
    BY <2>1
  <2> QED BY <2>2, <2>3, <2>4 DEF s, k, LastSource
<1> HIDE DEF x
<1>3. Content(Stock(objs), done) \in Bytes
  <2> HIDE DEF done
  <2> QED BY <1>2, StockFacts, ContentType DEF done
<1>4. Content(Stock(objs), with) = Content(Stock(objs), done) \o Source(r) /\ Present(Stock(objs), with)
  <2> HIDE DEF done, with
  <2>1. Present(Stock(objs), done) /\ Stock(objs)[x] # Absent
    BY <1>1 DEF done
  <2> QED BY <1>1, <1>2, <2>1, StockFacts, ContentAppend
<1>5. j.k = (j.k + 1) - 1
  BY <1>1
<1> QED BY <1>1, <1>2, <1>3, <1>4, <1>5 DEF x

LEMMA FetchBlockGathers ==
  ASSUME TypeInv, GatherInv, NEW r \in Reqs, FetchBlock(r)
  PROVE  Gathered(pc'[r], job'[r], Stock(objs'), cloud')
<1> DEFINE j == job[r]
           s == Source(r)
           k == IF LastSource(r) THEN j.k ELSE j.k + 1
           bs == Append(j.blocks, s)
           l == IF LastSource(r) THEN "commit" ELSE "fetch"
           with == SubSeq(j.src, 1, j.k)
           done == SubSeq(j.src, 1, j.k - 1)
<1>1. /\ pc[r] = "fetch" /\ cloud = "azure" /\ s # Absent /\ objs' = objs /\ cloud' = cloud
  BY DEF FetchBlock, outside
<1>2. /\ Set(r, Fetching(j, bs, j.buf, k, j.pos)) /\ j.buf \in Bytes /\ j.pos \in Nat
      /\ k \in Nat /\ bs \in Seq(Bytes) /\ j.blocks \in Seq(Bytes) /\ Goto(r, l)
  BY FetchBlockFacts
<1>3. /\ j \in Jobs /\ CombineFits("fetch", j) /\ s \in Bytes
  BY <1>1, SourceFetched
<1>4. Fetched(j, Stock(objs), cloud)
  BY <1>1 DEF GatherInv, Gathered
<1>5. /\ Present(Stock(objs), done) /\ FlattenSeq(j.blocks) \o <<>> = Content(Stock(objs), done) \o <<>>
      /\ j.buf = <<>> /\ j.pos = 0
  BY <1>1, <1>4 DEF Fetched, Begun
<1>6. /\ Content(Stock(objs), done) \in Bytes /\ Content(Stock(objs), with) = Content(Stock(objs), done) \o s
      /\ Present(Stock(objs), with) /\ (LastSource(r) => with = j.src) /\ j.k = (j.k + 1) - 1
  BY <1>1, <1>5, SourcesUpTo DEF GatherInv
<1> DEFINE i == Fetching(j, bs, j.buf, k, j.pos)
<1>7. i.src = j.src /\ i.k = k /\ i.pos = 0 /\ i.buf = <<>> /\ i.blocks = bs
  <2> HIDE DEF bs, k, j
  <2> QED BY <1>3, <1>5 DEF Fetching, Jobs
<1>8. job'[r] = i /\ pc'[r] = l
  BY <1>2, StepMine
<1> HIDE DEF i, s, done, with, bs
<1>9. FlattenSeq(bs) = Content(Stock(objs), with)
  <2>1. FlattenSeq(bs) = FlattenSeq(j.blocks) \o s
    BY <1>2, <1>3, FlattenAppend DEF Bytes, bs
  <2>2. FlattenSeq(j.blocks) = Content(Stock(objs), done)
    <3> DEFINE a == FlattenSeq(j.blocks)
               b == Content(Stock(objs), done)
    <3>1. a \in Bytes /\ b \in Bytes /\ a \o <<>> = b \o <<>>
      BY <1>2, <1>5, <1>6, FlattenFacts DEF Bytes
    <3> HIDE DEF a, b
    <3>2. a = b
      BY <3>1, ConcatEmptySeq DEF Bytes
    <3> QED BY <3>2 DEF a, b
  <2> QED BY <1>6, <2>1, <2>2
<1>10. CASE LastSource(r)
  <2>1. Present(Stock(objs), i.src) /\ FlattenSeq(i.blocks) = Content(Stock(objs), i.src)
    BY <1>6, <1>7, <1>9, <1>10
  <2> QED BY <1>1, <1>8, <1>10, <2>1 DEF Gathered
<1>11. CASE ~LastSource(r)
  <2>1. k = j.k + 1 /\ SubSeq(i.src, 1, i.k - 1) = with
    BY <1>6, <1>7, <1>11 DEF with
  <2>2. FlattenSeq(i.blocks) \o i.buf = Content(Stock(objs), with) \o <<>>
    BY <1>7, <1>9
  <2>3. Fetched(i, Stock(objs), cloud)
    BY <1>1, <1>6, <1>7, <2>1, <2>2 DEF Fetched, Begun
  <2> QED BY <1>1, <1>8, <1>11, <2>3 DEF Gathered
<1> QED BY <1>10, <1>11

-----------------------------------------------------------------------------
(* Multipart uploads: a read of a source.                                  *)

LEMMA BegunFacts ==
  ASSUME NEW s \in Bytes, NEW pos \in Nat, NEW n \in Nat, pos + n <= Len(s)
  PROVE  /\ Begun(s, pos) \in Bytes /\ SubSeq(s, pos + 1, pos + n) \in Bytes
         /\ Begun(s, pos) \o SubSeq(s, pos + 1, pos + n) = Begun(s, pos + n)
         /\ pos + n = Len(s) => Begun(s, pos + n) = s
<1> DEFINE S == Nat \ {0}
<1>1. s \in Seq(S) /\ Len(s) \in Nat
  BY LenProperties DEF Bytes
<1> HIDE DEF S
<1> DEFINE x == SubSeq(s, pos + 1, pos + n)
<1>2. x \in Seq(S) /\ Begun(s, pos) \in Seq(S)
  BY <1>1 DEF Begun
<1>3. pos = 0 => <<>> \o x = Begun(s, n)
  <2> DEFINE y == SubSeq(s, 1, n)
  <2>1. pos = 0 => x = y /\ y \in Seq(S)
    BY <1>1
  <2>2. n = 0 => y = <<>>
    BY <1>1
  <2> HIDE DEF x, y
  <2>3. pos = 0 => <<>> \o x = y
    BY <2>1, ConcatEmptySeq
  <2> QED BY <2>2, <2>3 DEF Begun, y
<1>4. pos # 0 => SubSeq(s, 1, pos) \o x = SubSeq(s, 1, pos + n)
  BY <1>1
<1>5. Begun(s, pos) \o x = Begun(s, pos + n)
  <2> HIDE DEF x
  <2>1. CASE pos = 0
    BY <1>3, <2>1 DEF Begun
  <2>2. CASE pos # 0
    <3>1. pos + n # 0
      BY <2>2
    <3> QED BY <1>4, <2>2, <3>1 DEF Begun
  <2> QED BY <2>1, <2>2
<1>6. pos + n = Len(s) => Begun(s, pos + n) = s
  <2>1. Len(s) = 0 => s = <<>>
    BY <1>1, EmptySeq
  <2>2. SubSeq(s, 1, Len(s)) = s
    BY <1>1
  <2> QED BY <2>1, <2>2 DEF Begun
<1> QED BY <1>2, <1>5, <1>6 DEF S, Bytes

LEMMA PieceContent ==
  ASSUME TypeInv, GatherInv, NEW r \in Reqs, FetchPiece(r),
         NEW n \in Nat, NEW c \in Nat, NEW buf \in Bytes, NEW blocks \in Seq(Bytes),
         Pieces(r, n, c, buf, blocks)
  PROVE  LET j == job[r]
             done == SubSeq(j.src, 1, j.k - 1)
             s == Source(r)
         IN /\ j.pos \in Nat /\ j.pos + n <= Len(s) /\ Present(Stock(objs), done)
            /\ Content(Stock(objs), done) \in Bytes
            /\ FlattenSeq(blocks) \o Beyond(buf, c) = Content(Stock(objs), done) \o Begun(s, j.pos + n)
            /\ \A i \in 1..Len(blocks) : Len(blocks[i]) = MinPart
<1> DEFINE j == job[r]
           s == Source(r)
           done == SubSeq(j.src, 1, j.k - 1)
           D == Content(Stock(objs), done)
           x == SubSeq(s, j.pos + 1, j.pos + n)
           rest == Beyond(buf, c)
           P == Begun(s, j.pos)
           pos == j.pos
<1>1. /\ pc[r] = "fetch" /\ s # Absent /\ cloud = "s3"
  BY DEF FetchPiece
<1>0. Stock(objs)[j.src[j.k]] = s
  BY <1>1, SourceFetched, StockHere DEF GatherInv, Source
<1>2. /\ s \in Bytes /\ Len(s) \in Nat /\ j \in Jobs
  BY <1>1, SourceFetched, LenProperties DEF Bytes
<1>3. j.pos \in Nat /\ j.buf \in Bytes /\ j.blocks \in Seq(Bytes)
  BY <1>2 DEF Jobs
<1>4. Fetched(j, Stock(objs), cloud)
  BY <1>1 DEF GatherInv, Gathered
<1>5. /\ Present(Stock(objs), done) /\ FlattenSeq(j.blocks) \o j.buf = D \o P
      /\ \A i \in 1..Len(j.blocks) : Len(j.blocks[i]) = MinPart
  BY <1>1, <1>4, <1>0 DEF Fetched
<1>6. j.pos <= Len(s)
  <2>1. pos = 0 \/ pos <= Len(s)
    BY <1>4, <1>0 DEF Fetched
  <2> HIDE DEF pos, s
  <2> QED BY <1>2, <1>3, <2>1 DEF pos
<1>7. /\ buf = j.buf \o x /\ blocks = j.blocks \o Cut(buf, c) /\ c * MinPart <= Len(buf)
      /\ rest \in Bytes
  BY DEF Pieces
<1>8. j.pos + n <= Len(s)
  BY <1>2, <1>3, <1>6 DEF Pieces
<1>9. D \in Bytes
  BY <1>1, <1>5, SourcesUpTo DEF GatherInv
<1>10. P \in Bytes /\ x \in Bytes /\ P \o x = Begun(s, pos + n)
  <2>1. s \in Bytes /\ pos \in Nat /\ pos + n <= Len(s)
    BY <1>2, <1>3, <1>8
  <2> HIDE DEF s, pos
  <2>2. Begun(s, pos) \in Bytes /\ SubSeq(s, pos + 1, pos + n) \in Bytes
        /\ Begun(s, pos) \o SubSeq(s, pos + 1, pos + n) = Begun(s, pos + n)
    BY <2>1, BegunFacts
  <2> QED BY <2>2 DEF s, pos
<1> DEFINE F == FlattenSeq(j.blocks)
           cut == Cut(buf, c)
           G == FlattenSeq(cut)
           b == j.buf
           old == j.blocks
<1>11. /\ cut \in Seq(Bytes) /\ Len(cut) = c /\ \A i \in 1..c : Len(cut[i]) = MinPart
       /\ G \o rest = buf
  BY <1>7, CutFacts
<1>12. F \in Bytes /\ G \in Bytes
  <2> HIDE DEF cut
  <2> QED BY <1>3, <1>11, FlattenFacts DEF Bytes
<1>13. FlattenSeq(blocks) = F \o G
  <2> DEFINE S == Nat \ {0}
  <2>1. old \in Seq(Seq(S)) /\ cut \in Seq(Seq(S)) /\ blocks = old \o cut
    BY <1>3, <1>7, <1>11 DEF Bytes
  <2> HIDE DEF S, old, cut
  <2>2. FlattenSeq(old \o cut) = FlattenSeq(old) \o FlattenSeq(cut)
    BY <2>1, FlattenConcat
  <2> QED BY <2>1, <2>2 DEF old, cut
<1>14. \A i \in 1..Len(blocks) : Len(blocks[i]) = MinPart
  <2>1. /\ blocks = old \o cut /\ old \in Seq(Bytes) /\ cut \in Seq(Bytes) /\ Len(cut) = c
        /\ \A i \in 1..Len(old) : Len(old[i]) = MinPart
        /\ \A i \in 1..c : Len(cut[i]) = MinPart
    BY <1>3, <1>5, <1>7, <1>11
  <2> HIDE DEF old, cut, Bytes
  <2>2. /\ Len(blocks) = Len(old) + c /\ Len(old) \in Nat
        /\ \A i \in 1..Len(old) : blocks[i] = old[i]
        /\ \A i \in 1..c : blocks[Len(old) + i] = cut[i]
    <3> DEFINE t == old \o cut
    <3>1. /\ Len(t) = Len(old) + Len(cut) /\ Len(old) \in Nat
          /\ \A i \in 1..Len(old) : t[i] = old[i]
          /\ \A i \in 1..Len(cut) : t[Len(old) + i] = cut[i]
      <4>1. old \in Seq(Bytes) /\ cut \in Seq(Bytes)
        BY <2>1
      <4>2. Len(old) \in Nat /\ Len(cut) \in Nat
        BY <4>1, LenProperties
      <4>3. \A i \in 1..(Len(old) + Len(cut)) : t[i] = IF i <= Len(old) THEN old[i] ELSE cut[i - Len(old)]
        BY <4>1, ConcatProperties
      <4>4. Len(t) = Len(old) + Len(cut)
        BY <4>1, ConcatProperties
      <4>5. \A i \in 1..Len(old) : i \in 1..(Len(old) + Len(cut)) /\ i <= Len(old)
        BY <4>2
      <4>6. \A i \in 1..Len(cut) : /\ Len(old) + i \in 1..(Len(old) + Len(cut))
                                   /\ ~(Len(old) + i <= Len(old)) /\ (Len(old) + i) - Len(old) = i
        BY <4>2
      <4> HIDE DEF t
      <4> QED BY <4>2, <4>3, <4>4, <4>5, <4>6, SMTT(30)
    <3>2. t = blocks
      BY <2>1
    <3> HIDE DEF t
    <3> QED BY <2>1, <3>1, <3>2
  <2> TAKE i \in 1..Len(blocks)
  <2>3. CASE i <= Len(old)
    BY <2>1, <2>2, <2>3
  <2>4. CASE i > Len(old)
    <3> DEFINE m == i - Len(old)
    <3>1. m \in 1..c /\ Len(old) + m = i
      BY <2>2, <2>4
    <3> HIDE DEF m
    <3>2. blocks[i] = cut[m]
      BY <2>2, <3>1
    <3> QED BY <2>1, <3>1, <3>2
  <2> QED BY <2>2, <2>3, <2>4
<1>15. FlattenSeq(blocks) \o rest = D \o Begun(s, pos + n)
  <2> DEFINE S == Nat \ {0}
             e == Begun(s, pos + n)
  <2>1. /\ F \in Seq(S) /\ G \in Seq(S) /\ rest \in Seq(S) /\ b \in Seq(S) /\ x \in Seq(S)
        /\ D \in Seq(S) /\ P \in Seq(S)
    BY <1>3, <1>7, <1>9, <1>10, <1>12 DEF Bytes
  <2>2. F \o b = D \o P /\ P \o x = e /\ G \o rest = buf /\ buf = b \o x
        /\ FlattenSeq(blocks) = F \o G
    BY <1>5, <1>7, <1>10, <1>11, <1>13
  <2> HIDE DEF S, e, F, G, rest, b, x, D, P
  <2>3. (F \o G) \o rest = F \o (G \o rest)
    <3>1. F \in Seq(S) /\ G \in Seq(S) /\ rest \in Seq(S)
      BY <2>1
    <3> QED BY <3>1, SMTT(30)
  <2>4. (F \o b) \o x = F \o (b \o x)
    <3>1. F \in Seq(S) /\ b \in Seq(S) /\ x \in Seq(S)
      BY <2>1
    <3> QED BY <3>1, SMTT(30)
  <2>5. (D \o P) \o x = D \o (P \o x)
    <3>1. D \in Seq(S) /\ P \in Seq(S) /\ x \in Seq(S)
      BY <2>1
    <3> QED BY <3>1, SMTT(30)
  <2> QED BY <2>2, <2>3, <2>4, <2>5 DEF e, rest, D
<1> QED BY <1>3, <1>5, <1>8, <1>9, <1>14, <1>15 DEF pos

(* The parts of a multipart upload: what was cut, and the rest.            *)
LEMMA PartsLegal ==
  ASSUME NEW blocks \in Seq(Bytes), NEW rest \in Bytes,
         \A i \in 1..Len(blocks) : Len(blocks[i]) = MinPart
  PROVE  LET b == IF rest = <<>> /\ blocks # <<>> THEN blocks ELSE Append(blocks, rest)
         IN Legal(b) /\ FlattenSeq(b) = FlattenSeq(blocks) \o rest
<1> DEFINE n == Len(blocks)
<1>1. n \in Nat /\ (blocks # <<>> => n > 0) /\ (n > 0 => blocks # <<>>)
      /\ MinPart \in Nat /\ MinPart > 0 /\ FlattenSeq(blocks) \in Bytes
  <2>1. FlattenSeq(blocks) \in Bytes
    BY FlattenFacts DEF Bytes
  <2> HIDE DEF Bytes
  <2> QED BY <2>1, LenProperties, EmptySeq, ObjectAssumption
<1>2. CASE rest = <<>> /\ blocks # <<>>
  <2>1. \A i \in 1..n : blocks[i] # <<>>
    <3> TAKE i \in 1..n
    <3>1. Len(blocks[i]) > 0
      BY <1>1
    <3> DEFINE x == blocks[i]
    <3>2. Len(x) > 0
      BY <3>1
    <3> HIDE DEF x
    <3>3. x # <<>>
      BY <3>2
    <3> QED BY <3>3 DEF x
  <2>2. Legal(blocks)
    BY <1>1, <1>2, <2>1 DEF Legal
  <2> DEFINE u == FlattenSeq(blocks)
  <2>3. u \o <<>> = u
    BY <1>1, ConcatEmptySeq DEF Bytes
  <2> QED BY <1>2, <2>2, <2>3
<1>3. CASE ~(rest = <<>> /\ blocks # <<>>)
  <2> DEFINE b == Append(blocks, rest)
  <2>1. Len(b) = n + 1 /\ b[n + 1] = rest /\ \A i \in 1..n : b[i] = blocks[i]
    <3> HIDE DEF Bytes
    <3> QED BY AppendProperties
  <2>2. FlattenSeq(b) = FlattenSeq(blocks) \o rest
    BY FlattenAppend DEF Bytes
  <2> HIDE DEF b, n
  <2>3. Len(b) - 1 = n /\ Len(b) > 0 /\ (Len(b) > 1 => rest # <<>>)
    BY <1>1, <1>3, <2>1
  <2>4. \A i \in 1..Len(b) - 1 : Len(b[i]) = MinPart
    BY <2>1, <2>3 DEF n
  <2>5. b[Len(b)] = rest
    BY <1>1, <2>1
  <2>6. Legal(b)
    BY <2>3, <2>4, <2>5 DEF Legal
  <2> QED BY <1>3, <2>2, <2>6 DEF b
<1> QED BY <1>2, <1>3

LEMMA FetchPieceGathers ==
  ASSUME TypeInv, GatherInv, NEW r \in Reqs, FetchPiece(r)
  PROVE  Gathered(pc'[r], job'[r], Stock(objs'), cloud')
<1> DEFINE j == job[r]
           s == Source(r)
           done == SubSeq(j.src, 1, j.k - 1)
           with == SubSeq(j.src, 1, j.k)
           eof == j.pos = Len(s)
           end == eof /\ LastSource(r)
<1>1. /\ pc[r] = "fetch" /\ cloud = "s3" /\ s # Absent /\ objs' = objs /\ cloud' = cloud
  BY DEF FetchPiece, outside
<1>2. PICK n \in Nat, c \in Nat, buf \in Bytes, blocks \in Seq(Bytes) : Pieces(r, n, c, buf, blocks)
  BY PieceFacts
<1> DEFINE rest == Beyond(buf, c)
           all == FlattenSeq(blocks) \o rest
<1>3. /\ j.pos \in Nat /\ j.pos + n <= Len(s) /\ Present(Stock(objs), done)
      /\ Content(Stock(objs), done) \in Bytes
      /\ all = Content(Stock(objs), done) \o Begun(s, j.pos + n)
      /\ \A i \in 1..Len(blocks) : Len(blocks[i]) = MinPart
  BY <1>2, PieceContent
<1>4. /\ j \in Jobs /\ s \in Bytes /\ Len(s) \in Nat /\ rest \in Bytes
      /\ IF eof THEN n = 0 ELSE n > 0 /\ j.pos + n <= Len(s)
  BY <1>1, <1>2, SourceFetched, LenProperties DEF Pieces, Bytes
<1>5. eof => all = Content(Stock(objs), done) \o s
  <2> DEFINE pos == j.pos
  <2>1. eof => pos \in Nat /\ pos + n <= Len(s) /\ pos + n = Len(s)
    BY <1>3, <1>4
  <2> HIDE DEF s, pos, all
  <2>2. eof => Begun(s, pos + n) = s
    BY <1>4, <2>1, BegunFacts
  <2> QED BY <1>3, <2>2 DEF pos
<1>6. /\ Content(Stock(objs), with) = Content(Stock(objs), done) \o s /\ Present(Stock(objs), with)
      /\ (LastSource(r) => with = j.src) /\ j.k = (j.k + 1) - 1
      /\ Stock(objs)[j.src[j.k]] = s
  BY <1>1, <1>3, SourcesUpTo DEF GatherInv
<1>7. CASE ~end
  <2> DEFINE k == IF eof THEN j.k + 1 ELSE j.k
             pos == IF eof THEN 0 ELSE j.pos + n
             i == Fetching(j, blocks, rest, k, pos)
  <2>1. Goto(r, "fetch") /\ Set(r, i) /\ Len(rest) < MinPart
    BY <1>2, <1>7 DEF Pieces
  <2>2. pc'[r] = "fetch" /\ job'[r] = i
    BY <2>1, StepMine
  <2>3. i.src = j.src /\ i.k = k /\ i.pos = pos /\ i.buf = rest /\ i.blocks = blocks
    <3> HIDE DEF rest, k, pos, j
    <3> QED BY <1>4 DEF Fetching, Jobs
  <2> HIDE DEF i
  <2>4. ASSUME eof PROVE Fetched(i, Stock(objs), cloud)
    <3>1. SubSeq(i.src, 1, i.k - 1) = with /\ i.pos = 0
      BY <1>6, <2>3, <2>4
    <3> HIDE DEF with, rest, s, done
    <3>2. FlattenSeq(i.blocks) \o i.buf = Content(Stock(objs), with)
      BY <1>5, <1>6, <2>3, <2>4
    <3> DEFINE w == Content(Stock(objs), with)
    <3>3. w = w \o <<>>
      <4>1. w \in Bytes
        <5>1. Content(Stock(objs), done) \in Seq(Nat \ {0}) /\ s \in Seq(Nat \ {0})
          BY <1>3, <1>4 DEF Bytes
        <5>2. Content(Stock(objs), done) \o s \in Seq(Nat \ {0})
          BY <5>1, ConcatProperties
        <5> QED BY <1>6, <5>2 DEF Bytes
      <4> HIDE DEF w
      <4> QED BY <4>1, ConcatEmptySeq DEF Bytes
    <3> HIDE DEF w
    <3>4. FlattenSeq(i.blocks) \o i.buf = w \o <<>>
      BY <3>2, <3>3 DEF w
    <3> QED BY <1>1, <1>3, <1>6, <2>1, <2>3, <3>1, <3>4 DEF Fetched, Begun, w
  <2>5. ASSUME ~eof PROVE Fetched(i, Stock(objs), cloud)
    <3>1. SubSeq(i.src, 1, i.k - 1) = done /\ Stock(objs)[i.src[i.k]] = s
      BY <1>6, <2>3, <2>5
    <3>2. i.pos = j.pos + n /\ i.pos # 0 /\ i.pos <= Len(s)
      BY <1>3, <1>4, <2>3, <2>5
    <3> HIDE DEF rest, s, done
    <3>3. FlattenSeq(i.blocks) \o i.buf = Content(Stock(objs), done) \o Begun(s, i.pos)
      BY <1>3, <2>3, <3>2
    <3> QED BY <1>1, <1>3, <2>1, <2>3, <3>1, <3>2, <3>3 DEF Fetched
  <2> QED BY <1>1, <2>2, <2>4, <2>5 DEF Gathered
<1>8. CASE end
  <2> DEFINE new == IF rest = <<>> /\ blocks # <<>> THEN blocks ELSE Append(blocks, rest)
             i == Fetching(j, new, <<>>, j.k, j.pos)
  <2>1. Goto(r, "commit") /\ Set(r, i)
    BY <1>2, <1>8 DEF Pieces
  <2>2. pc'[r] = "commit" /\ job'[r] = i
    BY <2>1, StepMine
  <2>3. i.src = j.src /\ i.blocks = new
    <3> HIDE DEF new, rest, j
    <3> QED BY <1>4 DEF Fetching, Jobs
  <2> HIDE DEF i
  <2>4. Legal(new) /\ FlattenSeq(new) = all
    BY <1>3, <1>4, PartsLegal
  <2> HIDE DEF new, all
  <2>5. FlattenSeq(new) = Content(Stock(objs), j.src) /\ Present(Stock(objs), j.src)
    BY <1>5, <1>6, <1>8, <2>4
  <2> QED BY <1>1, <2>2, <2>3, <2>4, <2>5 DEF Gathered
<1> QED BY <1>7, <1>8
-----------------------------------------------------------------------------
(* What was combined is kept until its bytes are elsewhere.                *)

(* The objects that are combined, and what they are combined into.         *)
LEMMA SrcFacts ==
  ASSUME NEW j \in Jobs, Grouped(j), j.tmps \in 0..Len(TmpNames)
  PROVE  /\ j.src \in Seq(Blobs) /\ j.dest \notin ToSet(j.src) /\ ToSet(j.src) \subseteq Blobs
         /\ j.dest = "data" => ToSet(j.src) \subseteq Usable(j, j.tmps)
         /\ j.dest # "data" => /\ ToSet(j.src) \subseteq Usable(j, j.tmps - 1)
                               /\ j.tmps > 0 /\ j.dest = TmpNames[j.tmps]
<1> DEFINE s == j.src
           t == j.tmps
<1>1. s \in Seq(Blobs) /\ t \in 0..Len(TmpNames)
  BY DEF Jobs
<1>2. \A A, u : u \in Seq(A) => ToSet(u) \subseteq A
  BY ElementOfSeq, LenProperties DEF ToSet
<1>3. ToSet(s) \subseteq Blobs
  BY <1>1, <1>2
<1>4. CASE j.dest = "data"
  <2>1. s \in Seq(Usable(j, t))
    BY <1>4 DEF Grouped
  <2>2. ToSet(s) \subseteq Usable(j, t)
    BY <1>2, <2>1
  <2> HIDE DEF s, t
  <2>3. "data" \notin ToSet(s)
    BY <1>1, <2>2, UsableFacts
  <2> QED BY <1>1, <1>3, <1>4, <2>2, <2>3 DEF s, t
<1>5. CASE j.dest # "data"
  <2>1. s \in Seq(Usable(j, t - 1)) /\ t > 0 /\ j.dest = TmpNames[t]
    BY <1>5 DEF Grouped
  <2>2. ToSet(s) \subseteq Usable(j, t - 1)
    BY <1>2, <2>1
  <2> HIDE DEF s, t
  <2>3. TmpNames[t] \notin ToSet(s)
    BY <1>1, <2>1, <2>2, UsableFacts
  <2> QED BY <1>1, <1>3, <1>5, <2>1, <2>2, <2>3 DEF s, t
<1> QED BY <1>4, <1>5

LEMMA CommitGathers ==
  ASSUME TypeInv, GatherInv, NEW r \in Reqs, Commit(r)
  PROVE  Gathered(pc'[r], job'[r], Stock(objs'), cloud')
<1> DEFINE j == job[r]
           next == IF j.dest = "data" THEN j.back ELSE "group"
<1>1. /\ pc[r] = "commit" /\ ~Refused(r) /\ objs' = Effect(r) /\ cloud' = cloud
      /\ j \in Jobs /\ CombineFits("commit", j)
  BY OpFacts DEF Commit, Fits, outside
<1>2. CASE cloud = "gcs"
  <2>1. Goto(r, next) /\ UNCHANGED job
    BY <1>2 DEF Commit
  <2>2. pc'[r] = next
    BY <2>1, GotoMine
  <2> QED BY <1>1, <2>2, Elsewhere DEF CombineFits
<1>3. CASE cloud # "gcs"
  <2> DEFINE i == [j EXCEPT !.todo = j.src, !.then = next]
  <2>1. Goto(r, "erase") /\ Set(r, i)
    BY <1>3 DEF Commit
  <2>2. pc'[r] = "erase" /\ job'[r] = i
    BY <2>1, StepMine
  <2>3. i.todo = j.src /\ i.dest = j.dest
    BY <1>1 DEF Jobs
  <2> HIDE DEF i
  <2>4. Present(Stock(objs), j.src) /\ FlattenSeq(j.blocks) = Content(Stock(objs), j.src)
    BY <1>1, <1>3 DEF GatherInv, Gathered
  <2>5. /\ j.dest \in Blobs /\ objs'[j.dest] = Content(Stock(objs), j.src) /\ objs'[j.dest] \in Bytes
        /\ \A key \in Keys : key # j.dest => objs'[key] = objs[key]
    BY <1>1, <1>3, <2>4, CommitObjs
  <2>6. Grouped(j) /\ j.tmps \in 0..Len(TmpNames)
    BY <1>1 DEF CombineFits
  <2>7. ASSUME NEW key \in ToSet(j.src)
        PROVE  /\ Stock(objs')[key] = Stock(objs)[key]
               /\ ToSet(Stock(objs)[key]) \subseteq ToSet(Content(Stock(objs), j.src))
    <3> DEFINE s == j.src
               d == j.dest
               o == Stock(objs)
    <3>1. s \in Seq(Blobs) /\ d \notin ToSet(s) /\ key \in ToSet(s) /\ Present(o, s)
      BY <1>1, <2>4, <2>6, <2>7, SrcFacts
    <3>2. Typed(o) /\ \A k \in Keys : k # d => objs'[k] = objs[k]
      BY <2>5, StockFacts
    <3> HIDE DEF s, d, o
    <3>3. key \in Blobs /\ ToSet(o[key]) \subseteq ToSet(Content(o, s))
      BY <3>1, <3>2, ContentWithin
    <3>4. key \in Keys /\ key # d
      BY <3>1, <3>3, KeyFacts
    <3>5. Stock(objs')[key] = Stock(objs)[key]
      BY <3>2, <3>3, <3>4 DEF Stock
    <3> QED BY <3>3, <3>5 DEF s, o
  <2>9. Stock(objs')[j.dest] = objs'[j.dest]
    <3>1. j.dest \in Blobs /\ j.dest \notin Sources
      BY <1>1, <2>6, PlaceFacts
    <3> QED BY <3>1 DEF Stock
  <2>8. Covered(i, Stock(objs'))
    BY <2>3, <2>5, <2>7, <2>9, AbsentFacts DEF Covered
  <2> QED BY <2>2, <2>8 DEF Gathered
<1> QED BY <1>2, <1>3

LEMMA EraseFacts ==
  ASSUME TypeInv, NEW r \in Reqs, Erase(r)
  PROVE  LET j == job[r]
             h == Head(j.todo)
             l == IF Len(j.todo) = 1 THEN j.then ELSE "erase"
         IN /\ pc[r] = "erase" /\ j \in Jobs /\ EraseFits(j)
            /\ pc'[r] = l /\ job'[r] = [j EXCEPT !.todo = Tail(@)]
            /\ job'[r].todo = Tail(j.todo) /\ h \in Keys /\ h \in ToSet(j.todo)
            /\ ToSet(Tail(j.todo)) \subseteq ToSet(j.todo)
            /\ \/ objs' = objs /\ faults' = faults + 1
               \/ objs' = [objs EXCEPT ![h] = Absent] /\ faults' = faults
            /\ j.op # "delete" =>
                 /\ CombineFits("erase", j) /\ h \in ToSet(j.src)
                 /\ j.then = IF j.dest = "data" THEN j.back ELSE "group"
<1> DEFINE j == job[r]
           i == [j EXCEPT !.todo = Tail(@)]
           l == IF Len(j.todo) = 1 THEN j.then ELSE "erase"
<1>1. pc[r] = "erase" /\ j \in Jobs /\ EraseFits(j) /\ Set(r, i)
  BY OpFacts DEF Erase, Fits
<1>2. Goto(r, l)
  BY <1>1 DEF Erase, Goto, TypeInv, Placed
<1> HIDE DEF l
<1>3. pc'[r] = l /\ job'[r] = i
  BY <1>1, <1>2, StepMine
<1>4. i.todo = Tail(j.todo)
  BY <1>1 DEF Jobs
<1>5. /\ Head(j.todo) \in Keys /\ Head(j.todo) \in ToSet(j.todo)
      /\ ToSet(Tail(j.todo)) \subseteq ToSet(j.todo)
  <2> DEFINE t == j.todo
  <2>1. t \in Seq(Keys) /\ t # <<>>
    BY <1>1 DEF Jobs, EraseFits
  <2> HIDE DEF t
  <2>2. /\ Head(t) \in Keys /\ Head(t) = t[1] /\ Len(Tail(t)) = Len(t) - 1
        /\ Tail(t) \in Seq(Keys) /\ \A m \in 1..Len(Tail(t)) : Tail(t)[m] = t[m + 1]
    BY <2>1, HeadTailProperties
  <2>3. /\ Len(t) \in Nat /\ Len(t) > 0 /\ DOMAIN t = 1..Len(t)
        /\ DOMAIN Tail(t) = 1..Len(Tail(t))
    BY <2>1, <2>2, LenProperties, EmptySeq
  <2>4. \A m \in 1..Len(Tail(t)) : m + 1 \in 1..Len(t)
    BY <2>2, <2>3
  <2> DEFINE u == Tail(t)
  <2>5. DOMAIN u = 1..Len(u) /\ \A m \in 1..Len(u) : u[m] = t[m + 1] /\ m + 1 \in DOMAIN t
    BY <2>2, <2>3, <2>4
  <2>6. 1 \in DOMAIN t
    BY <2>3
  <2> HIDE DEF u
  <2>7. ToSet(u) \subseteq ToSet(t)
    BY <2>5 DEF ToSet
  <2> QED BY <2>2, <2>6, <2>7 DEF t, u, ToSet
<1>6. \/ objs' = objs /\ faults' = faults + 1
      \/ objs' = [objs EXCEPT ![Head(j.todo)] = Absent] /\ faults' = faults
  BY <1>1, EraseObjs DEF Erase
<1>7. j.op # "delete" =>
        /\ CombineFits("erase", j) /\ Head(j.todo) \in ToSet(j.src)
        /\ j.then = IF j.dest = "data" THEN j.back ELSE "group"
  <2> DEFINE t == j.todo
             S == ToSet(j.src)
  <2>1. j.op # "delete" => t \in Seq(S) /\ t # <<>>
    BY <1>1 DEF EraseFits
  <2> HIDE DEF t, S
  <2>2. j.op # "delete" => Head(t) \in S
    BY <2>1, HeadTailProperties
  <2> QED BY <1>1, <2>2 DEF t, S, EraseFits
<1> QED BY <1>1, <1>3, <1>4, <1>5, <1>6, <1>7 DEF l

LEMMA EraseGathers ==
  ASSUME TypeInv, GatherInv, NEW r \in Reqs, Erase(r)
  PROVE  Gathered(pc'[r], job'[r], Stock(objs'), cloud')
<1> DEFINE j == job[r]
           i == job'[r]
           h == Head(j.todo)
<1>1. /\ pc[r] = "erase" /\ j \in Jobs /\ EraseFits(j) /\ i = [j EXCEPT !.todo = Tail(@)]
      /\ pc'[r] = IF Len(j.todo) = 1 THEN j.then ELSE "erase"
      /\ i.todo = Tail(j.todo) /\ h \in Keys /\ h \in ToSet(j.todo)
      /\ ToSet(i.todo) \subseteq ToSet(j.todo)
      /\ objs' = objs \/ objs' = [objs EXCEPT ![h] = Absent]
  BY EraseFacts
<1>2. i.op = j.op /\ i.dest = j.dest
  BY <1>1 DEF Jobs
<1>3. CASE j.op = "delete"
  <2>1. j.then \in {"left", "deleted"}
    BY <1>1, <1>3 DEF EraseFits, CombineFits
  <2> HIDE DEF i
  <2> QED BY <1>1, <1>2, <1>3, <2>1 DEF Gathered, i
<1>4. CASE j.op # "delete"
  <2>1. /\ CombineFits("erase", j) /\ h \in ToSet(j.src)
        /\ j.then = IF j.dest = "data" THEN j.back ELSE "group"
    BY <1>4, EraseFacts
  <2>2. j.then \in {"total", "done", "group"} /\ Grouped(j) /\ j.tmps \in 0..Len(TmpNames)
    BY <2>1 DEF CombineFits
  <2>3. h # j.dest
    <3> HIDE DEF h, j
    <3> QED BY <1>1, <2>1, <2>2, SrcFacts
  <2>4. Covered(j, Stock(objs))
    BY <1>1, <1>4 DEF GatherInv, Gathered
  <2>5. j.dest \in Blobs /\ DOMAIN objs = Keys
    BY <1>1 DEF Jobs, TypeInv, ObjsOK
  <2>6. \A key \in Blobs : \/ Stock(objs')[key] = Stock(objs)[key]
                           \/ key = h /\ Stock(objs')[key] = Absent
    <3> HIDE DEF h
    <3>1. \A key \in Blobs : objs'[key] = objs[key] \/ (key = h /\ objs'[key] = Absent)
      BY <1>1, <2>5, KeyFacts
    <3> QED BY <3>1 DEF Stock
  <2>7. \A key \in ToSet(i.todo) : key \in Blobs
    <3>1. ToSet(j.todo) \subseteq Blobs
      <4> DEFINE t == j.todo
                 S == ToSet(j.src)
      <4>1. t \in Seq(S) /\ S \subseteq Blobs
        BY <1>1, <1>4, <2>2, SrcFacts DEF EraseFits
      <4> HIDE DEF t, S
      <4>2. ToSet(t) \subseteq S
        BY <4>1, ElementOfSeq, LenProperties DEF ToSet
      <4> QED BY <4>1, <4>2 DEF t
    <3> QED BY <1>1, <3>1
  <2> HIDE DEF i, h
  <2>8. Covered(i, Stock(objs'))
    BY <1>1, <1>2, <2>3, <2>4, <2>5, <2>6, <2>7 DEF Covered
  <2> QED BY <1>1, <2>2, <2>8, Elsewhere DEF Gathered, i
<1> QED BY <1>3, <1>4

(* The other steps.                                                        *)
LEMMA OtherGathers ==
  ASSUME TypeInv, NEW r \in Reqs,
         \/ Put(r) \/ LoseCall(r) \/ Fail(r) \/ Patch(r) \/ Others(r)
         \/ Post(r) /\ \A s \in given : ~TakePartial(r, s)
  PROVE  pc'[r] \notin {"fetch", "commit", "erase"} \/ (pc'[r] = "erase" /\ job'[r].op = "delete")
<1>1. CASE Put(r)
  <2>1. Goto(r, job[r].then) /\ UNCHANGED job /\ PutFits(job[r])
    BY <1>1, OpFacts DEF Put, Fits
  <2>2. pc'[r] = job[r].then
    BY <2>1, GotoMine
  <2> QED BY <2>1, <2>2 DEF PutFits
<1>2. CASE LoseCall(r) \/ Fail(r)
  BY <1>2, EndMine DEF LoseCall, Fail
<1>3. CASE Post(r) /\ \A s \in given : ~TakePartial(r, s)
  BY <1>3 DEF Post, PostArrive, Concatenate, SaveTotal, PostNoBody, PostBody, Write,
              TypeInv, Placed, Goto, Set
<1>4. CASE Patch(r)
  <2>1. CASE Reread(r) \/ Done(r)
    BY <2>1, EndMine DEF Reread, Done, TypeInv, Placed, Goto, Set
  <2>2. CASE ~(Reread(r) \/ Done(r))
    BY <1>4, <2>2 DEF Patch, Arrive, LoadPatch, Declare, ReadChunk, WritePart, SaveOffset,
                      PreFinish, Finalize, Write, TypeInv, Placed, Goto, Set
  <2> QED BY <2>1, <2>2
<1>5. CASE Others(r)
  <2>1. CASE Delete(r)
    <3> DEFINE i == [job[r] EXCEPT !.todo = <<"data", "info">>, !.then = "left"]
    <3>1. Set(r, i) /\ Goto(r, "erase") /\ job[r].op = "delete"
      BY <2>1 DEF Delete
    <3>2. i.op = job[r].op
      BY OpFacts DEF Jobs
    <3> HIDE DEF i
    <3> QED BY <3>1, <3>2, StepMine
  <2>2. CASE DeleteParts(r)
    <3>1. CASE Goto(r, "deleted") /\ UNCHANGED job
      BY <3>1, GotoMine
    <3>2. CASE ~(Goto(r, "deleted") /\ UNCHANGED job)
      <4> DEFINE i == [job[r] EXCEPT !.todo = ListParts, !.then = "deleted"]
      <4>1. Set(r, i) /\ Goto(r, "erase") /\ pc[r] = "left"
        BY <2>2, <3>2 DEF DeleteParts
      <4>2. i.op = job[r].op /\ job[r].op = "delete"
        BY <4>1, OpFacts DEF Jobs, Fits
      <4> HIDE DEF i
      <4> QED BY <4>1, <4>2, StepMine
    <3> QED BY <3>1, <3>2
  <2>3. CASE ~(Delete(r) \/ DeleteParts(r))
    BY <1>5, <2>3, EndMine DEF Others, Arrive, Lock, HeadRequest, LoadGet, GetRead,
                       DeletePartsUnlisted, Deleted, TypeInv, Placed, Goto, Set
  <2> QED BY <2>1, <2>2, <2>3
<1> QED BY <1>1, <1>2, <1>3, <1>4, <1>5

LEMMA TakenGathers ==
  ASSUME TypeInv, GatherInv, NEW r \in Reqs, NEW s \in given, TakePartial(r, s)
  PROVE  \A q \in Reqs : Gathered(pc'[q], job'[q], Stock(objs'), cloud')
<1>1. /\ objs' = [objs EXCEPT ![s] = Absent] /\ s \in Sources /\ DOMAIN objs = Keys
      /\ pc' = pc /\ job' = job /\ cloud' = cloud
  BY DEF TakePartial, TypeInv, Counters, ObjsOK
<1>2. Stock(objs') = Stock(objs)
  BY <1>1, KeyFacts, StockKept
<1> QED BY <1>1, <1>2 DEF GatherInv

LEMMA GatherStep == ASSUME TypeInv, GatherInv, [Next]_vars PROVE GatherInv'
<1> SUFFICES \A q \in Reqs : Gathered(pc'[q], job'[q], Stock(objs'), cloud')
  BY OriginalsKept DEF GatherInv
<1>1. CASE UNCHANGED vars
  BY <1>1 DEF GatherInv, vars
<1>2. ASSUME NEW r \in Reqs, Acts(r), \A s \in given : ~TakePartial(r, s)
      PROVE  \A q \in Reqs : Gathered(pc'[q], job'[q], Stock(objs'), cloud')
  <2>1. Gathered(pc'[r], job'[r], Stock(objs'), cloud')
    <3>1. CASE Put(r) \/ LoseCall(r) \/ Fail(r) \/ Post(r) \/ Patch(r) \/ Others(r)
      BY <1>2, <3>1, OtherGathers DEF Gathered
    <3>2. CASE Erase(r)
      BY <3>2, EraseGathers
    <3>3. CASE Combine(r)
      BY <3>3, GroupGathers, FetchBlockGathers, FetchPieceGathers, CommitGathers DEF Combine
    <3> QED BY <1>2, <3>1, <3>2, <3>3 DEF Acts
  <2>2. Mine(r) /\ cloud' = cloud
    BY <1>2, Frame
  <2>3. ASSUME NEW q \in Reqs, q # r PROVE Gathered(pc'[q], job'[q], Stock(objs'), cloud')
    <3>1. pc'[q] = pc[q] /\ job'[q] = job[q] /\ Gathered(pc[q], job[q], Stock(objs), cloud)
      BY <2>2, <2>3 DEF Mine, GatherInv
    <3>2. CASE Active(r)
      <4>1. pc[q] \in {"idle", "lock"}
        BY <2>3, <3>2, Solo DEF Active
      <4> QED BY <3>1, <4>1, Elsewhere
    <3>3. CASE ~Active(r)
      <4>1. objs' = objs
        BY <1>2, <3>3, Waiting
      <4> QED BY <2>2, <3>1, <4>1
    <3> QED BY <3>2, <3>3
  <2> QED BY <2>1, <2>3
<1>3. ASSUME NEW r \in Reqs, NEW s \in given, TakePartial(r, s)
      PROVE  \A q \in Reqs : Gathered(pc'[q], job'[q], Stock(objs'), cloud')
  BY <1>3, TakenGathers
<1> QED BY <1>1, <1>2, <1>3 DEF Next, Acts

LEMMA GatherInit == Init => GatherInv
<1> SUFFICES ASSUME Init, NEW r \in Reqs PROVE Gathered(pc[r], job[r], Stock(objs), cloud)
  BY OriginalsInit DEF GatherInv
<1>1. pc[r] = "idle"
  BY DEF Init
<1> QED BY <1>1, Elsewhere

LEMMA GatherInvariance == Spec => [](TypeInv /\ GatherInv)
<1>1. Init => TypeInv /\ GatherInv
  BY TypeInit, GatherInit
<1>2. (TypeInv /\ GatherInv) /\ [Next]_vars => (TypeInv /\ GatherInv)'
  BY TypeStep, GatherStep
<1> QED BY <1>1, <1>2, PTL DEF Spec

(* s3/store.rs:29, "minimum size (except the last part)": whatever sizes   *)
(* the reads of the sources come in, what is handed to                     *)
(* complete_multipart_upload are parts of just that size, but the last,    *)
(* and their bytes are those of all the sources, in order, whoever takes   *)
(* one of them meanwhile.                                                  *)
THEOREM Multipart == Spec => []MultipartLegal
<1>1. ASSUME TypeInv, GatherInv, NEW r \in Reqs, cloud = "s3", pc[r] = "commit"
      PROVE  /\ Legal(job[r].blocks)
             /\ FlattenSeq(job[r].blocks)
                  = FlattenSeq([i \in DOMAIN job[r].src |-> Original(job[r].src[i])])
  <2> DEFINE s == job[r].src
  <2>1. Legal(job[r].blocks) /\ FlattenSeq(job[r].blocks) = Content(Stock(objs), s)
    BY <1>1 DEF GatherInv, Gathered
  <2>2. s \in Seq(Blobs)
    BY <1>1, OpFacts DEF Jobs
  <2> HIDE DEF s
  <2>3. \A i \in DOMAIN s : s[i] \in Blobs
    BY <2>2, ElementOfSeq, LenProperties
  <2>4. \A i \in DOMAIN s : Stock(objs)[s[i]] = Original(s[i])
    BY <2>3 DEF Stock, Original, Sources
  <2>5. Content(Stock(objs), s) = FlattenSeq([i \in DOMAIN s |-> Original(s[i])])
    BY <2>4 DEF Content
  <2> QED BY <2>1, <2>5 DEF s
<1>2. TypeInv /\ GatherInv => MultipartLegal
  BY <1>1 DEF Legal, MultipartLegal
<1> QED BY <1>2, GatherInvariance, PTL

-----------------------------------------------------------------------------
(* What a request knows of the info, which nobody else writes meanwhile.   *)

PutsFor(l, j, then) == l = "put" /\ j.then = then
CombinesFor(l, j, back) ==
  /\ l \in {"group", "fetch", "commit"} \/ (l = "erase" /\ j.op # "delete")
  /\ j.back = back

(* write_chunk's checks, which hold as long as the info is the same.       *)
Ready(i, j) == i.offset = j.at /\ (i.size # NoLen => j.at + j.n <= i.size)

Steady(l, j, i) ==
  /\ l \in {"list", "save"} \/ PutsFor(l, j, "save") => i # Absent /\ i = j.info /\ Ready(i, j)
  /\ PutsFor(l, j, "save") => j.value = Chunk(j.at, j.n)
  /\ PutsFor(l, j, "reread") =>
       i # Absent /\ Ready(i, j) /\ j.value = [i EXCEPT !.offset = j.at + j.n]
  /\ l = "declare" => i # Absent /\ ~i.final
  /\ PutsFor(l, j, "chunk") =>
       /\ i # Absent /\ i.size = NoLen /\ ~i.final
       /\ j.value.offset = i.offset /\ ~j.value.final
  /\ l \in {"finish", "parts", "done", "read"} \/ PutsFor(l, j, "done") \/ CombinesFor(l, j, "done")
       => i # Absent /\ i = j.info /\ IsComplete(i)
  /\ l \in {"concat", "total"} \/ CombinesFor(l, j, "total") => i # Absent /\ i.final
  /\ l \in {"body", "chunk", "list", "save", "reread"} \/ PutsFor(l, j, "save")
     \/ PutsFor(l, j, "reread") => i # Absent /\ (i.final => IsComplete(i))
  /\ PutsFor(l, j, "body") =>
       /\ j.value.final => IsComplete(j.value)
       /\ i # Absent => i.final /\ j.value.final
  /\ PutsFor(l, j, "concat") => i = Absent /\ j.value.final

SteadyInv ==
  /\ life = "new" => ~Found
  /\ \A r \in Reqs : Steady(pc[r], job[r], Info)

-----------------------------------------------------------------------------
(* Where the bytes of an upload are.                                       *)

Holds(o, b, keys) == \E key \in keys : o[key] # Absent /\ b \in ToSet(o[key])

(* The bytes 1 to n of a file are in objects.                              *)
Held(o, n, keys) == \A b \in 1..n : Holds(o, b, keys)

(* No data object, and no intermediate but the first t.                    *)
Vacant(o, t) ==
  o["data"] = Absent /\ \A i \in 1..Len(TmpNames) : i > t => o[TmpNames[i]] = Absent

(* Where the next object goes there is none.                               *)
Clear(l, j, o) ==
  /\ l = "group" \/ (l \in {"fetch", "commit"} /\ j.dest = "data") => Vacant(o, j.tmps)
  /\ l \in {"fetch", "commit"} /\ j.dest # "data" => Vacant(o, j.tmps - 1)
  /\ l = "erase" /\ j.dest # "data" => Vacant(o, j.tmps)

Complete(i) == i # Absent /\ IsComplete(i)

(* A partial has all its bytes, or the final upload has.                   *)
Accounted(o, s, bytes) == o[s] = bytes \/ \A b \in ToSet(bytes) : Holds(o, b, Own)
Safe(o, g) ==
  \A i \in 1..Len(SourceNames) :
    SourceNames[i] \in g => Accounted(o, SourceNames[i], SourceBytes[i])
Intact(o, g) ==
  \A i \in 1..Len(SourceNames) : SourceNames[i] \in g => o[SourceNames[i]] = SourceBytes[i]

(* The POST has not begun to combine.                                      *)
Before(l, j) ==
  \/ l \in {"concat", "body", "chunk", "list", "save", "reread"}
  \/ l = "put" /\ ~(j.then = "body" /\ IsComplete(j.value))

Partial(l, j, o, g) ==
  ~Complete(o["info"]) =>
    /\ Before(l, j) => Intact(o, g) /\ Vacant(o, 0)
    /\ CombinesFor(l, j, "total") => Clear(l, j, o)

PartialInv ==
  /\ life = "new" => Intact(objs, given) /\ Vacant(objs, 0)
  /\ life \in {"new", "made"} /\ ~Complete(Info) => Safe(objs, given)
  /\ \A r \in Reqs : life = "made" /\ job[r].op = "post" => Partial(pc[r], job[r], objs, given)

-----------------------------------------------------------------------------
(* The info stays what a request takes it for.                             *)

LEMMA SteadyRest ==
  ASSUME NEW l, NEW j, NEW i,
         l \in {"idle", "lock", "load", "left", "deleted"} \/ (l = "erase" /\ j.op = "delete")
  PROVE  Steady(l, j, i)
BY DEF Steady, PutsFor, CombinesFor

(* A step with which the handler is done.                                  *)
LEMMA SteadyEnd ==
  ASSUME TypeInv, NEW r \in Reqs, End(r)
  PROVE  Steady(pc'[r], job'[r], objs'["info"])
BY EndMine, SteadyRest

LEMMA SteadyAt ==
  ASSUME SteadyInv, NEW r \in Reqs
  PROVE  Steady(pc[r], job[r], Info) /\ (life = "new" => ~Found)
BY DEF SteadyInv

LEMMA PutSteady ==
  ASSUME TypeInv, SteadyInv, NEW r \in Reqs, Put(r)
  PROVE  Steady(pc'[r], job'[r], objs'["info"])
<1> DEFINE j == job[r]
           then == j.then
           v == j.value
           i == Info
           ii == objs'["info"]
<1>1. /\ pc[r] = "put" /\ j \in Jobs /\ PutFits(j) /\ objs' = [objs EXCEPT ![j.key] = j.value]
      /\ Goto(r, then) /\ UNCHANGED job
  BY OpFacts, PutObjs DEF Put, Fits
<1>2. pc'[r] = then /\ job'[r] = j
  BY <1>1, GotoMine
<1>3. Steady("put", j, i)
  BY <1>1, SteadyAt
<1>4. IF then \in {"save", "done"} THEN ii = i ELSE ii = v /\ v \in Infos /\ v # Absent
  <2>1. then \in {"save", "done"} => j.key # "info"
    BY <1>1, KeyFacts DEF PutFits
  <2>2. then \notin {"save", "done"} => j.key = "info" /\ v \in Infos
    BY <1>1 DEF PutFits
  <2> QED BY <1>1, <2>1, <2>2, KeyFacts, AbsentFacts DEF TypeInv, ObjsOK, Info
<1>5. then \in {"concat", "body", "chunk", "save", "reread", "done"}
  BY <1>1 DEF PutFits
<1>6. i # Absent => i \in Infos
  BY InfoFacts DEF Found, Info
<1>7. j.at \in Nat /\ j.n \in Nat
  BY <1>1 DEF Jobs
<1> HIDE DEF ii, i, j
<1>8. CASE then = "reread"
  <2>1. i # Absent /\ Ready(i, j) /\ v = [i EXCEPT !.offset = j.at + j.n] /\ ii = v
    BY <1>3, <1>4, <1>8 DEF Steady, PutsFor
  <2>2. i.size \in Nat \union {NoLen} /\ i.offset \in Nat
    BY <1>6, <2>1 DEF Infos
  <2>3. v.final = i.final /\ v.size = i.size /\ v.offset = j.at + j.n
    BY <1>6, <2>1 DEF Infos
  <2>4. IsComplete(i) => IsComplete(v)
    BY <1>7, <2>1, <2>2, <2>3 DEF IsComplete, Ready
  <2>5. i.final => IsComplete(i)
    BY <1>3, <1>8 DEF Steady, PutsFor
  <2>6. v # Absent
    BY <1>4, <1>8
  <2> HIDE DEF v
  <2> QED BY <1>2, <1>8, <2>1, <2>3, <2>4, <2>5, <2>6 DEF Steady, PutsFor, CombinesFor, ii
<1>9. CASE then \in {"save", "done"}
  BY <1>2, <1>3, <1>4, <1>9 DEF Steady, PutsFor, CombinesFor, ii
<1>10. CASE then \in {"concat", "body", "chunk"}
  <2>1. ii = v /\ v # Absent
    BY <1>4, <1>10
  <2>2. /\ then = "concat" => v.final
        /\ then = "body" => (v.final => IsComplete(v))
        /\ then = "chunk" => ~v.final
    BY <1>3, <1>10 DEF Steady, PutsFor
  <2> HIDE DEF v
  <2> QED BY <1>2, <1>10, <2>1, <2>2 DEF Steady, PutsFor, CombinesFor, ii
<1> QED BY <1>5, <1>8, <1>9, <1>10

LEMMA CombineSteady ==
  ASSUME TypeInv, SteadyInv, NEW r \in Reqs, Combine(r)
  PROVE  Steady(pc'[r], job'[r], objs'["info"])
<1> DEFINE j == job[r]
           i == Info
           l == pc[r]
<1>1. j \in Jobs /\ l \in {"group", "fetch", "commit"} /\ CombineFits(l, j) /\ Steady(l, j, i)
  BY OpFacts, SteadyAt DEF Combine, NextGroup, FetchBlock, FetchPiece, Commit, Fits
<1>2. /\ j.back \in {"total", "done"}
      /\ j.back = "done" => i # Absent /\ i = j.info /\ IsComplete(i)
      /\ j.back = "total" => i # Absent /\ i.final
  BY <1>1 DEF CombineFits, Steady, CombinesFor
<1>3. objs'["info"] = i
  <2>1. CASE Commit(r)
    BY <2>1, CommitObjs DEF Commit, Info
  <2>2. CASE ~Commit(r)
    BY <2>2 DEF Combine, NextGroup, FetchBlock, FetchPiece, Info
  <2> QED BY <2>1, <2>2
<1>4. /\ job'[r].back = j.back /\ job'[r].info = j.info
      /\ pc'[r] \in {"group", "fetch", "commit", "erase", j.back}
  <2>1. CASE NextGroup(r)
    <3>1. PICK g \in Jobs : Set(r, g) /\ g.back = j.back /\ g.info = j.info
      BY <2>1, GroupFacts
    <3>2. Goto(r, IF cloud = "gcs" THEN "commit" ELSE "fetch")
      BY <2>1 DEF NextGroup
    <3> HIDE DEF j
    <3> QED BY <3>1, <3>2, StepMine
  <2>2. CASE FetchBlock(r) \/ FetchPiece(r)
    <3>1. pc'[r] \in {"fetch", "commit"}
      BY <1>1, <2>2 DEF FetchBlock, FetchPiece, Goto, TypeInv, Placed
    <3>2. \E bs, b, k, p : job'[r] = Fetching(j, bs, b, k, p)
      <4>1. CASE FetchBlock(r)
        BY <4>1, FetchBlockFacts, StepMine
      <4>2. CASE FetchPiece(r)
        <5>1. PICK n \in Nat, c \in Nat, buf \in Bytes, blocks \in Seq(Bytes) :
                     Pieces(r, n, c, buf, blocks)
          BY <4>2, PieceFacts
        <5>2. \E x, bs, b, k, p : Goto(r, x) /\ Set(r, Fetching(j, bs, b, k, p))
          BY <5>1 DEF Pieces
        <5> QED BY <5>2, StepMine
      <4> QED BY <2>2, <4>1, <4>2
    <3>3. job'[r].back = j.back /\ job'[r].info = j.info
      <4>1. PICK bs, b, k, p : job'[r] = Fetching(j, bs, b, k, p)
        BY <3>2
      <4> HIDE DEF j
      <4> QED BY <1>1, <4>1 DEF Fetching, Jobs
    <3> QED BY <3>1, <3>3
  <2>3. CASE Commit(r)
    <3> DEFINE next == IF j.dest = "data" THEN j.back ELSE "group"
               k == [j EXCEPT !.todo = j.src, !.then = next]
    <3>1. k.back = j.back /\ k.info = j.info
      BY <1>1 DEF Jobs
    <3>2. (Goto(r, next) /\ UNCHANGED job) \/ (Goto(r, "erase") /\ Set(r, k))
      BY <2>3 DEF Commit
    <3> HIDE DEF k, j
    <3> QED BY <3>1, <3>2, GotoMine, StepMine DEF j
  <2> QED BY <2>1, <2>2, <2>3 DEF Combine
<1> HIDE DEF j, i, l
<1> QED BY <1>2, <1>3, <1>4 DEF Steady, PutsFor, CombinesFor

LEMMA EraseSteady ==
  ASSUME TypeInv, SteadyInv, NEW r \in Reqs, Erase(r)
  PROVE  Steady(pc'[r], job'[r], objs'["info"])
<1> DEFINE j == job[r]
           k == job'[r]
           h == Head(j.todo)
           l == IF Len(j.todo) = 1 THEN j.then ELSE "erase"
<1>1. /\ pc[r] = "erase" /\ j \in Jobs /\ EraseFits(j) /\ k = [j EXCEPT !.todo = Tail(@)]
      /\ pc'[r] = l /\ (objs' = objs \/ objs' = [objs EXCEPT ![h] = Absent])
  BY EraseFacts
<1>2. k.op = j.op /\ k.back = j.back /\ k.info = j.info
  BY <1>1 DEF Jobs
<1>3. CASE j.op = "delete"
  <2>1. l \in {"left", "deleted", "erase"}
    BY <1>1, <1>3 DEF EraseFits, CombineFits
  <2> HIDE DEF k, l
  <2> QED BY <1>1, <1>2, <1>3, <2>1, SteadyRest DEF k
<1>4. CASE j.op # "delete"
  <2>1. /\ CombineFits("erase", j) /\ h \in ToSet(j.src)
        /\ j.then = IF j.dest = "data" THEN j.back ELSE "group"
    BY <1>4, EraseFacts
  <2>2. h # "info"
    <3>1. Grouped(j) /\ j.tmps \in 0..Len(TmpNames)
      BY <2>1 DEF CombineFits
    <3> HIDE DEF j, h
    <3> QED BY <1>1, <2>1, <3>1, SrcFacts, KeyFacts
  <2>3. objs'["info"] = Info
    <3> HIDE DEF h
    <3> QED BY <1>1, <2>2, KeyFacts DEF TypeInv, ObjsOK, Info
  <2>4. l \in {"erase", "group", j.back}
    BY <2>1
  <2>5. /\ j.back \in {"total", "done"}
        /\ j.back = "done" => Info # Absent /\ Info = j.info /\ IsComplete(Info)
        /\ j.back = "total" => Info # Absent /\ Info.final
    <3>1. Steady("erase", j, Info)
      BY <1>1, SteadyAt
    <3> QED BY <1>4, <2>1, <3>1 DEF CombineFits, Steady, CombinesFor
  <2> DEFINE i == Info
  <2> HIDE DEF k, l, j, i
  <2> QED BY <1>1, <1>2, <2>3, <2>4, <2>5 DEF Steady, PutsFor, CombinesFor, i, k
<1> QED BY <1>3, <1>4

(* A handler writes an object: what it knows is still so.                  *)
LEMMA WriteSteady ==
  ASSUME TypeInv, NEW r \in Reqs, NEW key \in Keys, NEW value \in Infos \union Bytes,
         NEW l \in Labels, Write(r, key, value, l), objs' = objs
  PROVE  /\ pc'[r] = "put" /\ job'[r] = Putting(job[r], key, value, l) /\ objs'["info"] = Info
         /\ job'[r].key = key /\ job'[r].value = value /\ job'[r].then = l
         /\ job'[r].at = job[r].at /\ job'[r].n = job[r].n /\ job'[r].info = job[r].info
         /\ job'[r].op = job[r].op
<1>1. job[r] \in Jobs
  BY OpFacts
<1>2. Goto(r, "put") /\ Set(r, Putting(job[r], key, value, l))
  BY DEF Write, Putting
<1>3. pc'[r] = "put" /\ job'[r] = Putting(job[r], key, value, l)
  BY <1>2, StepMine
<1> QED BY <1>1, <1>3, PuttingFacts DEF Info

LEMMA PostSteady ==
  ASSUME TypeInv, SteadyInv, NEW r \in Reqs, Post(r)
  PROVE  Steady(pc'[r], job'[r], objs'["info"])
<1> DEFINE j == job[r]
           i == Info
           l == pc[r]
<1>1. j \in Jobs /\ Fits(l, j) /\ Steady(l, j, i) /\ (life = "new" => i = Absent)
  BY OpFacts, SteadyAt DEF Found, Info
<1>2. ASSUME NEW size \in Sizes, NEW kind \in Kinds, PostArrive(r, size, kind)
      PROVE  Steady(pc'[r], job'[r], objs'["info"])
  <2> DEFINE k == job'[r]
             v == [size |-> size, offset |-> 0, final |-> kind = "final"]
  <2>1. /\ life = "new" /\ pc'[r] = "put" /\ k.value = v
        /\ k.then = (IF kind = "final" THEN "concat" ELSE "body") /\ objs' = objs
    BY <1>2, PostArrives
  <2>2. v.final = (kind = "final")
    OBVIOUS
  <2> HIDE DEF k, v
  <2> QED BY <1>1, <2>1, <2>2 DEF Steady, PutsFor, CombinesFor, Info, k
<1>3. ASSUME NEW s \in given, TakePartial(r, s) PROVE Steady(pc'[r], job'[r], objs'["info"])
  <2>1. s # "info"
    BY KeyFacts DEF TypeInv, Counters
  <2>2. pc'[r] = l /\ job'[r] = j /\ objs'["info"] = i
    BY <1>3, <2>1 DEF TakePartial, Info
  <2> QED BY <1>1, <2>2
<1>4. CASE Concatenate(r)
  <2> DEFINE k == [j EXCEPT !.level = SourceNames, !.back = "total"]
  <2>1. l = "concat" /\ Goto(r, "group") /\ Set(r, k) /\ objs' = objs
    BY <1>4 DEF Concatenate
  <2>2. k.back = "total"
    BY <1>1 DEF Jobs
  <2> HIDE DEF k
  <2>3. pc'[r] = "group" /\ job'[r].back = "total"
    BY <2>1, <2>2, StepMine
  <2>4. i # Absent /\ i.final
    BY <1>1, <2>1 DEF Steady
  <2> QED BY <2>1, <2>3, <2>4 DEF Steady, PutsFor, CombinesFor, Info
<1>5. CASE SaveTotal(r)
  <2> DEFINE v == [size |-> FinalLen, offset |-> FinalLen, final |-> TRUE]
  <2>1. l = "total" /\ Write(r, "info", v, "body") /\ objs' = objs
    BY <1>5 DEF SaveTotal
  <2>2. v \in Infos \union Bytes /\ v.final /\ IsComplete(v)
    <3>1. FinalLen \in Nat
      BY FinalLenType
    <3> QED BY <3>1, AbsentFacts DEF Infos, IsComplete
  <2> HIDE DEF v
  <2>3. pc'[r] = "put" /\ job'[r].value = v /\ job'[r].then = "body" /\ objs'["info"] = i
    BY <2>1, <2>2, WriteSteady, KeyFacts DEF Labels
  <2>4. i # Absent /\ i.final
    BY <1>1, <2>1 DEF Steady
  <2> HIDE DEF i
  <2> QED BY <2>2, <2>3, <2>4 DEF Steady, PutsFor, CombinesFor
<1>6. ASSUME PostNoBody(r) \/ \E n \in ChunkLens : PostBody(r, n)
      PROVE  Steady(pc'[r], job'[r], objs'["info"])
  <2>1. /\ l = "body" /\ objs' = objs /\ pc'[r] \in {"reread", "chunk"}
    BY <1>6 DEF PostNoBody, PostBody, Goto, TypeInv, Placed
  <2>2. i # Absent /\ (i.final => IsComplete(i)) /\ objs'["info"] = i
    BY <1>1, <2>1 DEF Steady, Info
  <2> HIDE DEF i
  <2> QED BY <2>1, <2>2 DEF Steady, PutsFor, CombinesFor
<1> QED BY <1>2, <1>3, <1>4, <1>5, <1>6 DEF Post

(* What the steps of write_chunk and of what follows it do to a request.   *)

LEMMA DeclareFacts ==
  ASSUME TypeInv, NEW r \in Reqs, NEW n \in Sizes \ {NoLen}, Declare(r, n)
  PROVE  LET k == job'[r]
         IN /\ pc[r] = "declare" /\ pc'[r] = "put" /\ objs' = objs /\ Found /\ n \in Nat
            /\ Info.size = NoLen /\ k.key = "info" /\ k.then = "chunk" /\ k.op = job[r].op
            /\ k.value.size = n /\ k.value.offset = Info.offset /\ k.value.final = Info.final
            /\ k.value \in Infos /\ k.n = job[r].n
<1> DEFINE v == [Info EXCEPT !.size = n]
<1>1. pc[r] = "declare" /\ objs' = objs /\ Found /\ Info.size = NoLen /\ Write(r, "info", v, "chunk")
  BY DEF Declare
<1>2. n \in Nat /\ Info \in Infos
  BY <1>1, ObjectAssumption, InfoFacts
<1>3. v \in Infos /\ v.size = n /\ v.offset = Info.offset /\ v.final = Info.final
  BY <1>2 DEF Infos
<1> HIDE DEF v
<1>4. v \in Infos \union Bytes /\ "info" \in Keys /\ "chunk" \in Labels
  BY <1>3, KeyFacts DEF Labels
<1> QED BY <1>1, <1>2, <1>3, <1>4, WriteSteady

LEMMA ReadChunkFacts ==
  ASSUME TypeInv, NEW r \in Reqs, ReadChunk(r)
  PROVE  LET j == job[r]
             k == job'[r]
         IN /\ pc[r] = "chunk" /\ pc'[r] = "list" /\ objs' = objs /\ Found
            /\ k.info = Info /\ Ready(Info, k) /\ k.op = j.op /\ k.at = j.at /\ k.n = j.n
<1> DEFINE i == [job[r] EXCEPT !.info = Info]
<1>1. /\ pc[r] = "chunk" /\ objs' = objs /\ Found /\ Ready(Info, job[r]) /\ Set(r, i)
      /\ Goto(r, "list")
  BY DEF ReadChunk, Ready
<1>2. job[r] \in Jobs /\ Info \in Infos
  BY <1>1, OpFacts, InfoFacts
<1>3. i.info = Info /\ i.op = job[r].op /\ i.at = job[r].at /\ i.n = job[r].n
  BY <1>2 DEF Jobs
<1> HIDE DEF i
<1>4. job'[r] = i /\ pc'[r] = "list"
  BY <1>1, StepMine
<1> QED BY <1>1, <1>3, <1>4 DEF Ready

LEMMA WritePartFacts ==
  ASSUME TypeInv, NEW r \in Reqs, WritePart(r)
  PROVE  LET j == job[r]
             k == job'[r]
         IN /\ pc[r] = "list" /\ pc'[r] = "put" /\ objs' = objs /\ k.then = "save"
            /\ Len(ListParts) \in Nat /\ Len(ListParts) < Len(PartNames)
            /\ k.key = PartNames[Len(ListParts) + 1] /\ k.key \in Parts
            /\ k.value = Chunk(j.at, j.n)
            /\ k.op = j.op /\ k.at = j.at /\ k.n = j.n /\ k.info = j.info
<1> DEFINE v == Chunk(job[r].at, job[r].n)
           key == PartNames[Len(ListParts) + 1]
<1>1. /\ pc[r] = "list" /\ objs' = objs /\ Len(ListParts) < Len(PartNames)
      /\ Write(r, key, v, "save") /\ job[r] \in Jobs
  BY OpFacts DEF WritePart
<1>2. Len(ListParts) \in Nat
  BY ListFacts, LenProperties
<1>3. key \in Parts /\ key \in Keys
  <2>1. Len(ListParts) + 1 \in 1..Len(PartNames)
    BY <1>1, <1>2, PartFacts
  <2> QED BY <2>1, PartFacts, KeyFacts
<1>4. v \in Infos \union Bytes
  BY <1>1, ChunkFacts DEF Jobs
<1> HIDE DEF v, key
<1>5. "save" \in Labels
  BY DEF Labels
<1> QED BY <1>1, <1>2, <1>3, <1>4, <1>5, WriteSteady DEF v, key

LEMMA SaveOffsetFacts ==
  ASSUME TypeInv, NEW r \in Reqs, SaveOffset(r)
  PROVE  LET j == job[r]
             k == job'[r]
         IN /\ pc[r] = "save" /\ pc'[r] = "put" /\ objs' = objs /\ k.then = "reread"
            /\ k.key = "info" /\ k.value = [j.info EXCEPT !.offset = j.at + j.n] /\ k.value \in Infos
            /\ k.op = j.op /\ k.at = j.at /\ k.n = j.n /\ k.info = j.info
<1> DEFINE v == [job[r].info EXCEPT !.offset = job[r].at + job[r].n]
<1>1. /\ pc[r] = "save" /\ objs' = objs /\ Write(r, "info", v, "reread")
      /\ job[r] \in Jobs /\ job[r].info \in Infos
  BY OpFacts DEF SaveOffset, Fits
<1>2. v \in Infos
  <2>1. job[r].at + job[r].n \in Nat
    BY <1>1 DEF Jobs
  <2> QED BY <1>1, <2>1 DEF Infos
<1> HIDE DEF v
<1>3. "reread" \in Labels /\ "info" \in Keys /\ v \in Infos \union Bytes
  BY <1>2, KeyFacts DEF Labels
<1> QED BY <1>1, <1>2, <1>3, WriteSteady DEF v

LEMMA RereadFacts ==
  ASSUME TypeInv, NEW r \in Reqs, Reread(r)
  PROVE  /\ pc[r] = "reread" /\ objs' = objs /\ Found
         /\ \/ /\ IsComplete(Info) /\ pc'[r] = "finish" /\ job'[r].info = Info
               /\ life' = life /\ told' = told /\ job'[r].op = job[r].op /\ job'[r].n = job[r].n
            \/ /\ ~IsComplete(Info) /\ End(r) /\ Tell(Info.offset)
               /\ life' = IF life = "made" THEN "known" ELSE life
<1> DEFINE i == [job[r] EXCEPT !.info = Info]
<1>1. /\ pc[r] = "reread" /\ objs' = objs /\ Found /\ job[r] \in Jobs
      /\ IsComplete(Info) => Set(r, i) /\ Goto(r, "finish") /\ life' = life /\ told' = told
      /\ ~IsComplete(Info) => /\ End(r) /\ Tell(Info.offset)
                              /\ life' = IF life = "made" THEN "known" ELSE life
  BY OpFacts DEF Reread
<1>2. i.info = Info /\ i.op = job[r].op /\ i.n = job[r].n
  BY <1>1 DEF Jobs
<1> HIDE DEF i
<1> QED BY <1>1, <1>2, StepMine

LEMMA FinalizeFacts ==
  ASSUME TypeInv, NEW r \in Reqs, Finalize(r)
  PROVE  LET j == job[r]
             k == job'[r]
         IN /\ pc[r] = "parts" /\ objs' = objs /\ k.op = j.op /\ k.info = j.info /\ k.n = j.n
            /\ \/ /\ ListParts = <<>> /\ pc'[r] = "put" /\ k.then = "done" /\ k.key = "data"
                  /\ k.value = <<>>
               \/ /\ ListParts # <<>> /\ pc'[r] = "group" /\ k.back = "done" /\ k.tmps = 0
                  /\ k.level = ListParts /\ k.made = <<>>
<1> DEFINE i == [job[r] EXCEPT !.level = ListParts, !.made = <<>>, !.tmps = 0, !.back = "done"]
<1>1. /\ pc[r] = "parts" /\ objs' = objs /\ job[r] \in Jobs
      /\ ListParts = <<>> => Write(r, "data", <<>>, "done")
      /\ ListParts # <<>> => Set(r, i) /\ Goto(r, "group")
  BY OpFacts DEF Finalize
<1>2. /\ i.op = job[r].op /\ i.info = job[r].info /\ i.back = "done" /\ i.tmps = 0 /\ i.n = job[r].n
      /\ i.level = ListParts /\ i.made = <<>>
  BY <1>1 DEF Jobs
<1>3. "done" \in Labels /\ "data" \in Keys /\ <<>> \in Infos \union Bytes
  BY KeyFacts, EmptySeq DEF Labels, Bytes
<1> HIDE DEF i
<1> QED BY <1>1, <1>2, <1>3, WriteSteady, StepMine

LEMMA PatchSteady ==
  ASSUME TypeInv, SteadyInv, NEW r \in Reqs, Patch(r)
  PROVE  Steady(pc'[r], job'[r], objs'["info"])
<1> DEFINE j == job[r]
           i == Info
           l == pc[r]
           k == job'[r]
           ii == objs'["info"]
<1>1. j \in Jobs /\ Fits(l, j) /\ Steady(l, j, i) /\ (Found => i # Absent)
  BY OpFacts, SteadyAt DEF Found, Info
<1>2. ASSUME NEW at, NEW n, Arrive(r, "patch", at, n) PROVE Steady(pc'[r], k, ii)
  <2>1. pc'[r] = "lock"
    BY <1>2 DEF Arrive, Goto, TypeInv, Placed
  <2> QED BY <2>1, SteadyRest
<1>3. CASE LoadPatch(r)
  <2>1. /\ objs' = objs /\ pc'[r] \in {"chunk", "declare"} /\ i # Absent /\ ~i.final
    BY <1>1, <1>3 DEF LoadPatch, Goto, TypeInv, Placed
  <2> HIDE DEF k
  <2> QED BY <2>1 DEF Steady, PutsFor, CombinesFor, Info
<1>4. ASSUME NEW n \in Sizes \ {NoLen}, Declare(r, n) PROVE Steady(pc'[r], k, ii)
  <2>1. /\ l = "declare" /\ pc'[r] = "put" /\ ii = i /\ k.then = "chunk" /\ i.size = NoLen
        /\ k.value.offset = i.offset /\ k.value.final = i.final
    BY <1>4, DeclareFacts DEF Info
  <2>2. i # Absent /\ ~i.final
    BY <1>1, <2>1 DEF Steady
  <2> HIDE DEF k, ii, i
  <2> QED BY <2>1, <2>2 DEF Steady, PutsFor, CombinesFor
<1>5. CASE ReadChunk(r)
  <2>1. l = "chunk" /\ pc'[r] = "list" /\ ii = i /\ k.info = i /\ Ready(i, k)
    BY <1>5, ReadChunkFacts DEF Info
  <2>2. i # Absent /\ (i.final => IsComplete(i))
    BY <1>1, <2>1 DEF Steady
  <2> HIDE DEF k, ii, i
  <2> QED BY <2>1, <2>2 DEF Steady, PutsFor, CombinesFor, k, ii
<1>6. CASE WritePart(r)
  <2>1. /\ l = "list" /\ pc'[r] = "put" /\ ii = i /\ k.then = "save" /\ k.value = Chunk(j.at, j.n)
        /\ k.at = j.at /\ k.n = j.n /\ k.info = j.info
    BY <1>6, WritePartFacts DEF Info
  <2>2. i # Absent /\ (i.final => IsComplete(i)) /\ i = j.info /\ Ready(i, j)
    BY <1>1, <2>1 DEF Steady
  <2> HIDE DEF k, ii, i, j
  <2> QED BY <2>1, <2>2 DEF Steady, PutsFor, CombinesFor, Ready, k, ii
<1>7. CASE SaveOffset(r)
  <2>1. /\ l = "save" /\ pc'[r] = "put" /\ ii = i /\ k.then = "reread"
        /\ k.value = [j.info EXCEPT !.offset = j.at + j.n]
        /\ k.at = j.at /\ k.n = j.n /\ k.info = j.info
    BY <1>7, SaveOffsetFacts DEF Info
  <2>2. i # Absent /\ (i.final => IsComplete(i)) /\ i = j.info /\ Ready(i, j)
    BY <1>1, <2>1 DEF Steady
  <2> HIDE DEF k, ii, i, j
  <2> QED BY <2>1, <2>2 DEF Steady, PutsFor, CombinesFor, Ready, k, ii
<1>8. CASE Reread(r)
  <2>1. CASE End(r)
    BY <2>1, SteadyEnd
  <2>2. CASE ~End(r)
    <3>1. i # Absent /\ IsComplete(i) /\ pc'[r] = "finish" /\ k.info = i /\ ii = i
      BY <1>1, <1>8, <2>2, RereadFacts DEF Info
    <3> HIDE DEF k, ii, i
    <3> QED BY <3>1 DEF Steady, PutsFor, CombinesFor, k, ii
  <2> QED BY <2>1, <2>2
<1>9. CASE PreFinish(r) \/ Finalize(r)
  <2>1. l \in {"finish", "parts"} /\ ii = i /\ k.info = j.info
    BY <1>9, FinalizeFacts DEF PreFinish, Finalize, Info
  <2>2. \/ pc'[r] = "parts"
        \/ pc'[r] = "put" /\ k.then = "done"
        \/ pc'[r] = "group" /\ k.back = "done"
    BY <1>9, FinalizeFacts DEF PreFinish, Goto, TypeInv, Placed
  <2>3. i # Absent /\ i = j.info /\ IsComplete(i)
    BY <1>1, <2>1 DEF Steady
  <2> HIDE DEF k, ii, i, j
  <2> QED BY <2>1, <2>2, <2>3 DEF Steady, PutsFor, CombinesFor, k, ii
<1>10. CASE Done(r)
  BY <1>10, SteadyEnd DEF Done
<1> QED BY <1>2, <1>3, <1>4, <1>5, <1>6, <1>7, <1>8, <1>9, <1>10 DEF Patch

LEMMA OthersSteady ==
  ASSUME TypeInv, SteadyInv, NEW r \in Reqs, Others(r)
  PROVE  Steady(pc'[r], job'[r], objs'["info"])
<1>1. CASE LoadGet(r)
  <2> DEFINE i == [job[r] EXCEPT !.info = Info]
             f == Info
  <2>1. Goto(r, "read") /\ Set(r, i) /\ f # Absent /\ IsComplete(f) /\ objs'["info"] = f
    BY <1>1 DEF LoadGet, Found, Info
  <2>2. i.info = f
    BY OpFacts DEF Jobs
  <2> HIDE DEF i, f
  <2>3. pc'[r] = "read" /\ job'[r].info = f
    BY <2>1, <2>2, StepMine
  <2> QED BY <2>1, <2>3 DEF Steady, PutsFor, CombinesFor
<1>2. CASE ~LoadGet(r)
  <2>1. \/ pc'[r] \in {"idle", "lock", "load", "left", "deleted"}
        \/ pc'[r] = "erase" /\ job'[r].op = "delete"
    <3>1. CASE Delete(r) \/ DeleteParts(r)
      <4>1. pc'[r] \notin {"fetch", "commit", "erase"} \/ (pc'[r] = "erase" /\ job'[r].op = "delete")
        BY <1>2, OtherGathers
      <4>2. pc'[r] \in {"deleted", "erase"}
        BY <3>1 DEF Delete, DeleteParts, Goto, TypeInv, Placed
      <4> QED BY <4>1, <4>2
    <3>2. CASE ~(Delete(r) \/ DeleteParts(r))
      BY <1>2, <3>2, EndMine DEF Others, Arrive, Lock, HeadRequest, GetRead, DeletePartsUnlisted,
                       Deleted, TypeInv, Placed, Goto
    <3> QED BY <3>1, <3>2
  <2> QED BY <2>1, SteadyRest
<1> QED BY <1>1, <1>2

(* Who is not at work, or only waits.                                      *)
LEMMA Bystander ==
  ASSUME TypeInv, NEW r \in Reqs, Acts(r), NEW q \in Reqs, q # r
  PROVE  /\ pc'[q] = pc[q] /\ job'[q] = job[q]
         /\ pc[q] \in {"idle", "lock"} \/ objs' = objs
<1>1. Mine(r)
  BY Frame
<1>2. CASE Active(r)
  BY <1>1, <1>2, Solo DEF Active, Mine
<1>3. CASE ~Active(r)
  BY <1>1, <1>3, Waiting DEF Mine
<1> QED BY <1>2, <1>3

LEMMA SteadyStep == ASSUME TypeInv, SteadyInv, [Next]_vars PROVE SteadyInv'
<1>1. CASE UNCHANGED vars
  BY <1>1 DEF SteadyInv, Found, Info, vars
<1>2. ASSUME NEW r \in Reqs, Acts(r) PROVE SteadyInv'
  <2>1. Steady(pc'[r], job'[r], objs'["info"])
    <3>1. CASE LoseCall(r) \/ Fail(r)
      BY <3>1, SteadyEnd DEF LoseCall, Fail
    <3> QED BY <1>2, <3>1, PutSteady, EraseSteady, PostSteady, PatchSteady, CombineSteady,
               OthersSteady DEF Acts
  <2>2. ASSUME NEW q \in Reqs, q # r PROVE Steady(pc'[q], job'[q], objs'["info"])
    <3>1. /\ pc'[q] = pc[q] /\ job'[q] = job[q]
          /\ pc[q] \in {"idle", "lock"} \/ objs' = objs
      BY <1>2, <2>2, Bystander
    <3>2. CASE pc[q] \in {"idle", "lock"}
      BY <3>1, <3>2, SteadyRest
    <3>3. CASE objs' = objs
      BY <3>1, <3>3, SteadyAt DEF Info
    <3> QED BY <3>1, <3>2, <3>3
  <2>3. life' = "new" => ~Found'
    <3>1. life' = "new" => life = "new"
      BY <1>2 DEF Acts, Put, Erase, LoseCall, Post, Patch, Combine, Others, Fail, PostArrive,
         TakePartial, Concatenate, SaveTotal, PostNoBody, PostBody, Arrive, LoadPatch, Declare,
         ReadChunk, WritePart, SaveOffset, Reread, PreFinish, Finalize, Done, NextGroup, FetchBlock,
         FetchPiece, Commit, Lock, HeadRequest, LoadGet, GetRead, Delete, DeleteParts,
         DeletePartsUnlisted, Deleted, outside
    <3>2. life = "new" => ~Active(r)
      BY DEF TypeInv, Order, Active
    <3>3. ~Active(r) => objs' = objs
      BY <1>2, Waiting
    <3>4. (life = "new" => ~Found) /\ (objs' = objs => (Found' <=> Found))
      BY SteadyAt DEF Found
    <3> QED BY <3>1, <3>2, <3>3, <3>4
  <2> QED BY <2>1, <2>2, <2>3 DEF SteadyInv, Info
<1> QED BY <1>1, <1>2 DEF Next, Acts

LEMMA SteadyInit == Init => SteadyInv
<1> SUFFICES ASSUME Init PROVE SteadyInv
  OBVIOUS
<1>1. objs["info"] = Absent
  BY InitObjs, KeyFacts
<1> QED BY <1>1, SteadyRest DEF Init, SteadyInv, Found

-----------------------------------------------------------------------------
(* No byte is lost when objects are combined.                              *)

LEMMA OwnFacts ==
  /\ Own \subseteq Blobs /\ "data" \in Own /\ Parts \subseteq Own /\ Blobs = Own \union Sources
  /\ Own \intersect Sources = {} /\ Own \subseteq Keys /\ "info" \notin Own
  /\ \A i \in 1..Len(TmpNames) : TmpNames[i] \in Own
BY KeyFacts, TmpFacts DEF Own, Blobs, Sources

(* Every object is as it was, or what it had is in d.                      *)
Carried(o, p, d) ==
  \A key \in Blobs :
    \/ p[key] = o[key]
    \/ /\ p[d] # Absent
       /\ o[key] # Absent => ToSet(o[key]) \subseteq ToSet(p[d])

LEMMA HeldCarried ==
  ASSUME NEW o, NEW p, NEW K, K \subseteq Blobs, NEW d \in K, Carried(o, p, d)
  PROVE  /\ \A b : Holds(o, b, K) => Holds(p, b, K)
         /\ \A n : Held(o, n, K) => Held(p, n, K)
<1>1. ASSUME NEW b, Holds(o, b, K) PROVE Holds(p, b, K)
  <2>1. PICK key \in K : o[key] # Absent /\ b \in ToSet(o[key])
    BY <1>1 DEF Holds
  <2>2. p[key] = o[key] \/ (p[d] # Absent /\ ToSet(o[key]) \subseteq ToSet(p[d]))
    BY <2>1 DEF Carried
  <2> QED BY <2>1, <2>2 DEF Holds
<1> QED BY <1>1 DEF Held

LEMMA SafeCarried ==
  ASSUME NEW o, NEW p, NEW g, NEW d \in Own, Carried(o, p, d), Safe(o, g)
  PROVE  Safe(p, g)
<1> SUFFICES ASSUME NEW i \in 1..Len(SourceNames), SourceNames[i] \in g
             PROVE  Accounted(p, SourceNames[i], SourceBytes[i])
  BY DEF Safe
<1> DEFINE s == SourceNames[i]
           bytes == SourceBytes[i]
<1>1. Accounted(o, s, bytes) /\ s \in Blobs /\ bytes # Absent
  BY SourceFacts, OwnFacts, AbsentFacts DEF Safe
<1>2. Own \subseteq Blobs
  BY OwnFacts
<1> HIDE DEF s, bytes
<1>3. CASE o[s] = bytes
  <2>1. p[s] = bytes \/ (p[d] # Absent /\ ToSet(bytes) \subseteq ToSet(p[d]))
    BY <1>1, <1>3 DEF Carried
  <2> QED BY <2>1 DEF Accounted, Holds, s, bytes
<1>4. CASE o[s] # bytes
  BY <1>1, <1>2, <1>4, HeldCarried DEF Accounted, s, bytes
<1> QED BY <1>3, <1>4

(* The object that the sources are combined into is not there yet.         *)
LEMMA DestFacts ==
  ASSUME NEW j \in Jobs, NEW l \in {"fetch", "commit"}, CombineFits(l, j)
  PROVE  /\ j.dest \in Own
         /\ \A o : Clear(l, j, o) => o[j.dest] = Absent
<1> DEFINE t == j.tmps
<1>1. t \in 0..Len(TmpNames) /\ Len(TmpNames) \in Nat /\ Grouped(j)
  BY TmpFacts DEF CombineFits
<1>2. CASE j.dest = "data"
  BY <1>2, OwnFacts DEF Clear, Vacant
<1>3. CASE j.dest # "data"
  <2>1. t > 0 /\ j.dest = TmpNames[t]
    BY <1>3, <1>1 DEF Grouped
  <2> HIDE DEF t
  <2>2. t \in 1..Len(TmpNames) /\ t > t - 1
    BY <1>1, <2>1
  <2> QED BY <1>3, <2>1, <2>2, OwnFacts DEF Clear, Vacant, t
<1> QED BY <1>2, <1>3

LEMMA CommitCarries ==
  ASSUME TypeInv, GatherInv, NEW r \in Reqs, pc[r] = "commit", ~Refused(r), objs' = Effect(r),
         Clear("commit", job[r], objs)
  PROVE  /\ Carried(objs, objs', job[r].dest) /\ job[r].dest \in Own
         /\ \A key \in Blobs : key # job[r].dest => objs'[key] \in {objs[key], Absent}
<1> DEFINE j == job[r]
           d == j.dest
<1>1. j \in Jobs /\ CombineFits("commit", j) /\ d \in Own /\ objs[d] = Absent
  <2>1. j \in Jobs /\ CombineFits("commit", j)
    BY OpFacts DEF Fits
  <2> HIDE DEF j
  <2> QED BY <2>1, DestFacts DEF j
<1>2. /\ objs'[d] \in Bytes /\ j.src \in Seq(Blobs)
      /\ cloud = "gcs" =>
           /\ Present(objs, j.src) /\ objs'[d] = Content(objs, j.src)
           /\ \A key \in Keys : key # d =>
                objs'[key] = IF key \in ToSet(j.src) THEN Absent ELSE objs[key]
      /\ cloud # "gcs" => \A key \in Keys : key # d => objs'[key] = objs[key]
  BY CommitObjs
<1>3. objs'[d] # Absent
  BY <1>2, AbsentFacts
<1>4. ASSUME NEW key \in Blobs, key # d
      PROVE  /\ objs'[key] \in {objs[key], Absent}
             /\ objs'[key] = objs[key] \/ ToSet(objs[key]) \subseteq ToSet(objs'[d])
  <2>1. key \in Keys
    BY KeyFacts
  <2>2. CASE cloud = "gcs" /\ key \in ToSet(j.src)
    <3> DEFINE s == j.src
    <3>1. s \in Seq(Blobs) /\ Present(objs, s) /\ key \in ToSet(s) /\ objs'[d] = Content(objs, s)
      BY <1>2, <2>2
    <3>2. objs'[key] = Absent
      BY <1>2, <1>4, <2>1, <2>2
    <3> HIDE DEF s, d
    <3>3. ToSet(objs[key]) \subseteq ToSet(Content(objs, s))
      BY <3>1, TypedObjs, ContentWithin
    <3> QED BY <3>1, <3>2, <3>3
  <2>3. CASE ~(cloud = "gcs" /\ key \in ToSet(j.src))
    BY <1>2, <1>4, <2>1, <2>3
  <2> QED BY <2>2, <2>3
<1>5. Carried(objs, objs', d)
  BY <1>1, <1>3, <1>4 DEF Carried
<1> QED BY <1>1, <1>4, <1>5

LEMMA EraseCarries ==
  ASSUME TypeInv, GatherInv, NEW r \in Reqs, pc[r] = "erase", job[r].op # "delete",
         objs' = objs \/ objs' = Effect(r)
  PROVE  /\ Carried(objs, objs', job[r].dest) /\ job[r].dest \in Own
         /\ \A key \in Blobs : objs'[key] \in {objs[key], Absent}
         /\ objs'["info"] = Info
<1> DEFINE j == job[r]
           d == j.dest
           h == Head(j.todo)
<1>1. j \in Jobs /\ EraseFits(j)
  BY OpFacts DEF Fits
<1>2. CombineFits("erase", j) /\ Grouped(j) /\ j.tmps \in 0..Len(TmpNames)
  BY <1>1 DEF EraseFits, CombineFits
<1>3. h \in ToSet(j.todo) /\ h \in ToSet(j.src)
  <2> DEFINE t == j.todo
             S == ToSet(j.src)
  <2>1. t \in Seq(S) /\ t # <<>>
    BY <1>1 DEF EraseFits
  <2> HIDE DEF t, S
  <2>2. Head(t) \in S /\ Head(t) = t[1] /\ 1 \in DOMAIN t
    BY <2>1, HeadTailProperties, LenProperties, EmptySeq
  <2> QED BY <2>2 DEF t, S, ToSet
<1>4. h # d /\ h \in Blobs
  <2> HIDE DEF j, h
  <2> QED BY <1>1, <1>2, <1>3, SrcFacts
<1>5. d \in Own
  <2>1. CombineFits("commit", j)
    BY <1>2 DEF CombineFits
  <2> HIDE DEF j
  <2> QED BY <1>1, <2>1, DestFacts
<1>6. objs[h] # Absent => objs[d] # Absent /\ ToSet(objs[h]) \subseteq ToSet(objs[d])
  <2>1. Covered(j, Stock(objs))
    BY DEF GatherInv, Gathered
  <2>2. Stock(objs)[d] = objs[d]
    BY <1>5, StockFacts, OwnFacts
  <2>3. objs[h] # Absent => Stock(objs)[h] = objs[h]
    BY <1>4, StockHere DEF GatherInv
  <2> HIDE DEF h, d
  <2> QED BY <1>3, <2>1, <2>2, <2>3 DEF Covered, d
<1>7. objs' = objs \/ objs' = [objs EXCEPT ![h] = Absent]
  BY EraseObjs
<1>8. \A key \in Keys : objs'[key] = objs[key] \/ (key = h /\ objs'[key] = Absent)
  BY <1>7 DEF TypeInv, ObjsOK
<1>9. objs'[d] = objs[d] /\ objs'["info"] = Info
  BY <1>4, <1>5, <1>8, OwnFacts, KeyFacts DEF Info
<1>10. Carried(objs, objs', d)
  <2>1. CASE objs[h] = Absent
    BY <1>8, <2>1, KeyFacts DEF Carried
  <2>2. CASE objs[h] # Absent
    BY <1>6, <1>8, <1>9, <2>2, KeyFacts DEF Carried
  <2> QED BY <2>1, <2>2
<1>11. \A key \in Blobs : objs'[key] \in {objs[key], Absent}
  BY <1>8, KeyFacts
<1> QED BY <1>5, <1>9, <1>10, <1>11

(* Fewer objects leave no fewer vacant.                                    *)
LEMMA VacantKeeps ==
  ASSUME NEW o, NEW p, NEW t, Vacant(o, t), \A key \in Own : p[key] \in {o[key], Absent}
  PROVE  Vacant(p, t)
BY OwnFacts DEF Vacant

(* What fetching leaves of a request.                                      *)
LEMMA FetchSame ==
  ASSUME TypeInv, NEW r \in Reqs, FetchBlock(r) \/ FetchPiece(r)
  PROVE  LET j == job[r]
             k == job'[r]
         IN /\ pc[r] = "fetch" /\ pc'[r] \in {"fetch", "commit"} /\ objs' = objs
            /\ k.op = j.op /\ k.src = j.src /\ k.dest = j.dest /\ k.tmps = j.tmps
            /\ k.back = j.back /\ k.level = j.level /\ k.made = j.made /\ k.info = j.info
            /\ k.at = j.at /\ k.n = j.n
<1> DEFINE j == job[r]
<1>1. pc[r] = "fetch" /\ pc'[r] \in {"fetch", "commit"} /\ objs' = objs
  BY DEF FetchBlock, FetchPiece, Goto, TypeInv, Placed
<1>2. \E bs, b, k, p : job'[r] = Fetching(j, bs, b, k, p)
  <2>1. CASE FetchBlock(r)
    BY <2>1, FetchBlockFacts, StepMine
  <2>2. CASE FetchPiece(r)
    <3>1. PICK n \in Nat, c \in Nat, buf \in Bytes, blocks \in Seq(Bytes) :
                 Pieces(r, n, c, buf, blocks)
      BY <2>2, PieceFacts
    <3>2. \E x, bs, b, k, p : Goto(r, x) /\ Set(r, Fetching(j, bs, b, k, p))
      BY <3>1 DEF Pieces
    <3> QED BY <3>2, StepMine
  <2> QED BY <2>1, <2>2
<1>3. PICK bs, b, k, p : job'[r] = Fetching(j, bs, b, k, p)
  BY <1>2
<1>4. j \in Jobs
  BY OpFacts
<1> HIDE DEF j
<1> QED BY <1>1, <1>3, <1>4 DEF Fetching, Jobs, j

(* What completing the call leaves.                                        *)
LEMMA CommitSame ==
  ASSUME TypeInv, NEW r \in Reqs, Commit(r)
  PROVE  LET j == job[r]
             k == job'[r]
             next == IF j.dest = "data" THEN j.back ELSE "group"
         IN /\ pc[r] = "commit" /\ ~Refused(r) /\ objs' = Effect(r)
            /\ j \in Jobs /\ CombineFits("commit", j)
            /\ pc'[r] = (IF cloud = "gcs" THEN next ELSE "erase")
            /\ k.op = j.op /\ k.src = j.src /\ k.dest = j.dest /\ k.tmps = j.tmps
            /\ k.back = j.back /\ k.level = j.level /\ k.made = j.made /\ k.info = j.info
            /\ k.at = j.at /\ k.n = j.n /\ (cloud # "gcs" => k.todo = j.src)
<1> DEFINE j == job[r]
           next == IF j.dest = "data" THEN j.back ELSE "group"
           k == [j EXCEPT !.todo = j.src, !.then = next]
<1>1. pc[r] = "commit" /\ ~Refused(r) /\ objs' = Effect(r) /\ j \in Jobs /\ CombineFits("commit", j)
  BY OpFacts DEF Commit, Fits
<1>2. /\ k.op = j.op /\ k.src = j.src /\ k.dest = j.dest /\ k.tmps = j.tmps
      /\ k.back = j.back /\ k.level = j.level /\ k.made = j.made /\ k.info = j.info
      /\ k.at = j.at /\ k.n = j.n /\ k.todo = j.src
  BY <1>1 DEF Jobs
<1>3. /\ cloud = "gcs" => Goto(r, next) /\ UNCHANGED job
      /\ cloud # "gcs" => Goto(r, "erase") /\ Set(r, k)
  BY DEF Commit
<1> HIDE DEF k, j
<1>4. /\ cloud = "gcs" => pc'[r] = next /\ job'[r] = j
      /\ cloud # "gcs" => pc'[r] = "erase" /\ job'[r] = k
  BY <1>3, GotoMine, StepMine DEF j
<1> QED BY <1>1, <1>2, <1>4 DEF j

(* Where the next object goes there is none, also after a step.            *)
LEMMA CombineClear ==
  ASSUME TypeInv, GatherInv, NEW r \in Reqs, Combine(r), Clear(pc[r], job[r], objs)
  PROVE  \/ Clear(pc'[r], job'[r], objs')
         \/ pc'[r] \in {"total", "done"}
<1> DEFINE j == job[r]
           k == job'[r]
<1>1. CASE NextGroup(r)
  <2>1. PICK g \in Jobs : /\ Set(r, g)
                          /\ \/ g.dest = "data" /\ g.tmps = j.tmps
                             \/ /\ g.tmps = j.tmps + 1 /\ g.dest = TmpNames[j.tmps + 1]
                                /\ j.tmps + 1 \in 1..Len(TmpNames)
    BY <1>1, GroupFacts
  <2>2. /\ pc[r] = "group" /\ objs' = objs /\ Goto(r, IF cloud = "gcs" THEN "commit" ELSE "fetch")
    BY <1>1 DEF NextGroup
  <2>3. k = g /\ pc'[r] \in {"fetch", "commit"}
    BY <2>1, <2>2, StepMine
  <2>4. j.tmps \in Nat /\ Vacant(objs, j.tmps)
    BY <2>2, OpFacts DEF Jobs, Clear
  <2> DEFINE t == j.tmps
  <2>5. g.dest = "data" => Vacant(objs, g.tmps)
    <3>1. g.dest = "data" => g.tmps = j.tmps
      BY <2>1, TmpFacts
    <3> QED BY <2>4, <3>1
  <2>6. g.dest # "data" => Vacant(objs, g.tmps - 1)
    <3>1. g.dest # "data" => g.tmps = t + 1
      BY <2>1
    <3> HIDE DEF t
    <3>2. t \in Nat => (t + 1) - 1 = t
      OBVIOUS
    <3> QED BY <2>4, <3>1, <3>2 DEF t
  <2> HIDE DEF j, k
  <2> QED BY <2>2, <2>3, <2>5, <2>6 DEF Clear, k
<1>2. CASE FetchBlock(r) \/ FetchPiece(r)
  <2>1. /\ pc[r] = "fetch" /\ pc'[r] \in {"fetch", "commit"} /\ objs' = objs
        /\ k.dest = j.dest /\ k.tmps = j.tmps
    BY <1>2, FetchSame
  <2> HIDE DEF k
  <2> QED BY <2>1 DEF Clear, k
<1>3. CASE Commit(r)
  <2>1. /\ pc[r] = "commit" /\ ~Refused(r) /\ objs' = Effect(r) /\ j \in Jobs
        /\ CombineFits("commit", j)
        /\ pc'[r] = (IF cloud = "gcs" THEN IF j.dest = "data" THEN j.back ELSE "group" ELSE "erase")
        /\ k.dest = j.dest /\ k.tmps = j.tmps
    BY <1>3, CommitSame
  <2>2. j.back \in {"total", "done"} /\ Grouped(j) /\ j.tmps \in 0..Len(TmpNames)
    BY <2>1 DEF CombineFits
  <2>3. CASE j.dest = "data"
    <3> HIDE DEF k
    <3> QED BY <2>1, <2>2, <2>3 DEF Clear, k
  <2>4. CASE j.dest # "data"
    <3> DEFINE t == j.tmps
    <3>1. t > 0 /\ j.dest = TmpNames[t] /\ Vacant(objs, t - 1) /\ Clear("commit", j, objs)
      BY <2>1, <2>2, <2>4 DEF Grouped, Clear
    <3>2. \A key \in Blobs : key # j.dest => objs'[key] \in {objs[key], Absent}
      BY <2>1, <3>1, CommitCarries
    <3>3. Vacant(objs', t)
      <4> DEFINE d == j.dest
      <4>1. /\ t \in 1..Len(TmpNames) /\ d = TmpNames[t] /\ Vacant(objs, t - 1) /\ d # "data"
            /\ \A key \in Blobs : key # d => objs'[key] \in {objs[key], Absent}
        BY <2>2, <2>4, <3>1, <3>2, TmpFacts
      <4> HIDE DEF t, d
      <4>2. \A i \in 1..Len(TmpNames) : i > t => i > t - 1 /\ TmpNames[i] # d /\ TmpNames[i] \in Blobs
        BY <4>1, TmpFacts
      <4> QED BY <4>1, <4>2, KeyFacts DEF Vacant
    <3> HIDE DEF k, t
    <3> QED BY <2>1, <2>4, <3>3 DEF Clear, k, t
  <2> QED BY <2>3, <2>4
<1> QED BY <1>1, <1>2, <1>3 DEF Combine

LEMMA EraseClear ==
  ASSUME TypeInv, GatherInv, NEW r \in Reqs, Erase(r), job[r].op # "delete",
         Clear("erase", job[r], objs)
  PROVE  \/ Clear(pc'[r], job'[r], objs')
         \/ pc'[r] \in {"total", "done"}
<1> DEFINE j == job[r]
           k == job'[r]
<1>1. /\ pc[r] = "erase" /\ j \in Jobs /\ k = [j EXCEPT !.todo = Tail(@)]
      /\ pc'[r] \in {"erase", IF j.dest = "data" THEN j.back ELSE "group"}
      /\ CombineFits("erase", j)
  BY EraseFacts
<1>2. k.dest = j.dest /\ k.tmps = j.tmps /\ j.back \in {"total", "done"}
  BY <1>1 DEF Jobs, CombineFits
<1>3. objs' = objs \/ objs' = Effect(r)
  BY DEF Erase
<1>4. \A key \in Own : objs'[key] \in {objs[key], Absent}
  BY <1>1, <1>3, EraseCarries, OwnFacts
<1>5. j.dest # "data" => Vacant(objs', j.tmps)
  BY <1>4, VacantKeeps DEF Clear
<1> HIDE DEF k, j
<1> QED BY <1>1, <1>2, <1>5 DEF Clear, k

-----------------------------------------------------------------------------
(* The bytes of the partials.                                              *)

Fine(o, g) == ~Complete(o["info"]) => Safe(o, g)

LEMMA IntactSafe == ASSUME NEW o, NEW g, Intact(o, g) PROVE Safe(o, g)
BY DEF Intact, Safe, Accounted

(* The info says nothing of where bytes are.                               *)
LEMMA BlobsSame ==
  ASSUME NEW o, NEW p, NEW g, \A key \in Blobs : p[key] = o[key]
  PROVE  /\ Safe(o, g) => Safe(p, g)
         /\ Intact(o, g) => Intact(p, g)
         /\ \A t : Vacant(o, t) => Vacant(p, t)
         /\ \A n, K : K \subseteq Blobs /\ Held(o, n, K) => Held(p, n, K)
<1>1. \A i \in 1..Len(SourceNames) : SourceNames[i] \in Blobs
  BY SourceFacts, KeyFacts
<1>2. Own \subseteq Blobs
  BY OwnFacts
<1>3. \A b, K : K \subseteq Blobs /\ Holds(o, b, K) => Holds(p, b, K)
  BY DEF Holds
<1>4. Safe(o, g) => Safe(p, g)
  BY <1>1, <1>2, <1>3 DEF Safe, Accounted
<1>5. Intact(o, g) => Intact(p, g)
  BY <1>1 DEF Intact
<1>6. \A t : Vacant(o, t) => Vacant(p, t)
  BY OwnFacts DEF Vacant
<1>7. \A n, K : K \subseteq Blobs /\ Held(o, n, K) => Held(p, n, K)
  BY <1>3 DEF Held
<1> QED BY <1>4, <1>5, <1>6, <1>7

(* A part is neither a partial nor what partials are combined into.        *)
LEMMA PartApart ==
  ASSUME NEW o, NEW p, NEW g, NEW q \in Parts, \A key \in Blobs : key # q => p[key] = o[key]
  PROVE  /\ Intact(o, g) => Intact(p, g)
         /\ \A t : Vacant(o, t) => Vacant(p, t)
<1>1. \A i \in 1..Len(SourceNames) : SourceNames[i] \in Blobs /\ SourceNames[i] # q
  BY SourceFacts, KeyFacts
<1>2. "data" \in Blobs /\ "data" # q
  BY KeyFacts
<1>3. \A i \in 1..Len(TmpNames) : TmpNames[i] \in Blobs /\ TmpNames[i] # q
  BY TmpFacts
<1>4. Intact(o, g) => Intact(p, g)
  BY <1>1 DEF Intact
<1>5. \A t : Vacant(o, t) => Vacant(p, t)
  BY <1>2, <1>3 DEF Vacant
<1> QED BY <1>4, <1>5

LEMMA PartialAt ==
  ASSUME PartialInv, NEW r \in Reqs, life = "made", job[r].op = "post"
  PROVE  Fine(objs, given) /\ Partial(pc[r], job[r], objs, given)
BY DEF PartialInv, Fine, Info

(* An object that the POST has put.                                        *)
LEMMA PutPartial ==
  ASSUME TypeInv, SteadyInv, PartialInv, NEW r \in Reqs, life = "made", job[r].op = "post",
         pc[r] = "put", objs' = Effect(r)
  PROVE  /\ Fine(objs', given)
         /\ Partial(job[r].then, job[r], objs', given)
<1> DEFINE j == job[r]
           then == j.then
           v == j.value
           i == Info
           ii == objs'["info"]
<1>1. j \in Jobs /\ PutFits(j) /\ objs' = [objs EXCEPT ![j.key] = v]
  BY OpFacts, PutObjs DEF Fits
<1>2. Fine(objs, given) /\ Partial("put", j, objs, given) /\ Steady("put", j, i)
  BY PartialAt, SteadyAt
<1>3. DOMAIN objs = Keys /\ (i # Absent => i \in Infos) /\ i = objs["info"]
  BY DEF TypeInv, ObjsOK, Info
<1>4. CASE then = "done"
  <2>1. j.key = "data"
    BY <1>1, <1>4 DEF PutFits
  <2>2. ii = i
    BY <1>1, <1>3, <2>1
  <2>3. Complete(i)
    BY <1>2, <1>4 DEF Steady, PutsFor, Complete
  <2> HIDE DEF i
  <2> QED BY <2>2, <2>3 DEF Fine, Partial
<1>5. CASE then = "save"
  <2> DEFINE q == j.key
  <2>1. q \in Parts
    BY <1>1, <1>5 DEF PutFits
  <2>2. q # "info" /\ q \in Keys
    BY <2>1, KeyFacts
  <2>3. ii = i /\ \A key \in Blobs : key # q => objs'[key] = objs[key]
    BY <1>1, <1>3, <2>2, KeyFacts
  <2>4. Before("put", j)
    BY <1>5 DEF Before
  <2>5. ~Complete(i) => Intact(objs, given) /\ Vacant(objs, 0)
    BY <1>2, <1>3, <2>4 DEF Partial
  <2> HIDE DEF q, i, j
  <2>6. ~Complete(i) => Intact(objs', given) /\ Vacant(objs', 0)
    BY <2>1, <2>3, <2>5, PartApart
  <2>7. ~CombinesFor("save", j, "total")
    BY DEF CombinesFor
  <2>8. Fine(objs', given)
    BY <2>3, <2>6, IntactSafe DEF Fine
  <2>9. Partial("save", j, objs', given)
    BY <2>3, <2>6, <2>7 DEF Partial
  <2> QED BY <1>5, <2>8, <2>9 DEF j
<1>6. CASE then \in {"concat", "body", "chunk", "reread"}
  <2>1. j.key = "info" /\ v \in Infos
    BY <1>1, <1>6 DEF PutFits
  <2>2. ii = v /\ \A key \in Blobs : objs'[key] = objs[key]
    BY <1>1, <1>3, <2>1, KeyFacts
  <2>3. v # Absent
    BY <2>1, AbsentFacts
  <2>4. ~Complete(v) => ~Complete(i)
    <3>1. CASE then = "reread"
      <4>1. i # Absent /\ Ready(i, j) /\ v = [i EXCEPT !.offset = j.at + j.n]
        BY <1>2, <3>1 DEF Steady, PutsFor
      <4> DEFINE at == j.at
                 n == j.n
      <4>2. i \in Infos /\ at \in Nat /\ n \in Nat
        BY <1>1, <1>3, <4>1 DEF Jobs
      <4>3. v.size = i.size /\ v.offset = at + n
        BY <4>1, <4>2 DEF Infos
      <4>4. i.size \in Nat \union {NoLen} /\ i.offset \in Nat
        BY <4>2 DEF Infos
      <4>5. i.offset = at /\ (i.size # NoLen => at + n <= i.size)
        BY <4>1 DEF Ready
      <4> HIDE DEF v, i, at, n
      <4>6. IsComplete(i) => IsComplete(v)
        BY <4>2, <4>3, <4>4, <4>5 DEF IsComplete
      <4> QED BY <2>3, <4>6 DEF Complete
    <3>2. CASE then \in {"concat", "body"}
      BY <1>2, <2>3, <3>2 DEF Steady, PutsFor, Complete
    <3>3. CASE then = "chunk"
      BY <1>2, <3>3 DEF Steady, PutsFor, Complete, IsComplete
    <3> QED BY <1>6, <3>1, <3>2, <3>3
  <2>5. ~Complete(v) => Before("put", j)
    BY <2>3 DEF Before, Complete
  <2>6. ~Complete(v) => Safe(objs, given) /\ Intact(objs, given) /\ Vacant(objs, 0)
    <3> HIDE DEF v, i, j
    <3> QED BY <1>2, <1>3, <2>4, <2>5 DEF Fine, Partial
  <2>7. ~CombinesFor(then, j, "total")
    BY <1>6 DEF CombinesFor
  <2> HIDE DEF v, j, then
  <2>8. ~Complete(v) => Safe(objs', given) /\ Intact(objs', given) /\ Vacant(objs', 0)
    BY <2>2, <2>6, BlobsSame
  <2> QED BY <2>2, <2>7, <2>8 DEF Fine, Partial, then, j
<1>7. then \in {"concat", "body", "chunk", "save", "reread", "done"}
  BY <1>1 DEF PutFits
<1> QED BY <1>4, <1>5, <1>6, <1>7

(* What the POST combines, or deletes after it has been combined.          *)
LEMMA CombinePartial ==
  ASSUME TypeInv, GatherInv, SteadyInv, PartialInv, NEW r \in Reqs, life = "made",
         job[r].op = "post", pc[r] \in {"group", "fetch", "commit", "erase"}
  PROVE  /\ Complete(Info) \/ (Safe(objs, given) /\ Clear(pc[r], job[r], objs))
         /\ pc[r] = "commit" /\ ~Refused(r) /\ objs' = Effect(r)
              => objs'["info"] = Info /\ Fine(objs', given)
         /\ pc[r] = "erase" /\ (objs' = objs \/ objs' = Effect(r))
              => objs'["info"] = Info /\ Fine(objs', given)
<1> DEFINE j == job[r]
<1>1. j \in Jobs /\ CombineFits(pc[r], j) /\ j.back \in {"total", "done"}
  BY OpFacts DEF Fits, EraseFits, CombineFits
<1>2. Fine(objs, given) /\ Partial(pc[r], j, objs, given) /\ Steady(pc[r], j, Info)
  BY PartialAt, SteadyAt
<1>3. CombinesFor(pc[r], j, j.back)
  BY DEF CombinesFor
<1>4. j.back = "done" => Complete(Info)
  BY <1>2, <1>3 DEF Steady, Complete
<1>5. j.back = "total" /\ ~Complete(Info) => Safe(objs, given) /\ Clear(pc[r], j, objs)
  BY <1>2, <1>3 DEF Fine, Partial, Info
<1>6. Complete(Info) \/ (Safe(objs, given) /\ Clear(pc[r], j, objs))
  BY <1>1, <1>4, <1>5
<1>7. ASSUME pc[r] = "commit", ~Refused(r), objs' = Effect(r)
      PROVE  objs'["info"] = Info /\ Fine(objs', given)
  <2>1. objs'["info"] = Info
    BY <1>7, CommitObjs DEF Info
  <2>2. ~Complete(Info) => Safe(objs', given)
    BY <1>6, <1>7, CommitCarries, SafeCarried
  <2> QED BY <2>1, <2>2 DEF Fine
<1>8. ASSUME pc[r] = "erase", objs' = objs \/ objs' = Effect(r)
      PROVE  objs'["info"] = Info /\ Fine(objs', given)
  <2>1. /\ Carried(objs, objs', job[r].dest) /\ job[r].dest \in Own
        /\ objs'["info"] = Info
    BY <1>8, EraseCarries
  <2>2. ~Complete(Info) => Safe(objs', given)
    BY <1>6, <2>1, SafeCarried
  <2> QED BY <2>1, <2>2 DEF Fine
<1> QED BY <1>6, <1>7, <1>8

(* Nothing changes but where the POST is and what it knows.                *)
LEMMA RestPartial ==
  ASSUME PartialInv, NEW r \in Reqs, life = "made", job[r].op = "post",
         objs' = objs, given' = given,
         \/ pc'[r] \in {"idle", "finish", "parts", "total", "done"}
         \/ Complete(Info) 
         \/ PutsFor(pc'[r], job'[r], "body") /\ IsComplete(job'[r].value)
         \/ Before(pc[r], job[r]) /\ Before(pc'[r], job'[r]) /\ ~CombinesFor(pc'[r], job'[r], "total")
  PROVE  Fine(objs', given') /\ Partial(pc'[r], job'[r], objs', given')
<1> DEFINE l == pc'[r]
           k == job'[r]
<1>1. Fine(objs, given) /\ Partial(pc[r], job[r], objs, given)
  BY PartialAt
<1>2. l \in {"idle", "finish", "parts", "total", "done"} => ~Before(l, k) /\ ~CombinesFor(l, k, "total")
  BY DEF Before, CombinesFor
<1>3. PutsFor(l, k, "body") /\ IsComplete(k.value) => ~Before(l, k) /\ ~CombinesFor(l, k, "total")
  BY DEF Before, CombinesFor, PutsFor
<1> HIDE DEF l, k
<1> QED BY <1>1, <1>2, <1>3 DEF Partial, Info, l, k

LEMMA PostPartial ==
  ASSUME TypeInv, SteadyInv, PartialInv, NEW r \in Reqs, life = "made", job[r].op = "post", Post(r)
  PROVE  Fine(objs', given') /\ Partial(pc'[r], job'[r], objs', given')
<1> DEFINE j == job[r]
           k == job'[r]
<1>1. j \in Jobs /\ Fits(pc[r], j) /\ Fine(objs, given) /\ Partial(pc[r], j, objs, given)
  BY OpFacts, PartialAt
<1>2. ASSUME NEW s \in given, TakePartial(r, s) PROVE Fine(objs', given') /\ Partial(pc'[r], k, objs', given')
  <2>1. s \in Sources /\ s # "info" /\ s \notin Own /\ s # "data"
    BY KeyFacts, OwnFacts DEF TypeInv, Counters
  <2>2. /\ given' = given \ {s} /\ pc'[r] = pc[r] /\ k = j
        /\ \A key \in Keys : key # s => objs'[key] = objs[key]
    BY <1>2 DEF TakePartial, TypeInv, ObjsOK
  <2>3. \A i \in 1..Len(SourceNames) : SourceNames[i] \in Keys
    BY SourceFacts, KeyFacts
  <2>4. \A key \in Own : objs'[key] = objs[key]
    BY <2>1, <2>2, OwnFacts
  <2>5. Safe(objs, given) => Safe(objs', given')
    BY <2>2, <2>3, <2>4 DEF Safe, Accounted, Holds
  <2>6. Intact(objs, given) => Intact(objs', given')
    BY <2>2, <2>3 DEF Intact
  <2>7. \A t : Vacant(objs, t) => Vacant(objs', t)
    BY <2>4, OwnFacts DEF Vacant
  <2>8. objs'["info"] = objs["info"]
    BY <2>1, <2>2, KeyFacts
  <2>9. Clear(pc[r], j, objs) => Clear(pc[r], j, objs')
    BY <2>7 DEF Clear
  <2> HIDE DEF j, k
  <2> QED BY <1>1, <2>2, <2>5, <2>6, <2>7, <2>8, <2>9 DEF Fine, Partial, k
<1>3. CASE Concatenate(r)
  <2> DEFINE i == [j EXCEPT !.level = SourceNames, !.back = "total"]
  <2>1. /\ pc[r] = "concat" /\ Goto(r, "group") /\ Set(r, i) /\ objs' = objs /\ given' = given
    BY <1>3 DEF Concatenate, outside
  <2>2. i.tmps = 0
    BY <1>1, <2>1 DEF Jobs, Fits
  <2> HIDE DEF i
  <2>3. pc'[r] = "group" /\ k.tmps = 0
    BY <2>1, <2>2, StepMine
  <2>4. ~Complete(objs["info"]) => Vacant(objs, 0)
    BY <1>1, <2>1 DEF Partial, Before
  <2> HIDE DEF k
  <2>5. ~Complete(objs["info"]) => Clear("group", k, objs)
    BY <2>3, <2>4 DEF Clear
  <2>6. ~Before("group", k)
    BY DEF Before
  <2> QED BY <1>1, <2>1, <2>3, <2>5, <2>6 DEF Fine, Partial, k
<1>4. CASE SaveTotal(r)
  <2> DEFINE v == [size |-> FinalLen, offset |-> FinalLen, final |-> TRUE]
  <2>1. pc[r] = "total" /\ Write(r, "info", v, "body") /\ objs' = objs /\ given' = given
    BY <1>4 DEF SaveTotal, outside
  <2>2. v \in Infos \union Bytes /\ IsComplete(v)
    <3>1. FinalLen \in Nat
      BY FinalLenType
    <3> QED BY <3>1, AbsentFacts DEF Infos, IsComplete
  <2> HIDE DEF v
  <2>3. pc'[r] = "put" /\ k.value = v /\ k.then = "body"
    BY <2>1, <2>2, WriteSteady, KeyFacts DEF Labels
  <2> QED BY <2>1, <2>2, <2>3, RestPartial DEF PutsFor
<1>5. ASSUME PostNoBody(r) \/ \E n \in ChunkLens : PostBody(r, n)
      PROVE  Fine(objs', given') /\ Partial(pc'[r], k, objs', given')
  <2>1. pc[r] = "body" /\ pc'[r] \in {"reread", "chunk"} /\ objs' = objs /\ given' = given
    BY <1>5 DEF PostNoBody, PostBody, Goto, TypeInv, Placed, outside
  <2>2. Before(pc[r], j) /\ Before(pc'[r], k) /\ ~CombinesFor(pc'[r], k, "total")
    BY <2>1 DEF Before, CombinesFor
  <2> QED BY <2>1, <2>2, RestPartial
<1>6. ~(\E size \in Sizes, kind \in Kinds : PostArrive(r, size, kind))
  BY DEF PostArrive
<1> QED BY <1>2, <1>3, <1>4, <1>5, <1>6 DEF Post

LEMMA PatchPartial ==
  ASSUME TypeInv, SteadyInv, PartialInv, NEW r \in Reqs, life = "made", job[r].op = "post", Patch(r)
  PROVE  Fine(objs', given') /\ Partial(pc'[r], job'[r], objs', given')
<1> DEFINE j == job[r]
           k == job'[r]
<1>1. j \in Jobs /\ Fits(pc[r], j) /\ Steady(pc[r], j, Info)
  BY OpFacts, SteadyAt
<1>2. objs' = objs /\ given' = given
  BY DEF Patch, Arrive, LoadPatch, Declare, ReadChunk, WritePart, SaveOffset, Reread, PreFinish,
         Finalize, Done, outside
<1>3. ~(\E at \in 0..MaxLen, n \in ChunkLens : Arrive(r, "patch", at, n))
  BY DEF Arrive
<1>4. ~LoadPatch(r)
  BY DEF LoadPatch
<1>5. ~(\E n \in Sizes \ {NoLen} : Declare(r, n))
  BY <1>1 DEF Declare, Fits
<1>6. CASE ReadChunk(r) \/ WritePart(r) \/ SaveOffset(r)
  <2>1. /\ pc[r] \in {"chunk", "list", "save"}
        /\ pc'[r] = "list" \/ (pc'[r] = "put" /\ k.then \in {"save", "reread"})
    BY <1>6, ReadChunkFacts, WritePartFacts, SaveOffsetFacts
  <2> HIDE DEF k
  <2>2. Before(pc[r], j) /\ Before(pc'[r], k) /\ ~CombinesFor(pc'[r], k, "total")
    BY <2>1 DEF Before, CombinesFor
  <2> QED BY <1>2, <2>2, RestPartial DEF k
<1>7. CASE Reread(r) \/ PreFinish(r) \/ Done(r)
  <2>1. pc'[r] \in {"idle", "finish", "parts"}
    BY <1>7, RereadFacts, EndMine DEF PreFinish, Done, Goto, TypeInv, Placed
  <2> QED BY <1>2, <2>1, RestPartial
<1>8. CASE Finalize(r)
  <2>1. pc[r] = "parts"
    BY <1>8 DEF Finalize
  <2>2. Complete(Info)
    BY <1>1, <2>1 DEF Steady, Complete
  <2> QED BY <1>2, <2>2, RestPartial
<1> QED BY <1>3, <1>4, <1>5, <1>6, <1>7, <1>8 DEF Patch

(* Where combining goes on.                                                *)
LEMMA CombineGoes ==
  ASSUME TypeInv, NEW r \in Reqs, Combine(r)
  PROVE  /\ pc[r] \in {"group", "fetch", "commit"} /\ given' = given
         /\ pc'[r] \in {"group", "fetch", "commit", "erase", "total", "done"}
         /\ Commit(r) \/ (objs' = objs /\ pc[r] # "commit")
<1>1. CASE NextGroup(r)
  BY <1>1, GotoMine DEF NextGroup, Goto, TypeInv, Placed, outside
<1>2. CASE FetchBlock(r) \/ FetchPiece(r)
  BY <1>2, FetchSame DEF FetchBlock, FetchPiece, outside
<1>3. CASE Commit(r)
  <2>1. /\ pc[r] = "commit" /\ CombineFits("commit", job[r])
        /\ pc'[r] \in {"erase", IF job[r].dest = "data" THEN job[r].back ELSE "group"}
    BY <1>3, CommitSame
  <2> QED BY <1>3, <2>1 DEF CombineFits, Commit, outside
<1> QED BY <1>1, <1>2, <1>3 DEF Combine

LEMMA MergePartial ==
  ASSUME TypeInv, GatherInv, SteadyInv, PartialInv, NEW r \in Reqs, life = "made",
         job[r].op = "post", Combine(r) \/ Erase(r)
  PROVE  Fine(objs', given') /\ Partial(pc'[r], job'[r], objs', given')
<1> DEFINE l == pc'[r]
           k == job'[r]
<1>1. /\ pc[r] \in {"group", "fetch", "commit", "erase"} /\ given' = given
      /\ l \in {"group", "fetch", "commit", "erase", "total", "done"}
  <2>1. CASE Combine(r)
    BY <2>1, CombineGoes
  <2>2. CASE Erase(r)
    <3>1. /\ pc[r] = "erase" /\ CombineFits("erase", job[r]) /\ given' = given
          /\ l \in {"erase", IF job[r].dest = "data" THEN job[r].back ELSE "group"}
      BY <2>2, EraseFacts DEF Erase
    <3> QED BY <3>1 DEF CombineFits
  <2> QED BY <2>1, <2>2
<1>2. Complete(Info) \/ (Safe(objs, given) /\ Clear(pc[r], job[r], objs))
  BY <1>1, CombinePartial
<1>3. objs'["info"] = Info /\ Fine(objs', given)
  <2>1. CASE objs' = objs
    BY <2>1, PartialAt DEF Info
  <2>2. CASE Commit(r)
    BY <1>1, <2>2, CombinePartial DEF Commit
  <2>3. CASE Erase(r)
    BY <1>1, <2>3, CombinePartial DEF Erase
  <2> QED BY <2>1, <2>2, <2>3, CombineGoes
<1>4. ~Complete(Info) => Clear(l, k, objs') \/ l \in {"total", "done"}
  <2>1. CASE Combine(r)
    BY <1>2, <2>1, CombineClear
  <2>2. CASE Erase(r)
    BY <1>1, <1>2, <2>2, EraseClear, EraseFacts
  <2> QED BY <2>1, <2>2
<1>5. ~Before(l, k) /\ (l \in {"total", "done"} => ~CombinesFor(l, k, "total"))
  BY <1>1 DEF Before, CombinesFor
<1> HIDE DEF l, k
<1> QED BY <1>1, <1>3, <1>4, <1>5 DEF Partial, l, k

(* The POST is the only one at work until its upload is known.             *)
LEMMA LifeFacts ==
  ASSUME TypeInv, NEW r \in Reqs, Acts(r)
  PROVE  /\ life' # "new"
         /\ life' = "made" => \/ life = "made"
                              \/ \E size \in Sizes, kind \in Kinds : PostArrive(r, size, kind)
         /\ life \in {"doomed", "gone"} => life' \in {"doomed", "gone"}
         /\ life = "known" => life' \in {"known", "doomed", "gone"}
         /\ life = "made" => life' \in {"made", "known", "doomed", "gone"}
<1>1. life = "new" => \E size \in Sizes, kind \in Kinds : PostArrive(r, size, kind)
  <2>1. life = "new" => ~Active(r)
    BY DEF TypeInv, Order, Active
  <2> QED BY <2>1, Waiting
<1>2. \A size \in Sizes, kind \in Kinds : PostArrive(r, size, kind) => life = "new" /\ life' = "made"
  BY DEF PostArrive
<1>3. CASE life # "new"
  <2>1. ~(\E size \in Sizes, kind \in Kinds : PostArrive(r, size, kind))
    BY <1>2, <1>3
  <2>2. \/ life' = life
        \/ life' = (IF life = "made" THEN "known" ELSE life)
        \/ life' \in {"doomed", "gone"}
    BY <2>1 DEF Acts, Put, Erase, LoseCall, Post, Patch, Combine, Others, Fail,
       TakePartial, Concatenate, SaveTotal, PostNoBody, PostBody, Arrive, LoadPatch, Declare,
       ReadChunk, WritePart, SaveOffset, Reread, PreFinish, Finalize, Done, NextGroup, FetchBlock,
       FetchPiece, Commit, Lock, HeadRequest, LoadGet, GetRead, Delete, DeleteParts,
       DeletePartsUnlisted, Deleted, outside
  <2>3. life \in {"made", "known", "doomed", "gone"}
    BY <1>3 DEF TypeInv, Counters
  <2>4. life \in {"doomed", "gone"} => life' \in {"doomed", "gone"}
    BY <2>2
  <2> QED BY <1>3, <2>2, <2>3, <2>4
<1> QED BY <1>1, <1>2, <1>3

LEMMA PartialStep ==
  ASSUME TypeInv, GatherInv, SteadyInv, PartialInv, [Next]_vars
  PROVE  PartialInv'
<1>1. CASE UNCHANGED vars
  BY <1>1 DEF PartialInv, Info, vars
<1>2. ASSUME NEW r \in Reqs, Acts(r) PROVE PartialInv'
  <2>1. CASE life = "made" /\ Active(r)
    <3>1. job[r].op = "post" /\ \A q \in Reqs : q # r => pc[q] = "idle"
      BY <2>1, OpFacts DEF TypeInv, Order, Active
    <3>2. Fine(objs', given') /\ Partial(pc'[r], job'[r], objs', given')
      <4>1. CASE Put(r)
        <5>1. pc[r] = "put" /\ objs' = Effect(r) /\ given' = given /\ pc'[r] = job[r].then /\ job'[r] = job[r]
          BY <4>1, GotoMine DEF Put, outside
        <5> QED BY <2>1, <3>1, <5>1, PutPartial
      <4>2. CASE LoseCall(r)
        <5>1. /\ pc[r] \in Calls /\ ~Refused(r) /\ objs' \in {objs, Effect(r)} /\ given' = given
              /\ pc'[r] = "idle"
          BY <4>2, EndMine DEF LoseCall
        <5>2. Fine(objs', given)
          BY <2>1, <3>1, <5>1, PartialAt, PutPartial, CombinePartial DEF Calls
        <5>3. Partial("idle", job'[r], objs', given)
          BY DEF Partial, Before, CombinesFor
        <5> QED BY <5>1, <5>2, <5>3
      <4>3. CASE Fail(r)
        <5>1. pc'[r] = "idle" /\ objs' = objs /\ given' = given
          BY <4>3, EndMine DEF Fail, outside
        <5> QED BY <2>1, <3>1, <5>1, RestPartial
      <4>4. CASE Others(r)
        <5>1. /\ pc[r] \in {"idle", "lock", "load", "left", "deleted", "read"} /\ Fits(pc[r], job[r])
          BY <4>4, OpFacts DEF Others, Arrive, Lock, HeadRequest, LoadGet, GetRead, Delete,
                                DeleteParts, DeletePartsUnlisted, Deleted
        <5> QED BY <2>1, <3>1, <5>1 DEF Fits, Active
      <4> QED BY <1>2, <2>1, <3>1, <4>1, <4>2, <4>3, <4>4, PostPartial, PatchPartial, MergePartial DEF Acts
    <3>3. \A q \in Reqs : q # r => job'[q].op # "post"
      <4>1. Mine(r)
        BY <1>2, Frame
      <4>2. \A q \in Reqs : q # r => job[q].op = "none"
        BY <3>1, OpFacts
      <4> QED BY <4>1, <4>2 DEF Mine
    <3>4. life' # "new"
      BY <1>2, LifeFacts
    <3> QED BY <3>2, <3>3, <3>4 DEF PartialInv, Fine, Info
  <2>2. CASE life # "made" /\ \E size \in Sizes, kind \in Kinds : PostArrive(r, size, kind)
    <3>1. PICK size \in Sizes, kind \in Kinds : PostArrive(r, size, kind)
      BY <2>2
    <3>2. /\ life = "new" /\ life' = "made" /\ pc'[r] = "put" /\ objs' = objs /\ given' = given
          /\ \A q \in Reqs : q # r => pc'[q] = "idle" /\ job'[q] = job[q]
      BY <3>1, PostArrives
    <3>3. \A q \in Reqs : q # r => job'[q].op # "post"
      BY <3>2, OpFacts DEF TypeInv, Order
    <3>4. Intact(objs, given) /\ Vacant(objs, 0)
      BY <3>2 DEF PartialInv
    <3>5. Safe(objs, given)
      BY <3>4, IntactSafe
    <3>6. Partial("put", job'[r], objs, given)
      BY <3>4 DEF Partial, CombinesFor
    <3> QED BY <3>2, <3>3, <3>5, <3>6 DEF PartialInv, Info
  <2>3. CASE life = "made" /\ ~Active(r)
    <3>1. /\ objs' = objs /\ given' = given /\ life' = life
          /\ \/ pc'[r] \in {"idle", "lock", "load"} /\ job'[r].op \in {"none", job[r].op}
             \/ pc[r] = "idle" /\ pc'[r] = "lock" /\ job'[r].op \in {"patch", "get", "delete"}
      BY <1>2, <2>3, Waiting
    <3>2. job[r].op # "post"
      BY <2>3, OpFacts DEF Active, Fits
    <3>3. job'[r].op # "post"
      BY <3>1, <3>2
    <3>4. \A q \in Reqs : q # r => pc'[q] = pc[q] /\ job'[q] = job[q]
      BY <1>2, Frame DEF Mine
    <3> QED BY <2>3, <3>1, <3>3, <3>4 DEF PartialInv, Info
  <2>4. CASE life # "made" /\ ~(\E size \in Sizes, kind \in Kinds : PostArrive(r, size, kind))
    <3>1. life' \notin {"new", "made"}
      BY <1>2, <2>4, LifeFacts
    <3> QED BY <3>1 DEF PartialInv
  <2> QED BY <2>1, <2>2, <2>3, <2>4
<1> QED BY <1>1, <1>2 DEF Next, Acts

LEMMA PartialInit == Init => PartialInv
<1> SUFFICES ASSUME Init PROVE PartialInv
  OBVIOUS
<1>1. Intact(objs, given)
  BY InitObjs DEF Intact
<1>2. Vacant(objs, 0)
  BY InitObjs, TmpFacts, KeyFacts DEF Vacant
<1>3. life = "new" /\ Safe(objs, given)
  BY <1>1, IntactSafe DEF Init
<1> QED BY <1>1, <1>2, <1>3 DEF PartialInv

LEMMA PartialInvariance == Spec => [](TypeInv /\ GatherInv /\ SteadyInv /\ PartialInv)
<1>1. Init => TypeInv /\ GatherInv /\ SteadyInv /\ PartialInv
  BY TypeInit, GatherInit, SteadyInit, PartialInit
<1>2. (TypeInv /\ GatherInv /\ SteadyInv /\ PartialInv) /\ [Next]_vars
        => (TypeInv /\ GatherInv /\ SteadyInv /\ PartialInv)'
  BY TypeStep, GatherStep, SteadyStep, PartialStep
<1> QED BY <1>1, <1>2, PTL DEF Spec

(* concatenate may fail, or be lost, at any of its calls: until the final  *)
(* upload counts its bytes, every byte of a partial nobody else took is in *)
(* an object of the bucket, for any partials and any limit on a batch.     *)
THEOREM Partials == Spec => []PartialsKept
<1>1. TypeInv /\ PartialInv => PartialsKept
  <2> SUFFICES ASSUME TypeInv, PartialInv, life \in {"new", "made"}, ~(Found /\ IsComplete(Info)),
                      NEW i \in DOMAIN SourceNames, SourceNames[i] \in given,
                      NEW b \in ToSet(SourceBytes[i])
               PROVE  Stored(b, Own \union ToSet(SourceNames))
    BY DEF PartialsKept
  <2> DEFINE s == SourceNames[i]
             bytes == SourceBytes[i]
  <2>1. Safe(objs, given)
    BY DEF PartialInv, Complete, Found, Info
  <2>2. s \in Sources /\ bytes # Absent /\ Accounted(objs, s, bytes)
    BY <2>1, SourceFacts, AbsentFacts DEF Safe
  <2>3. CASE objs[s] = bytes
    BY <2>2, <2>3 DEF Stored, Sources
  <2>4. CASE Holds(objs, b, Own)
    BY <2>4 DEF Holds, Stored
  <2> QED BY <2>2, <2>3, <2>4 DEF Accounted
<1> QED BY <1>1, PartialInvariance, PTL
-----------------------------------------------------------------------------
(* What clients were told of is stored.  From here on no body is empty: an *)
(* empty PATCH on a complete upload replaces its object by an empty one.   *)

(* The parts are the first m.                                              *)
PartsTo(o, m) == \A i \in 1..Len(PartNames) : (o[PartNames[i]] # Absent) <=> i <= m

InParts(o, n) ==
  /\ \E m \in 0..Len(PartNames) : PartsTo(o, m)
  /\ Held(o, n, Parts) /\ Vacant(o, 0)
Empty(o) == o["info"] = Absent /\ \A key \in Own : o[key] = Absent
NextPart(o, key) ==
  \E m \in 0..Len(PartNames) : m < Len(PartNames) /\ PartsTo(o, m) /\ key = PartNames[m + 1]

(* Who has bytes to write.                                                 *)
Writing(l, j) ==
  \/ j.op = "patch" \/ l \in {"chunk", "list", "save"}
  \/ PutsFor(l, j, "chunk") \/ PutsFor(l, j, "save") \/ PutsFor(l, j, "reread")
Brings(l, j) == Writing(l, j) => j.n > 0

(* A handler that creates, writes or finishes the upload finds its bytes   *)
(* in the parts, or in the intermediates of the combination it is at.      *)
Keeps(l, j, o) ==
  LET i == o["info"]
  IN /\ l = "put" /\ i = Absent => Empty(o)
     /\ PutsFor(l, j, "body") /\ ~j.value.final => j.value.offset = 0
     /\ i # Absent /\ ~i.final =>
          /\ l \in {"body", "reread", "finish", "parts"} => InParts(o, i.offset)
          /\ (l \in {"chunk", "list"} \/ PutsFor(l, j, "chunk") \/ PutsFor(l, j, "save")) /\ ~IsComplete(i)
               => InParts(o, i.offset)
          /\ PutsFor(l, j, "save") => NextPart(o, j.key)
          /\ l = "save" \/ PutsFor(l, j, "reread") => InParts(o, j.at + j.n)
          /\ PutsFor(l, j, "done") => i.offset = 0
          /\ CombinesFor(l, j, "done") => Held(o, i.offset, Own) /\ Clear(l, j, o)
          /\ l = "done" => Held(o, i.offset, Own)

(* What is known of an upload whose clients were told of n bytes.          *)
Told(o, n) ==
  LET i == o["info"]
  IN /\ i # Absent
     /\ ~i.final => /\ n <= i.offset /\ Held(o, i.offset, Own)
                    /\ ~IsComplete(i) => InParts(o, i.offset)

(* Who deletes.                                                            *)
Deletes(l, j) == j.op = "delete" /\ l \in {"erase", "left", "deleted"}

KeptInv ==
  /\ life = "new" => Empty(objs)
  /\ life \in {"new", "made"} => told = 0
  /\ life = "known" => Told(objs, told)
  /\ \A r \in Reqs : life \in {"made", "known"} /\ job[r].op \in {"post", "patch"} =>
       Keeps(pc[r], job[r], objs)
  /\ \A r \in Reqs : Deletes(pc[r], job[r]) => life \in {"doomed", "gone"}
  /\ \A r \in Reqs : Brings(pc[r], job[r])

LEMMA KeepsRest ==
  ASSUME NEW l, NEW j, NEW o,
         l \in {"idle", "lock", "load", "declare", "left", "deleted", "concat", "total", "read"}
           \/ (l = "erase" /\ j.op = "delete")
  PROVE  Keeps(l, j, o)
BY DEF Keeps, PutsFor, CombinesFor

LEMMA HeldInParts == ASSUME NEW o, NEW n, InParts(o, n) PROVE Held(o, n, Own)
BY OwnFacts DEF InParts, Held, Holds

LEMMA EmptyInParts == ASSUME NEW o, Empty(o) PROVE InParts(o, 0)
<1>1. \A key \in Own : o[key] = Absent
  BY DEF Empty
<1>2. PartsTo(o, 0) /\ 0 \in 0..Len(PartNames)
  <2>1. \A i \in 1..Len(PartNames) : PartNames[i] \in Own /\ ~(i <= 0)
    BY PartFacts, OwnFacts
  <2> QED BY <1>1, <2>1, PartFacts DEF PartsTo
<1>3. Vacant(o, 0)
  BY <1>1, OwnFacts DEF Vacant
<1> QED BY <1>2, <1>3 DEF InParts, Held

LEMMA InPartsSame ==
  ASSUME NEW o, NEW p, NEW n, \A key \in Blobs : p[key] = o[key], InParts(o, n)
  PROVE  InParts(p, n)
<1>1. PICK m \in 0..Len(PartNames) : PartsTo(o, m)
  BY DEF InParts
<1>2. PartsTo(p, m)
  <2>1. \A i \in 1..Len(PartNames) : PartNames[i] \in Blobs
    BY PartFacts, KeyFacts
  <2> QED BY <1>1, <2>1 DEF PartsTo
<1>3. Held(p, n, Parts) /\ Vacant(p, 0)
  <2>1. Held(o, n, Parts) /\ Vacant(o, 0) /\ Parts \subseteq Blobs
    BY KeyFacts DEF InParts
  <2> QED BY <2>1, BlobsSame
<1> QED BY <1>2, <1>3 DEF InParts

(* When the parts are the first m, list_parts counts them.                 *)
LEMMA ListFirst ==
  ASSUME NEW m \in 0..Len(PartNames), PartsTo(objs, m)
  PROVE  ListParts = SubSeq(PartNames, 1, m) /\ Len(ListParts) = m
<1>1. PartNames \in Seq(Parts) /\ DOMAIN PartNames = 1..Len(PartNames) /\ Len(PartNames) \in Nat
  BY PartFacts
<1>2. \A i \in 1..Len(PartNames) :
        Listed(PartNames[i]) = IF i <= m THEN <<PartNames[i]>> ELSE <<>>
  BY DEF PartsTo, Listed
<1>3. ListParts = FlattenSeq([i \in 1..Len(PartNames) |->
                                IF i <= m THEN <<PartNames[i]>> ELSE <<>>])
  <2>1. [i \in DOMAIN PartNames |-> Listed(PartNames[i])]
          = [i \in 1..Len(PartNames) |-> IF i <= m THEN <<PartNames[i]>> ELSE <<>>]
    BY <1>1, <1>2
  <2> QED BY <2>1 DEF ListParts
<1>4. ListParts = SubSeq(PartNames, 1, m)
  BY <1>1, <1>3, FlattenFirst
<1> QED BY <1>1, <1>4

LEMMA ChunkHas ==
  ASSUME NEW at \in Nat, NEW n \in Nat, NEW b \in (at + 1)..(at + n)
  PROVE  b \in ToSet(Chunk(at, n)) /\ Chunk(at, n) # Absent
<1>1. b - at \in 1..n /\ at + (b - at) = b
  OBVIOUS
<1>2. Chunk(at, n)[b - at] = b /\ DOMAIN Chunk(at, n) = 1..n
  BY <1>1 DEF Chunk
<1>3. b \in ToSet(Chunk(at, n))
  BY <1>1, <1>2 DEF ToSet
<1>4. Chunk(at, n) # Absent
  BY ChunkFacts, AbsentFacts
<1> QED BY <1>3, <1>4

(* The next part has the next bytes.                                       *)
LEMMA PartAdded ==
  ASSUME NEW o, NEW p, NEW at \in Nat, NEW n \in Nat, NEW key, InParts(o, at), NextPart(o, key),
         p[key] = Chunk(at, n), \A q \in Blobs : q # key => p[q] = o[q]
  PROVE  InParts(p, at) /\ InParts(p, at + n)
<1>1. PICK m \in 0..Len(PartNames) :
             m < Len(PartNames) /\ PartsTo(o, m) /\ key = PartNames[m + 1]
  BY DEF NextPart
<1>2. /\ m + 1 \in 1..Len(PartNames) /\ m + 1 \in 0..Len(PartNames) /\ ~(m + 1 <= m)
      /\ Len(PartNames) \in Nat
  BY <1>1, PartFacts
<1>3. key \in Parts /\ o[key] = Absent /\ p[key] # Absent
  <2>1. p[key] # Absent
    BY ChunkFacts, AbsentFacts
  <2> QED BY <1>1, <1>2, <2>1, PartFacts DEF PartsTo
<1>4. PartsTo(p, m + 1)
  <2> SUFFICES ASSUME NEW i \in 1..Len(PartNames)
               PROVE  (p[PartNames[i]] # Absent) <=> i <= m + 1
    BY DEF PartsTo
  <2>1. CASE i = m + 1
    BY <1>1, <1>2, <1>3, <2>1
  <2>2. CASE i # m + 1
    <3>1. PartNames[i] # key /\ PartNames[i] \in Blobs
      BY <1>1, <1>2, <2>2, PartFacts, KeyFacts
    <3>2. (o[PartNames[i]] # Absent) <=> i <= m
      BY <1>1 DEF PartsTo
    <3>3. i <= m <=> i <= m + 1
      BY <2>2
    <3> QED BY <3>1, <3>2, <3>3
  <2> QED BY <2>1, <2>2
<1>5. \A b \in 1..at : Holds(p, b, Parts)
  <2> TAKE b \in 1..at
  <2>1. PICK q \in Parts : o[q] # Absent /\ b \in ToSet(o[q])
    BY DEF InParts, Held, Holds
  <2>2. p[q] = o[q]
    BY <1>3, <2>1, KeyFacts
  <2> QED BY <2>1, <2>2 DEF Holds
<1>6. \A b \in (at + 1)..(at + n) : Holds(p, b, Parts)
  BY <1>3, ChunkHas DEF Holds
<1>7. Held(p, at, Parts) /\ Held(p, at + n, Parts)
  <2>1. \A b \in 1..(at + n) : b \in 1..at \/ b \in (at + 1)..(at + n)
    OBVIOUS
  <2> QED BY <1>5, <1>6, <2>1 DEF Held
<1>8. Vacant(p, 0)
  <2>1. Vacant(o, 0)
    BY DEF InParts
  <2> QED BY <1>3, <2>1, PartApart
<1> QED BY <1>2, <1>4, <1>7, <1>8 DEF InParts

LEMMA KeptAt ==
  ASSUME KeptInv, NEW r \in Reqs
  PROVE  /\ life \in {"made", "known"} /\ job[r].op \in {"post", "patch"} => Keeps(pc[r], job[r], objs)
         /\ Brings(pc[r], job[r])
         /\ life = "known" => Told(objs, told)
         /\ life = "made" => told = 0
BY DEF KeptInv

(* An object that a handler has put.                                       *)
LEMMA PutKeeps ==
  ASSUME TypeInv, SteadyInv, KeptInv, NEW r \in Reqs, life \in {"made", "known"},
         job[r].op \in {"post", "patch"}, pc[r] = "put", objs' = Effect(r)
  PROVE  /\ Keeps(job[r].then, job[r], objs')
         /\ life = "known" => Told(objs', told)
<1> DEFINE j == job[r]
           then == j.then
           v == j.value
           i == Info
           ii == objs'["info"]
           at == j.at
           n == j.n
<1>1. j \in Jobs /\ PutFits(j) /\ objs' = [objs EXCEPT ![j.key] = v] /\ at \in Nat /\ n \in Nat
  BY OpFacts, PutObjs DEF Fits, Jobs
<1>2. /\ Keeps("put", j, objs) /\ Steady("put", j, i) /\ Brings("put", j)
      /\ life = "known" => Told(objs, told)
  BY KeptAt, SteadyAt
<1>3. DOMAIN objs = Keys /\ (i # Absent => i \in Infos) /\ i = objs["info"] /\ told \in Nat
  BY DEF TypeInv, ObjsOK, Info, Counters
<1>4. i # Absent => i.offset \in Nat /\ i.size \in Nat \union {NoLen}
  BY <1>3 DEF Infos
<1>5. CASE then = "done"
  <2>1. j.key = "data"
    BY <1>1, <1>5 DEF PutFits
  <2>2. ii = i
    BY <1>1, <1>3, <2>1
  <2>3. i # Absent /\ IsComplete(i)
    BY <1>2, <1>5 DEF Steady, PutsFor
  <2>4. ~i.final => i.offset = 0
    BY <1>2, <1>3, <1>5, <2>3 DEF Keeps, PutsFor
  <2>5. \A o : Held(o, 0, Own)
    BY DEF Held
  <2> HIDE DEF i, j, then
  <2>6. Keeps("done", j, objs')
    BY <2>2, <2>4, <2>5 DEF Keeps, PutsFor, CombinesFor
  <2>7. life = "known" => Told(objs', told)
    BY <1>2, <1>3, <2>2, <2>3, <2>4, <2>5 DEF Told
  <2> QED BY <1>5, <2>6, <2>7 DEF then, j
<1>6. CASE then = "save"
  <2> DEFINE q == j.key
  <2>1. q \in Parts /\ v = Chunk(at, n) /\ i # Absent /\ Ready(i, j)
    BY <1>1, <1>2, <1>6 DEF PutFits, Steady, PutsFor
  <2>2. q # "info" /\ q \in Keys
    BY <2>1, KeyFacts
  <2>3. ii = i /\ objs'[q] = v /\ \A key \in Blobs : key # q => objs'[key] = objs[key]
    BY <1>1, <1>3, <2>2, KeyFacts
  <2>4. i.offset = at /\ ~IsComplete(i)
    <3>1. n > 0
      BY <1>2, <1>6 DEF Brings, Writing, PutsFor
    <3>2. i.offset = at /\ (i.size # NoLen => at + n <= i.size)
      BY <2>1 DEF Ready
    <3> HIDE DEF i, at, n
    <3> QED BY <1>1, <1>4, <2>1, <3>1, <3>2 DEF IsComplete
  <2>5. ~i.final => InParts(objs, at) /\ NextPart(objs, q)
    BY <1>2, <1>3, <1>6, <2>1, <2>4 DEF Keeps, PutsFor
  <2> HIDE DEF q, i, j, at, n, v, then
  <2>6. ~i.final => InParts(objs', at) /\ InParts(objs', at + n)
    <3>1. /\ at \in Nat /\ n \in Nat /\ objs'[q] = Chunk(at, n)
          /\ \A key \in Blobs : key # q => objs'[key] = objs[key]
      BY <1>1, <2>1, <2>3
    <3> QED BY <2>5, <3>1, PartAdded
  <2>7. Keeps("save", j, objs')
    BY <2>3, <2>6 DEF Keeps, PutsFor, CombinesFor, at, n
  <2>8. life = "known" => Told(objs', told)
    BY <1>2, <1>3, <2>1, <2>3, <2>4, <2>6, HeldInParts DEF Told
  <2> QED BY <1>6, <2>7, <2>8 DEF then, j
<1>7. CASE then \in {"concat", "body", "chunk", "reread"}
  <2>1. j.key = "info" /\ v \in Infos
    BY <1>1, <1>7 DEF PutFits
  <2>2. ii = v /\ v # Absent /\ \A key \in Blobs : objs'[key] = objs[key]
    BY <1>1, <1>3, <2>1, KeyFacts, AbsentFacts
  <2>3. then \in {"concat", "body"} => life # "known"
    BY <1>1 DEF PutFits, TypeInv, Order
  <2> HIDE DEF j, then, v, i, at, n
  <2>4. CASE then = "concat"
    <3>1. v.final
      BY <1>2, <2>4 DEF Steady, PutsFor, v, then
    <3>2. Keeps("concat", j, objs')
      BY <2>2, <3>1 DEF Keeps, PutsFor, CombinesFor
    <3> QED BY <2>3, <2>4, <3>2 DEF then, j
  <2>5. CASE then = "body"
    <3>1. ~v.final => v.offset = 0 /\ i = Absent
      BY <1>2, <2>5 DEF Steady, Keeps, PutsFor, v, then
    <3>2. ~v.final => InParts(objs, 0)
      BY <1>2, <1>3, <3>1, EmptyInParts DEF Keeps
    <3>3. ~v.final => InParts(objs', v.offset)
      BY <2>2, <3>1, <3>2, InPartsSame
    <3>4. Keeps("body", j, objs')
      BY <2>2, <3>3 DEF Keeps, PutsFor, CombinesFor
    <3> QED BY <2>3, <2>5, <3>4 DEF then, j
  <2>6. CASE then = "chunk"
    <3>1. i # Absent /\ i.size = NoLen /\ ~i.final /\ v.offset = i.offset
      BY <1>2, <2>6 DEF Steady, PutsFor, v, then
    <3>2. InParts(objs, i.offset)
      BY <1>2, <1>3, <2>6, <3>1 DEF Keeps, PutsFor, IsComplete, then
    <3>3. InParts(objs', v.offset)
      BY <2>2, <3>1, <3>2, InPartsSame
    <3>4. Keeps("chunk", j, objs')
      BY <2>2, <3>3 DEF Keeps, PutsFor, CombinesFor
    <3>5. life = "known" => Told(objs', told)
      BY <1>2, <1>3, <2>2, <3>1, <3>3, HeldInParts DEF Told
    <3> QED BY <2>6, <3>4, <3>5 DEF then, j
  <2>7. CASE then = "reread"
    <3>1. i # Absent /\ Ready(i, j) /\ v = [i EXCEPT !.offset = at + n]
      BY <1>2, <2>7 DEF Steady, PutsFor, v, then, at, n
    <3>2. v.offset = at + n /\ v.final = i.final /\ i.offset = at
      BY <1>3, <3>1 DEF Infos, Ready, at
    <3>3. ~i.final => InParts(objs, at + n)
      BY <1>2, <1>3, <2>7, <3>1 DEF Keeps, PutsFor, then, at, n
    <3>4. ~i.final => InParts(objs', v.offset)
      BY <2>2, <3>2, <3>3, InPartsSame
    <3>5. Keeps("reread", j, objs')
      BY <2>2, <3>2, <3>4 DEF Keeps, PutsFor, CombinesFor
    <3>6. life = "known" => Told(objs', told)
      <4>1. told <= at => told <= at + n
        BY <1>1, <1>3
      <4> QED BY <1>2, <1>3, <2>2, <3>1, <3>2, <3>4, <4>1, HeldInParts DEF Told
    <3> QED BY <2>7, <3>5, <3>6 DEF then, j
  <2> QED BY <1>7, <2>4, <2>5, <2>6, <2>7
<1>8. then \in {"concat", "body", "chunk", "save", "reread", "done"}
  BY <1>1 DEF PutFits
<1> QED BY <1>5, <1>6, <1>7, <1>8

(* What a handler combines, or deletes after it has been combined.         *)
LEMMA MergeHolds ==
  ASSUME TypeInv, GatherInv, SteadyInv, KeptInv, NEW r \in Reqs, life \in {"made", "known"},
         job[r].op \in {"post", "patch"}, pc[r] \in {"group", "fetch", "commit", "erase"},
         objs' = objs \/ (pc[r] = "commit" /\ ~Refused(r) /\ objs' = Effect(r))
                      \/ (pc[r] = "erase" /\ objs' = Effect(r))
  PROVE  /\ objs'["info"] = Info /\ Info # Absent
         /\ ~Info.final => Held(objs', Info.offset, Own) /\ Clear(pc[r], job[r], objs)
         /\ life = "known" => Told(objs', told)
<1> DEFINE j == job[r]
           i == Info
<1>1. j \in Jobs /\ CombineFits(pc[r], j) /\ j.back \in {"total", "done"}
  BY OpFacts DEF Fits, EraseFits, CombineFits
<1>2. /\ Keeps(pc[r], j, objs) /\ Steady(pc[r], j, i) /\ (life = "known" => Told(objs, told))
      /\ i = objs["info"]
  BY KeptAt, SteadyAt DEF Info
<1>3. CombinesFor(pc[r], j, j.back)
  BY DEF CombinesFor
<1>4. /\ i # Absent /\ (j.back = "total" => i.final) /\ (j.back = "done" => IsComplete(i))
  BY <1>1, <1>2, <1>3 DEF Steady
<1>5. ~i.final => Held(objs, i.offset, Own) /\ Clear(pc[r], j, objs)
  BY <1>1, <1>2, <1>3, <1>4 DEF Keeps
<1>6. objs'["info"] = i
  <2>1. CASE pc[r] = "commit" /\ ~Refused(r) /\ objs' = Effect(r)
    BY <2>1, CommitObjs DEF Info
  <2>2. CASE pc[r] = "erase" /\ objs' = Effect(r)
    BY <2>2, EraseCarries
  <2> QED BY <2>1, <2>2 DEF Info
<1>7. ~i.final => Held(objs', i.offset, Own)
  <2>1. CASE objs' = objs
    BY <1>5, <2>1
  <2>2. CASE objs' # objs
    <3>1. ~i.final => Carried(objs, objs', j.dest) /\ j.dest \in Own
      BY <1>5, <2>2, CommitCarries, EraseCarries
    <3> HIDE DEF i, j
    <3> QED BY <1>5, <3>1, HeldCarried, OwnFacts
  <2> QED BY <2>1, <2>2
<1> HIDE DEF i
<1>8. life = "known" => Told(objs', told)
  BY <1>1, <1>2, <1>4, <1>6, <1>7 DEF Told
<1> QED BY <1>4, <1>5, <1>6, <1>7, <1>8 DEF i

LEMMA MergeKeeps ==
  ASSUME TypeInv, GatherInv, SteadyInv, KeptInv, NEW r \in Reqs, life \in {"made", "known"},
         job[r].op \in {"post", "patch"}, Combine(r) \/ Erase(r)
  PROVE  /\ Keeps(pc'[r], job'[r], objs')
         /\ life = "known" => Told(objs', told)
         /\ life' = life /\ told' = told
<1> DEFINE l == pc'[r]
           k == job'[r]
           i == Info
           ii == objs'["info"]
<1>1. /\ pc[r] \in {"group", "fetch", "commit", "erase"} /\ life' = life /\ told' = told
      /\ l \in {"group", "fetch", "commit", "erase", "total", "done"}
  <2>1. CASE Combine(r)
    BY <2>1, CombineGoes DEF Combine, NextGroup, FetchBlock, FetchPiece, Commit, outside
  <2>2. CASE Erase(r)
    <3>1. /\ pc[r] = "erase" /\ CombineFits("erase", job[r]) /\ life' = life /\ told' = told
          /\ l \in {"erase", IF job[r].dest = "data" THEN job[r].back ELSE "group"}
      BY <2>2, EraseFacts DEF Erase
    <3> QED BY <3>1 DEF CombineFits
  <2> QED BY <2>1, <2>2
<1>2. /\ ii = i /\ i # Absent
      /\ ~i.final => Held(objs', i.offset, Own) /\ Clear(pc[r], job[r], objs)
      /\ life = "known" => Told(objs', told)
  <2>1. \/ objs' = objs
        \/ pc[r] = "commit" /\ ~Refused(r) /\ objs' = Effect(r)
        \/ pc[r] = "erase" /\ objs' = Effect(r)
    <3>1. CASE Combine(r)
      BY <3>1, CombineGoes DEF Commit
    <3>2. CASE Erase(r)
      BY <3>2 DEF Erase
    <3> QED BY <3>1, <3>2
  <2> QED BY <1>1, <2>1, MergeHolds
<1>3. ~i.final => Clear(l, k, objs') \/ l \in {"total", "done"}
  <2>1. CASE Combine(r)
    BY <1>2, <2>1, CombineClear
  <2>2. CASE Erase(r)
    BY <1>2, <2>2, EraseClear, EraseFacts
  <2> QED BY <2>1, <2>2
<1> HIDE DEF l, k, i
<1>4. Keeps(l, k, objs')
  BY <1>1, <1>2, <1>3 DEF Keeps, PutsFor, CombinesFor
<1> QED BY <1>1, <1>2, <1>4 DEF l, k

LEMMA PostKeeps ==
  ASSUME TypeInv, SteadyInv, KeptInv, NEW r \in Reqs, life \in {"made", "known"},
         job[r].op \in {"post", "patch"}, Post(r)
  PROVE  /\ Keeps(pc'[r], job'[r], objs')
         /\ life = "known" => Told(objs', told)
         /\ life' = life /\ told' = told
<1> DEFINE j == job[r]
           k == job'[r]
           i == Info
<1>1. /\ j \in Jobs /\ Steady(pc[r], j, i) /\ Keeps(pc[r], j, objs) /\ i = objs["info"]
      /\ (Found => i # Absent) /\ (life = "known" => Told(objs, told))
  BY OpFacts, SteadyAt, KeptAt DEF Info, Found
<1>2. ~(\E size \in Sizes, kind \in Kinds : PostArrive(r, size, kind))
  BY DEF PostArrive
<1>3. life' = life /\ told' = told
  BY <1>2 DEF Post, TakePartial, Concatenate, SaveTotal, PostNoBody, PostBody, outside
<1>4. ASSUME NEW s \in given, TakePartial(r, s) 
      PROVE  Keeps(pc'[r], k, objs') /\ (life = "known" => Told(objs', told))
  <2>1. s # "info"
    BY KeyFacts DEF TypeInv, Counters
  <2>2. /\ pc[r] \in {"concat", "group", "fetch", "commit"} /\ pc'[r] = pc[r] /\ i # Absent /\ i.final
        /\ objs'["info"] = i
    BY <1>1, <1>4, <2>1 DEF TakePartial, Info
  <2> HIDE DEF k, i
  <2> QED BY <2>2 DEF Keeps, PutsFor, Told
<1>5. CASE Concatenate(r)
  <2>1. pc[r] = "concat" /\ pc'[r] = "group" /\ objs'["info"] = i /\ objs' = objs
    BY <1>5 DEF Concatenate, Goto, TypeInv, Placed, Info
  <2>2. i # Absent /\ i.final
    BY <1>1, <2>1 DEF Steady
  <2> HIDE DEF k, i
  <2> QED BY <1>1, <1>3, <2>1, <2>2 DEF Keeps, PutsFor, k
<1>6. CASE SaveTotal(r)
  <2> DEFINE v == [size |-> FinalLen, offset |-> FinalLen, final |-> TRUE]
  <2>1. pc[r] = "total" /\ Write(r, "info", v, "body") /\ objs' = objs
    BY <1>6 DEF SaveTotal
  <2>2. v \in Infos \union Bytes /\ v.final
    BY FinalLenType DEF Infos
  <2> HIDE DEF v
  <2>3. pc'[r] = "put" /\ k.value = v /\ k.then = "body" /\ objs'["info"] = i
    BY <2>1, <2>2, WriteSteady, KeyFacts DEF Labels
  <2>4. i # Absent /\ i.final
    BY <1>1, <2>1 DEF Steady
  <2> HIDE DEF k, i
  <2> QED BY <1>1, <1>3, <2>1, <2>2, <2>3, <2>4 DEF Keeps, PutsFor, k
<1>7. ASSUME PostNoBody(r) \/ \E n \in ChunkLens : PostBody(r, n)
      PROVE  Keeps(pc'[r], k, objs') /\ (life = "known" => Told(objs', told))
  <2>1. pc[r] = "body" /\ pc'[r] \in {"reread", "chunk"} /\ objs' = objs
    BY <1>7 DEF PostNoBody, PostBody, Goto, TypeInv, Placed
  <2> HIDE DEF k
  <2> QED BY <1>1, <2>1 DEF Keeps, PutsFor, CombinesFor
<1> QED BY <1>2, <1>3, <1>4, <1>5, <1>6, <1>7 DEF Post

(* A client is told of what is stored.                                     *)
LEMMA TellKeeps ==
  ASSUME NEW o, NEW x \in Nat, NEW y \in Nat, NEW i, i = o["info"], i # Absent,
         NEW n, n = i.offset, n \in Nat, ~i.final => Held(o, n, Own) /\ (~IsComplete(i) => InParts(o, n)),
         x = 0 \/ Told(o, x), y = IF x < n THEN n ELSE x
  PROVE  Told(o, y)
<1>1. ~i.final => y = n
  BY DEF Told
<1> QED BY <1>1 DEF Told

LEMMA PatchKeeps ==
  ASSUME TypeInv, SteadyInv, KeptInv, NEW r \in Reqs, life \in {"made", "known"},
         job[r].op \in {"post", "patch"}, Patch(r)
  PROVE  /\ Keeps(pc'[r], job'[r], objs') /\ objs' = objs
         /\ \/ life' = life /\ told' = told
            \/ life' = "known" /\ Told(objs', told')
<1> DEFINE j == job[r]
           k == job'[r]
           i == Info
<1>1. /\ j \in Jobs /\ Fits(pc[r], j) /\ Steady(pc[r], j, i) /\ Keeps(pc[r], j, objs)
      /\ Brings(pc[r], j) /\ i = objs["info"]
      /\ (life = "known" => Told(objs, told)) /\ (life = "made" => told = 0)
      /\ (i # Absent => i \in Infos) /\ (Found => i # Absent) /\ told \in Nat
  BY OpFacts, SteadyAt, KeptAt DEF Info, Found, TypeInv, ObjsOK, Counters
<1>2. i # Absent => i.offset \in Nat /\ i.size \in Nat \union {NoLen}
  BY <1>1 DEF Infos
<1>3. objs' = objs
  BY DEF Patch, Arrive, LoadPatch, Declare, ReadChunk, WritePart, SaveOffset, Reread, PreFinish,
         Finalize, Done
<1>4. ~(\E at \in 0..MaxLen, n \in ChunkLens : Arrive(r, "patch", at, n))
  BY OpFacts DEF Arrive
<1>5. ~Reread(r) /\ ~Done(r) => life' = life /\ told' = told
  BY <1>4 DEF Patch, LoadPatch, Declare, ReadChunk, WritePart, SaveOffset, PreFinish,
         Finalize, outside
<1>6. j.op = "patch" => Told(objs, told)
  BY <1>1 DEF TypeInv, Order
<1>7. CASE LoadPatch(r)
  <2>1. /\ pc'[r] \in {"chunk", "declare"} /\ j.op = "patch"
    BY <1>7 DEF LoadPatch, Goto, TypeInv, Placed
  <2>2. i # Absent /\ (~i.final /\ ~IsComplete(i) => InParts(objs, i.offset))
    BY <1>1, <1>6, <2>1 DEF Told
  <2> HIDE DEF k, i
  <2>3. Keeps(pc'[r], k, objs)
    BY <1>1, <2>1, <2>2 DEF Keeps, PutsFor, CombinesFor
  <2> QED BY <1>3, <1>5, <1>7, <2>3 DEF LoadPatch, Reread, Done, k
<1>8. ASSUME NEW n \in Sizes \ {NoLen}, Declare(r, n) PROVE Keeps(pc'[r], k, objs')
  <2>1. /\ pc[r] = "declare" /\ pc'[r] = "put" /\ k.then = "chunk"
    BY <1>8, DeclareFacts
  <2>2. j.op = "patch"
    BY <1>1, <2>1 DEF Fits
  <2>3. i # Absent /\ (~i.final /\ ~IsComplete(i) => InParts(objs, i.offset))
    BY <1>1, <1>6, <2>2 DEF Told
  <2> HIDE DEF k, i
  <2> QED BY <1>1, <1>3, <2>1, <2>3 DEF Keeps, PutsFor, CombinesFor
<1>9. CASE ReadChunk(r)
  <2>1. pc[r] = "chunk" /\ pc'[r] = "list"
    BY <1>9, ReadChunkFacts
  <2> HIDE DEF k
  <2>2. Keeps(pc'[r], k, objs)
    BY <1>1, <2>1 DEF Keeps, PutsFor, CombinesFor
  <2> QED BY <1>3, <1>5, <2>1, <2>2 DEF Reread, Done, k
<1>10. CASE WritePart(r)
  <2>1. /\ pc[r] = "list" /\ pc'[r] = "put" /\ k.then = "save" /\ k.key = PartNames[Len(ListParts) + 1]
        /\ Len(ListParts) < Len(PartNames)
    BY <1>10, WritePartFacts
  <2>2. i # Absent /\ Ready(i, j)
    BY <1>1, <2>1 DEF Steady
  <2>3. ~IsComplete(i)
    <3> DEFINE at == j.at
               n == j.n
    <3>1. n > 0 /\ n \in Nat /\ at \in Nat
      BY <1>1, <2>1 DEF Brings, Writing, Jobs
    <3>2. i.offset = at /\ (i.size # NoLen => at + n <= i.size)
      BY <2>2 DEF Ready
    <3> HIDE DEF i, at, n
    <3> QED BY <1>2, <2>2, <3>1, <3>2 DEF IsComplete
  <2>4. ~i.final => InParts(objs, i.offset)
    BY <1>1, <2>1, <2>2, <2>3 DEF Keeps
  <2>5. ~i.final => NextPart(objs, k.key)
    <3> SUFFICES ASSUME ~i.final PROVE NextPart(objs, k.key)
      OBVIOUS
    <3>1. PICK m \in 0..Len(PartNames) : PartsTo(objs, m)
      BY <2>4 DEF InParts
    <3>2. Len(ListParts) = m
      BY <3>1, ListFirst
    <3> HIDE DEF k
    <3> QED BY <2>1, <3>1, <3>2 DEF NextPart
  <2> HIDE DEF k, i
  <2>6. Keeps(pc'[r], k, objs)
    BY <1>1, <2>1, <2>2, <2>4, <2>5 DEF Keeps, PutsFor, CombinesFor
  <2> QED BY <1>3, <1>5, <2>1, <2>6 DEF Reread, Done, k
<1>11. CASE SaveOffset(r)
  <2>1. pc[r] = "save" /\ pc'[r] = "put" /\ k.then = "reread" /\ k.at = j.at /\ k.n = j.n
    BY <1>11, SaveOffsetFacts
  <2>2. i # Absent
    BY <1>1, <2>1 DEF Steady
  <2> HIDE DEF k, i, j
  <2>3. Keeps(pc'[r], k, objs)
    BY <1>1, <2>1, <2>2 DEF Keeps, PutsFor, CombinesFor
  <2> QED BY <1>3, <1>5, <2>1, <2>3 DEF Reread, Done, k
<1>12. CASE Reread(r)
  <2>1. /\ pc[r] = "reread" /\ i # Absent
    BY <1>1, <1>12, RereadFacts
  <2>2. ~i.final => InParts(objs, i.offset)
    BY <1>1, <2>1 DEF Keeps
  <2>3. CASE IsComplete(i)
    <3>1. pc'[r] = "finish" /\ life' = life /\ told' = told
      BY <1>12, <2>3, RereadFacts
    <3> HIDE DEF k, i
    <3>2. Keeps(pc'[r], k, objs)
      BY <1>1, <2>2, <3>1 DEF Keeps, PutsFor, CombinesFor
    <3> QED BY <1>3, <3>1, <3>2 DEF k
  <2>4. CASE ~IsComplete(i)
    <3>1. End(r) /\ Tell(i.offset) /\ life' = IF life = "made" THEN "known" ELSE life
      BY <1>12, <2>4, RereadFacts
    <3>2. pc'[r] = "idle" /\ life' = "known"
      BY <3>1, EndMine
    <3>3. Told(objs, told')
      <4> DEFINE n == i.offset
      <4>1. /\ n \in Nat /\ told' = (IF told < n THEN n ELSE told) /\ told' \in Nat
            /\ told = 0 \/ Told(objs, told)
            /\ ~i.final => Held(objs, n, Own) /\ InParts(objs, n)
        BY <1>1, <1>2, <2>1, <2>2, <3>1, HeldInParts DEF Tell
      <4> HIDE DEF n, i
      <4> QED BY <1>1, <2>1, <4>1, TellKeeps DEF n
    <3> QED BY <1>3, <3>2, <3>3, KeepsRest
  <2> QED BY <2>3, <2>4
<1>13. CASE PreFinish(r)
  <2>1. pc[r] = "finish" /\ pc'[r] = "parts"
    BY <1>13 DEF PreFinish, Goto, TypeInv, Placed
  <2> HIDE DEF k
  <2>2. Keeps(pc'[r], k, objs)
    BY <1>1, <2>1 DEF Keeps, PutsFor, CombinesFor
  <2> QED BY <1>3, <1>5, <2>1, <2>2 DEF Reread, Done, k
<1>14. CASE Finalize(r)
  <2>1. /\ pc[r] = "parts"
        /\ \/ ListParts = <<>> /\ pc'[r] = "put" /\ k.then = "done"
           \/ ListParts # <<>> /\ pc'[r] = "group" /\ k.tmps = 0
    BY <1>14, FinalizeFacts
  <2>2. i # Absent
    BY <1>1, <2>1 DEF Steady
  <2>3. ~i.final => InParts(objs, i.offset) /\ Held(objs, i.offset, Own) /\ Vacant(objs, 0)
    BY <1>1, <2>1, <2>2, HeldInParts DEF Keeps, InParts
  <2>4. ListParts = <<>> /\ ~i.final => i.offset = 0
    <3> SUFFICES ASSUME ListParts = <<>>, ~i.final, i.offset # 0 PROVE FALSE
      OBVIOUS
    <3>1. 1 \in 1..i.offset
      BY <1>2, <2>2
    <3>2. \E key \in Parts : objs[key] # Absent
      BY <2>3, <3>1 DEF InParts, Held, Holds
    <3>3. ToSet(ListParts) = {p \in Parts : objs[p] # Absent}
      BY ListFacts
    <3>4. ToSet(<<>>) = {}
      BY DEF ToSet
    <3> QED BY <3>2, <3>3, <3>4
  <2> HIDE DEF k, i
  <2>5. pc'[r] = "group" /\ ~i.final => Clear(pc'[r], k, objs)
    BY <2>1, <2>3 DEF Clear
  <2>6. Keeps(pc'[r], k, objs)
    BY <1>1, <2>1, <2>2, <2>3, <2>4, <2>5 DEF Keeps, PutsFor, CombinesFor
  <2> QED BY <1>3, <1>5, <2>1, <2>6 DEF Reread, Done, k
<1>15. CASE Done(r)
  <2>1. /\ pc[r] = "done" /\ End(r) /\ Tell(j.info.offset)
        /\ life' = IF life = "made" THEN "known" ELSE life
    BY <1>15 DEF Done
  <2>2. i # Absent /\ i = j.info /\ IsComplete(i)
    BY <1>1, <2>1 DEF Steady
  <2>3. pc'[r] = "idle" /\ life' = "known"
    BY <2>1, EndMine
  <2>4. Told(objs, told')
    <3> DEFINE n == i.offset
    <3>1. /\ n \in Nat /\ told' = (IF told < n THEN n ELSE told) /\ told' \in Nat
          /\ told = 0 \/ Told(objs, told)
          /\ ~i.final => Held(objs, n, Own)
      BY <1>1, <1>2, <2>1, <2>2 DEF Tell, Keeps
    <3> HIDE DEF n, i
    <3> QED BY <1>1, <2>2, <3>1, TellKeeps DEF n
  <2> QED BY <1>3, <2>3, <2>4, KeepsRest
<1>16. ASSUME NEW n \in Sizes \ {NoLen}, Declare(r, n)
       PROVE  ~Reread(r) /\ ~Done(r)
  BY <1>16 DEF Declare, Reread, Done
<1> QED BY <1>3, <1>4, <1>5, <1>7, <1>8, <1>9, <1>10, <1>11, <1>12, <1>13, <1>14, <1>15, <1>16 DEF Patch

(* A PATCH, and whoever writes a chunk, has bytes to write.                *)
LEMMA BringsStep ==
  ASSUME TypeInv, 0 \notin ChunkLens, NEW r \in Reqs, Acts(r), Brings(pc[r], job[r])
  PROVE  Brings(pc'[r], job'[r])
<1> DEFINE j == job[r]
           k == job'[r]
           l == pc'[r]
<1>1. j \in Jobs /\ Fits(pc[r], j) /\ Brings(pc[r], j)
  BY OpFacts
<1>2. \A n \in ChunkLens : n \in Nat /\ n > 0
  BY ObjectAssumption
<1> DEFINE plain == {"idle", "lock", "load", "declare", "body", "reread", "finish", "parts", "group",
                     "fetch", "commit", "erase", "done", "left", "deleted", "read", "total", "concat"}
<1>3. k.op # "patch" /\ (l \in plain \/ PutsFor(l, k, "concat") \/ PutsFor(l, k, "body"))
        => Brings(l, k)
  BY DEF Brings, Writing, PutsFor
<1>4. k.op = "patch" /\ j.op = "patch" /\ k.n = j.n => Brings(l, k)
  BY <1>1 DEF Brings, Writing
<1>5. CASE End(r)
  <2>1. l = "idle" /\ k = Blank
    BY <1>5, EndMine
  <2>2. k.op # "patch"
    BY <2>1, BlankFits
  <2> QED BY <1>3, <2>1, <2>2
<1>6. CASE Put(r)
  <2>1. l = j.then /\ k = j /\ pc[r] = "put" /\ PutFits(j)
    BY <1>1, <1>6, GotoMine DEF Put, Fits
  <2> HIDE DEF j, k, l
  <2> QED BY <1>1, <2>1 DEF Brings, Writing, PutsFor, PutFits, j, k, l
<1>7. CASE Erase(r) \/ Combine(r)
  <2>1. k.op = j.op /\ k.n = j.n /\ l \in plain
    <3>1. CASE Erase(r)
      <4>1. /\ k = [j EXCEPT !.todo = Tail(@)] /\ EraseFits(j)
            /\ l = IF Len(j.todo) = 1 THEN j.then ELSE "erase"
        BY <3>1, EraseFacts
      <4>2. j.then \in {"left", "deleted", "total", "done", "group"}
        BY <4>1 DEF EraseFits, CombineFits
      <4> QED BY <1>1, <4>1, <4>2 DEF Jobs
    <3>2. CASE NextGroup(r)
      <4>1. PICK g \in Jobs : Set(r, g) /\ g.op = j.op /\ g.n = j.n
        BY <3>2, GroupFacts
      <4>2. Goto(r, IF cloud = "gcs" THEN "commit" ELSE "fetch")
        BY <3>2 DEF NextGroup
      <4> QED BY <4>1, <4>2, StepMine
    <3>3. CASE FetchBlock(r) \/ FetchPiece(r)
      BY <3>3, FetchSame
    <3>4. CASE Commit(r)
      <4>1. /\ k.op = j.op /\ k.n = j.n /\ CombineFits("commit", j)
            /\ l = (IF cloud = "gcs" THEN IF j.dest = "data" THEN j.back ELSE "group" ELSE "erase")
        BY <3>4, CommitSame
      <4> QED BY <4>1 DEF CombineFits
    <3> QED BY <1>7, <3>1, <3>2, <3>3, <3>4 DEF Combine
  <2> QED BY <1>3, <1>4, <2>1
<1>8. CASE Post(r)
  <2>1. ASSUME NEW size \in Sizes, NEW kind \in Kinds, PostArrive(r, size, kind) PROVE Brings(l, k)
    <3>1. /\ l = "put" /\ k.op = "post" /\ k.then \in {"concat", "body"}
      BY <2>1, PostArrives
    <3> HIDE DEF k, l
    <3> QED BY <1>3, <3>1 DEF PutsFor
  <2>2. ASSUME NEW s \in given, TakePartial(r, s) PROVE Brings(l, k)
    BY <1>1, <2>2 DEF TakePartial
  <2>3. CASE Concatenate(r)
    <3> DEFINE i == [j EXCEPT !.level = SourceNames, !.back = "total"]
    <3>1. pc[r] = "concat" /\ Goto(r, "group") /\ Set(r, i)
      BY <2>3 DEF Concatenate
    <3>2. i.op = "post"
      BY <1>1, <3>1 DEF Jobs, Fits
    <3> HIDE DEF i
    <3>3. l = "group" /\ k.op = "post"
      BY <3>1, <3>2, StepMine
    <3> QED BY <1>3, <3>3
  <2>4. CASE SaveTotal(r)
    <3> DEFINE v == [size |-> FinalLen, offset |-> FinalLen, final |-> TRUE]
    <3>1. pc[r] = "total" /\ Write(r, "info", v, "body") /\ objs' = objs /\ j.op = "post"
      BY <1>1, <2>4 DEF SaveTotal, Fits
    <3>2. v \in Infos \union Bytes
      BY FinalLenType DEF Infos
    <3> HIDE DEF v
    <3>3. l = "put" /\ k.then = "body" /\ k.op = "post"
      BY <3>1, <3>2, WriteSteady, KeyFacts DEF Labels
    <3> HIDE DEF k, l
    <3>4. Brings(l, k)
      BY <1>3, <3>3 DEF PutsFor
    <3> QED BY <3>4 DEF k, l
  <2>5. CASE PostNoBody(r)
    <3>1. pc[r] = "body" /\ l = "reread" /\ k = j
      BY <2>5, GotoMine DEF PostNoBody
    <3>2. k.op = "post"
      BY <1>1, <3>1 DEF Fits
    <3> QED BY <1>3, <3>1, <3>2
  <2>6. ASSUME NEW n \in ChunkLens, PostBody(r, n) PROVE Brings(l, k)
    <3> DEFINE i == [j EXCEPT !.n = n]
    <3>1. Set(r, i) /\ Goto(r, "chunk") /\ i.n = n
      BY <1>1, <2>6 DEF PostBody, Jobs
    <3> HIDE DEF i
    <3>2. k.n = n
      BY <3>1, StepMine
    <3> QED BY <1>2, <3>2 DEF Brings
  <2> QED BY <1>8, <2>1, <2>2, <2>3, <2>4, <2>5, <2>6 DEF Post
<1>9. CASE Patch(r) /\ ~End(r)
  <2>1. ASSUME NEW at \in 0..MaxLen, NEW n \in ChunkLens, Arrive(r, "patch", at, n) PROVE Brings(l, k)
    <3> DEFINE i == [Blank EXCEPT !.op = "patch", !.at = at, !.n = n]
    <3>1. Set(r, i) /\ Goto(r, "lock") /\ i.n = n
      BY <2>1 DEF Arrive, Blank
    <3> HIDE DEF i
    <3>2. k.n = n
      BY <3>1, StepMine
    <3> QED BY <1>2, <3>2 DEF Brings
  <2>2. CASE LoadPatch(r)
    BY <1>1, <2>2 DEF LoadPatch, Brings, Writing
  <2>3. ASSUME NEW n \in Sizes \ {NoLen}, Declare(r, n) PROVE Brings(l, k)
    <3>1. pc[r] = "declare" /\ k.op = j.op /\ k.n = j.n
      BY <2>3, DeclareFacts
    <3> QED BY <1>1, <1>4, <3>1 DEF Fits
  <2>4. CASE ReadChunk(r) \/ WritePart(r) \/ SaveOffset(r)
    <3>1. pc[r] \in {"chunk", "list", "save"} /\ k.n = j.n
      BY <2>4, ReadChunkFacts, WritePartFacts, SaveOffsetFacts
    <3> QED BY <1>1, <3>1 DEF Brings, Writing
  <2>5. CASE Reread(r)
    <3>1. l = "finish" /\ k.op = j.op /\ k.n = j.n
      BY <1>9, <2>5, RereadFacts
    <3> QED BY <1>3, <1>4, <3>1
  <2>6. CASE PreFinish(r)
    <3>1. l = "parts" /\ k = j
      BY <2>6, GotoMine DEF PreFinish
    <3> QED BY <1>3, <1>4, <3>1
  <2>7. CASE Finalize(r)
    <3>1. k.op = j.op /\ k.n = j.n /\ (l = "group" \/ (l = "put" /\ k.then = "done"))
      BY <2>7, FinalizeFacts
    <3> HIDE DEF k, l, j
    <3>2. Brings(l, k)
      BY <1>1, <3>1 DEF Brings, Writing, PutsFor
    <3> QED BY <3>2 DEF k, l
  <2>8. ~Done(r)
    BY <1>9 DEF Done
  <2> QED BY <1>9, <2>1, <2>2, <2>3, <2>4, <2>5, <2>6, <2>7, <2>8 DEF Patch
<1>10. CASE Others(r) /\ ~End(r)
  <2>1. ASSUME NEW op \in {"get", "delete"}, Arrive(r, op, 0, 0) PROVE Brings(l, k)
    <3> DEFINE i == [Blank EXCEPT !.op = op, !.at = 0, !.n = 0]
    <3>1. Set(r, i) /\ Goto(r, "lock") /\ i.op = op
      BY <2>1 DEF Arrive, Blank
    <3> HIDE DEF i
    <3>2. k.op = op /\ l = "lock"
      BY <3>1, StepMine
    <3> QED BY <1>3, <3>2
  <2>2. CASE Lock(r)
    <3>1. l = "load" /\ k = j
      BY <2>2, GotoMine DEF Lock
    <3> QED BY <1>3, <1>4, <3>1
  <2>3. CASE HeadRequest(r)
    BY <1>1, <2>3 DEF HeadRequest
  <2>4. CASE LoadGet(r)
    <3> DEFINE i == [j EXCEPT !.info = Info]
    <3>1. j.op = "get" /\ Set(r, i) /\ Goto(r, "read") /\ i.op = j.op
      BY <1>1, <2>4 DEF LoadGet, Jobs
    <3> HIDE DEF i
    <3>2. k.op = "get" /\ l = "read"
      BY <3>1, StepMine
    <3> QED BY <1>3, <3>2
  <2>5. CASE Delete(r) \/ DeleteParts(r) \/ DeletePartsUnlisted(r)
    <3>1. l = "erase" \/ (pc[r] = "left" /\ l = "deleted" /\ k = j)
      BY <1>10, <2>5 DEF Delete, DeleteParts, DeletePartsUnlisted, Goto, TypeInv, Placed
    <3>2. l = "erase" => k.op = "delete"
      BY <1>10, OtherGathers
    <3>3. pc[r] = "left" => j.op = "delete"
      BY <1>1 DEF Fits
    <3> QED BY <1>3, <3>1, <3>2, <3>3
  <2> QED BY <1>10, <2>1, <2>2, <2>3, <2>4, <2>5 DEF Others, GetRead, Deleted
<1>11. CASE LoseCall(r) \/ Fail(r)
  BY <1>5, <1>11 DEF LoseCall, Fail
<1> QED BY <1>5, <1>6, <1>7, <1>8, <1>9, <1>10, <1>11 DEF Acts

(* What a DELETE leaves is deleted when nobody is told of it any more.     *)
LEMMA LeavesStep ==
  ASSUME TypeInv, NEW r \in Reqs, Acts(r), Deletes(pc'[r], job'[r]),
         Deletes(pc[r], job[r]) => life \in {"doomed", "gone"}
  PROVE  life' \in {"doomed", "gone"}
<1> DEFINE j == job[r]
           k == job'[r]
           l == pc'[r]
<1>1. j \in Jobs /\ Fits(pc[r], j)
  BY OpFacts
<1>2. /\ k.op = "delete" /\ l \in {"erase", "left", "deleted"}
      /\ j.op = "delete" /\ pc[r] \in {"erase", "left", "deleted"} => life \in {"doomed", "gone"}
  BY DEF Deletes
<1>3. \/ Delete(r)
      \/ j.op = "delete" /\ pc[r] \in {"erase", "left", "deleted"}
  <2>1. CASE Erase(r)
    <3>1. pc[r] = "erase" /\ k = [j EXCEPT !.todo = Tail(@)]
      BY <2>1, EraseFacts
    <3>2. k.op = j.op
      BY <1>1, <3>1 DEF Jobs
    <3> QED BY <1>2, <3>1, <3>2
  <2>2. ~Put(r)
    <3>1. Put(r) => l = j.then /\ PutFits(j)
      BY <1>1, GotoMine DEF Put, Fits
    <3> QED BY <1>2, <3>1 DEF PutFits
  <2>3. ~(LoseCall(r) \/ Fail(r))
    BY <1>2, EndMine DEF LoseCall, Fail
  <2>4. ~Post(r)
    <3>1. \A s \in given : TakePartial(r, s) => pc[r] = l /\ k = j
      BY DEF TakePartial
    <3>2. \A s \in given : TakePartial(r, s) => pc[r] \in {"concat", "group", "fetch", "commit"}
      BY DEF TakePartial
    <3>3. \A s \in given : ~TakePartial(r, s)
      BY <1>2, <3>1, <3>2
    <3> QED BY <1>1, <1>2, <3>3 DEF Post, PostArrive, Concatenate, SaveTotal, PostNoBody,
                             PostBody, Write, TypeInv, Placed, Goto, Set
  <2>5. ~Patch(r)
    <3>1. ~(Reread(r) \/ Done(r))
      BY <1>2, EndMine DEF Reread, Done, TypeInv, Placed, Goto, Set
    <3> QED BY <1>1, <1>2, <3>1 DEF Patch, Arrive, LoadPatch, Declare, ReadChunk, WritePart,
                             SaveOffset, PreFinish, Finalize, Write, TypeInv, Placed, Goto, Set
  <2>6. ~Combine(r)
    <3>1. Combine(r) => CombineFits(pc[r], j) /\ k.op = j.op
      <4>1. NextGroup(r) => k.op = j.op
        <5> SUFFICES ASSUME NextGroup(r) PROVE k.op = j.op
          OBVIOUS
        <5>1. PICK i \in Jobs : Set(r, i) /\ i.op = j.op
          BY GroupFacts
        <5>2. Goto(r, IF cloud = "gcs" THEN "commit" ELSE "fetch")
          BY DEF NextGroup
        <5> QED BY <5>1, <5>2, StepMine
      <4>2. FetchBlock(r) \/ FetchPiece(r) => k.op = j.op
        BY FetchSame
      <4>3. Commit(r) => k.op = j.op
        BY CommitSame
      <4>4. Combine(r) => CombineFits(pc[r], j)
        BY <1>1, CombineGoes DEF Fits
      <4> QED BY <4>1, <4>2, <4>3, <4>4 DEF Combine
    <3> QED BY <1>2, <3>1 DEF CombineFits
  <2>7. CASE Others(r)
    <3>1. CASE DeleteParts(r) \/ DeletePartsUnlisted(r)
      BY <1>1, <1>2, <3>1 DEF DeleteParts, DeletePartsUnlisted, Fits
    <3>2. CASE ~(Delete(r) \/ DeleteParts(r) \/ DeletePartsUnlisted(r))
      BY <1>1, <1>2, <2>7, <3>2, EndMine, OpFacts DEF Others, Arrive, Lock, HeadRequest,
                       LoadGet, GetRead, Deleted, TypeInv, Placed, Goto, Set
    <3> QED BY <3>1, <3>2
  <2> QED BY <2>1, <2>2, <2>3, <2>4, <2>5, <2>6, <2>7 DEF Acts
<1>4. Delete(r) => life' = "doomed"
  BY DEF Delete
<1> QED BY <1>2, <1>3, <1>4, LifeFacts

(* A step of a handler that creates, writes or finishes the upload.        *)
LEMMA WriterKeeps ==
  ASSUME TypeInv, GatherInv, SteadyInv, KeptInv, NEW r \in Reqs, Acts(r), Active(r),
         life \in {"made", "known"}, job[r].op \in {"post", "patch"}
  PROVE  /\ Keeps(pc'[r], job'[r], objs')
         /\ \/ life' = life /\ told' = told /\ (life = "known" => Told(objs', told))
            \/ life' = "known" /\ Told(objs', told')
<1> DEFINE j == job[r]
<1>1. j \in Jobs /\ Fits(pc[r], j) /\ (life = "known" => Told(objs, told))
  BY OpFacts, KeptAt
<1>2. CASE Put(r)
  <2>1. /\ pc[r] = "put" /\ objs' = Effect(r) /\ life' = life /\ told' = told
        /\ pc'[r] = j.then /\ job'[r] = j
    BY <1>2, GotoMine DEF Put, outside
  <2> QED BY <2>1, PutKeeps
<1>3. CASE LoseCall(r)
  <2>1. /\ pc[r] \in Calls /\ ~Refused(r) /\ objs' \in {objs, Effect(r)} /\ life' = life
        /\ told' = told /\ pc'[r] = "idle"
    BY <1>3, EndMine DEF LoseCall
  <2>2. life = "known" => Told(objs', told)
    <3>1. CASE objs' = objs
      BY <1>1, <3>1
    <3>2. CASE objs' = Effect(r) /\ pc[r] = "put"
      BY <3>2, PutKeeps
    <3>3. CASE objs' = Effect(r) /\ pc[r] \in {"commit", "erase"}
      BY <2>1, <3>3, MergeHolds
    <3> QED BY <2>1, <3>1, <3>2, <3>3 DEF Calls
  <2> QED BY <2>1, <2>2, KeepsRest
<1>4. CASE Fail(r)
  <2>1. pc'[r] = "idle" /\ objs' = objs /\ life' = life /\ told' = told
    BY <1>4, EndMine DEF Fail, outside
  <2> QED BY <1>1, <2>1, KeepsRest
<1>5. CASE Patch(r)
  <2>1. objs' = objs
    BY <1>5, PatchKeeps
  <2> QED BY <1>1, <1>5, <2>1, PatchKeeps
<1>6. ~Others(r)
  BY <1>1 DEF Others, Arrive, Lock, HeadRequest, LoadGet, GetRead, Delete, DeleteParts,
              DeletePartsUnlisted, Deleted, Fits, Active
<1> QED BY <1>2, <1>3, <1>4, <1>5, <1>6, PostKeeps, MergeKeeps DEF Acts

(* A GET, and a DELETE that does not delete yet.                           *)
LEMMA ReaderKeeps ==
  ASSUME TypeInv, KeptInv, NEW r \in Reqs, Acts(r), Active(r), life = "known",
         job[r].op \in {"get", "delete"}
  PROVE  /\ objs' = objs /\ told' = told /\ life' \in {"known", "doomed"}
         /\ job'[r].op \in {"none", "get", "delete"}
<1> DEFINE j == job[r]
<1>1. j \in Jobs /\ Fits(pc[r], j) /\ pc[r] \notin {"idle", "lock"} /\ pc[r] \in Labels
  BY OpFacts DEF Active
<1>2. ~(j.op = "delete" /\ pc[r] \in {"erase", "left", "deleted"})
  BY DEF KeptInv, Deletes
<1>3. pc[r] \in {"load", "read"}
  BY <1>1, <1>2 DEF Fits, PutFits, EraseFits, CombineFits, Labels, Calls
<1>4. /\ ~Put(r) /\ ~Erase(r) /\ ~LoseCall(r) /\ ~Combine(r) /\ ~Post(r)
  BY <1>3 DEF Put, Erase, LoseCall, Calls, Combine, NextGroup, FetchBlock, FetchPiece, Commit,
      Post, PostArrive, TakePartial, Concatenate, SaveTotal, PostNoBody, PostBody
<1>5. ~Patch(r)
  BY <1>3 DEF Patch, Arrive, LoadPatch, Declare, ReadChunk, WritePart, SaveOffset, Reread, PreFinish,
         Finalize, Done
<1>6. CASE Fail(r) \/ GetRead(r)
  <2>1. End(r) /\ objs' = objs /\ told' = told /\ life' = life
    BY <1>6 DEF Fail, GetRead, outside
  <2> QED BY <2>1, EndMine, BlankFits
<1>7. CASE LoadGet(r)
  <2> DEFINE i == [j EXCEPT !.info = Info]
  <2>1. Set(r, i) /\ Goto(r, "read") /\ i.op = j.op /\ objs' = objs /\ told' = told /\ life' = life
    BY <1>1, <1>7 DEF LoadGet, Jobs, outside
  <2> HIDE DEF i
  <2> QED BY <2>1, StepMine
<1>8. CASE Delete(r)
  <2>1. pc'[r] = "erase" /\ objs' = objs /\ told' = told /\ life' = "doomed"
    BY <1>8 DEF Delete, Goto, TypeInv, Placed
  <2>2. job'[r].op = "delete"
    BY <1>8, <2>1, OtherGathers DEF Others
  <2> QED BY <2>1, <2>2
<1>9. CASE Others(r)
  BY <1>3, <1>6, <1>7, <1>8, <1>9 DEF Others, Arrive, Lock, HeadRequest, DeleteParts,
                                      DeletePartsUnlisted, Deleted
<1> QED BY <1>4, <1>5, <1>6, <1>9 DEF Acts

(* A HEAD, and a request that arrives or has the lock.                     *)
LEMMA WaiterKeeps ==
  ASSUME TypeInv, KeptInv, NEW r \in Reqs, Acts(r), ~Active(r), life \in {"made", "known"}
  PROVE  /\ objs' = objs /\ life' = life
         /\ job'[r].op \notin {"post", "patch"} \/ Keeps(pc'[r], job'[r], objs)
         /\ IF life = "known" THEN Told(objs, told') ELSE told' = told
<1>1. /\ objs' = objs /\ life' = life
      /\ \/ pc'[r] \in {"idle", "lock", "load"} /\ job'[r].op \in {"none", job[r].op}
         \/ pc[r] = "idle" /\ pc'[r] = "lock" /\ job'[r].op \in {"patch", "get", "delete"}
  BY Waiting
<1>2. Keeps(pc'[r], job'[r], objs)
  BY <1>1, KeepsRest
<1>3. told' = told \/ HeadRequest(r)
  <2>1. pc[r] \in {"idle", "lock"}
    BY DEF Active
  <2>2. ~Reread(r) /\ ~Done(r)
    BY <2>1 DEF Reread, Done
  <2> QED BY <2>2 DEF Acts, Put, Erase, LoseCall, Post, Patch, Combine, Others, Fail, PostArrive,
       TakePartial, Concatenate, SaveTotal, PostNoBody, PostBody, Arrive, LoadPatch, Declare,
       ReadChunk, WritePart, SaveOffset, PreFinish, Finalize, NextGroup, FetchBlock,
       FetchPiece, Commit, Lock, LoadGet, GetRead, Delete, DeleteParts,
       DeletePartsUnlisted, Deleted, outside
<1>4. HeadRequest(r) => life = "known" /\ Found /\ Tell(Info.offset)
  BY DEF HeadRequest
<1>5. ASSUME life = "known", told' # told PROVE Told(objs, told')
  <2> DEFINE i == Info
             n == i.offset
  <2>1. /\ i = objs["info"] /\ i # Absent /\ n \in Nat /\ told \in Nat /\ Told(objs, told)
        /\ told' = IF told < n THEN n ELSE told
    BY <1>3, <1>4, <1>5, InfoFacts, KeptAt DEF Tell, Found, Info, TypeInv, Counters
  <2>2. told' \in Nat
    BY <2>1
  <2>3. ~i.final => Held(objs, n, Own) /\ (~IsComplete(i) => InParts(objs, n))
    BY <2>1 DEF Told
  <2> HIDE DEF i, n
  <2> QED BY <2>1, <2>2, <2>3, TellKeeps DEF n
<1> QED BY <1>1, <1>2, <1>3, <1>4, <1>5, KeptAt

(* A step of another request.                                              *)
LEMMA OthersKeep ==
  ASSUME TypeInv, KeptInv, NEW r \in Reqs, Acts(r), NEW q \in Reqs, q # r
  PROVE  /\ Brings(pc'[q], job'[q])
         /\ Deletes(pc'[q], job'[q]) => life' \in {"doomed", "gone"}
         /\ life \in {"made", "known"} /\ job'[q].op \in {"post", "patch"}
              => Keeps(pc'[q], job'[q], objs')
<1>1. pc'[q] = pc[q] /\ job'[q] = job[q] /\ (pc[q] \in {"idle", "lock"} \/ objs' = objs)
  BY Bystander
<1>2. Brings(pc[q], job[q])
  BY DEF KeptInv
<1>3. Deletes(pc[q], job[q]) => life \in {"doomed", "gone"}
  BY DEF KeptInv
<1>4. life \in {"made", "known"} /\ job[q].op \in {"post", "patch"} => Keeps(pc[q], job[q], objs)
  BY DEF KeptInv
<1>5. pc[q] \in {"idle", "lock"} => Keeps(pc[q], job[q], objs')
  BY KeepsRest
<1> QED BY <1>1, <1>2, <1>3, <1>4, <1>5, LifeFacts

LEMMA KeptStep ==
  ASSUME TypeInv, GatherInv, SteadyInv, KeptInv, 0 \notin ChunkLens, [Next]_vars
  PROVE  KeptInv'
<1>1. CASE UNCHANGED vars
  BY <1>1 DEF KeptInv, vars
<1>2. ASSUME NEW r \in Reqs, Acts(r) PROVE KeptInv'
  <2>1. \A q \in Reqs : Brings(pc'[q], job'[q])
    <3>1. Brings(pc[r], job[r])
      BY DEF KeptInv
    <3>2. Brings(pc'[r], job'[r])
      BY <1>2, <3>1, BringsStep
    <3> QED BY <1>2, <3>2, OthersKeep
  <2>2. \A q \in Reqs : Deletes(pc'[q], job'[q]) => life' \in {"doomed", "gone"}
    <3>1. Deletes(pc[r], job[r]) => life \in {"doomed", "gone"}
      BY DEF KeptInv
    <3>2. Deletes(pc'[r], job'[r]) => life' \in {"doomed", "gone"}
      BY <1>2, <3>1, LeavesStep
    <3> QED BY <1>2, <3>2, OthersKeep
  <2>3. life' # "new"
    BY <1>2, LifeFacts
  <2>4. /\ life' = "made" => told' = 0
        /\ life' = "known" => Told(objs', told')
        /\ life' \in {"made", "known"} => \A q \in Reqs : job'[q].op \in {"post", "patch"} =>
             Keeps(pc'[q], job'[q], objs')
    <3>1. CASE life = "new"
      <4>1. PICK size \in Sizes, kind \in Kinds : PostArrive(r, size, kind)
        <5>1. ~Active(r)
          BY <3>1 DEF TypeInv, Order, Active
        <5> QED BY <1>2, <3>1, <5>1, Waiting
      <4>2. /\ life' = "made" /\ pc'[r] = "put" /\ objs' = objs /\ told' = told
            /\ job'[r].value = [size |-> size, offset |-> 0, final |-> kind = "final"]
            /\ job'[r].then = (IF kind = "final" THEN "concat" ELSE "body")
            /\ \A q \in Reqs : q # r => pc'[q] = "idle" /\ job'[q] = job[q]
        BY <4>1, PostArrives
      <4>3. Empty(objs) /\ told = 0
        BY <3>1 DEF KeptInv
      <4> DEFINE k == job'[r]
      <4>4. k.value.offset = 0 /\ k.then \in {"concat", "body"}
        BY <4>2
      <4> HIDE DEF k
      <4>5. Keeps("put", k, objs)
        BY <4>3, <4>4 DEF Keeps, PutsFor, CombinesFor, Empty
      <4>6. \A q \in Reqs : q # r => Keeps(pc'[q], job'[q], objs)
        BY <4>2, KeepsRest
      <4> QED BY <4>2, <4>3, <4>5, <4>6 DEF k
    <3>2. CASE life \in {"made", "known"}
      <4>1. \A q \in Reqs : q # r /\ job'[q].op \in {"post", "patch"} => Keeps(pc'[q], job'[q], objs')
        BY <1>2, <3>2, OthersKeep
      <4>2. life = "made" => told = 0
        BY DEF KeptInv
      <4>3. CASE Active(r) /\ job[r].op \in {"post", "patch"}
        BY <1>2, <3>2, <4>1, <4>2, <4>3, WriterKeeps
      <4>4. CASE Active(r) /\ job[r].op \notin {"post", "patch"}
        <5>1. job[r].op \in {"get", "delete"} /\ life = "known"
          <6>1. job[r] \in Jobs /\ job[r].op # "none"
            BY <4>4, OpFacts DEF Active
          <6>2. job[r].op \in {"get", "delete"}
            BY <4>4, <6>1 DEF Jobs
          <6>3. life # "made"
            BY <6>2 DEF TypeInv, Order
          <6> QED BY <3>2, <6>2, <6>3
        <5>2. /\ objs' = objs /\ told' = told /\ life' \in {"known", "doomed"}
              /\ job'[r].op \in {"none", "get", "delete"}
          BY <1>2, <4>4, <5>1, ReaderKeeps
        <5>3. Told(objs, told)
          BY <5>1 DEF KeptInv
        <5> QED BY <4>1, <5>2, <5>3
      <4>5. CASE ~Active(r)
        <5>1. /\ objs' = objs /\ life' = life
              /\ job'[r].op \notin {"post", "patch"} \/ Keeps(pc'[r], job'[r], objs)
              /\ IF life = "known" THEN Told(objs, told') ELSE told' = told
          BY <1>2, <3>2, <4>5, WaiterKeeps
        <5> QED BY <3>2, <4>1, <4>2, <5>1
      <4> QED BY <4>3, <4>4, <4>5
    <3>3. CASE life \in {"doomed", "gone"}
      <4>1. life' \in {"doomed", "gone"}
        BY <1>2, <3>3, LifeFacts
      <4> QED BY <4>1
    <3> QED BY <3>1, <3>2, <3>3 DEF TypeInv, Counters
  <2> QED BY <2>1, <2>2, <2>3, <2>4 DEF KeptInv
<1> QED BY <1>1, <1>2 DEF Next, Acts

LEMMA KeptInit == Init => KeptInv
<1> SUFFICES ASSUME Init PROVE KeptInv
  OBVIOUS
<1>1. Empty(objs)
  BY InitObjs, OwnFacts, KeyFacts, SourceFacts DEF Empty
<1>2. life = "new" /\ told = 0 /\ \A r \in Reqs : pc[r] = "idle" /\ job[r].op = "none"
  BY BlankFits DEF Init
<1>3. \A r \in Reqs : Brings(pc[r], job[r])
  BY <1>2 DEF Brings, Writing, PutsFor
<1>4. \A r \in Reqs : ~Deletes(pc[r], job[r])
  BY <1>2 DEF Deletes
<1> QED BY <1>1, <1>2, <1>3, <1>4 DEF KeptInv

LEMMA KeptInvariance ==
  ASSUME 0 \notin ChunkLens
  PROVE  Spec => [](TypeInv /\ GatherInv /\ SteadyInv /\ KeptInv)
<1>1. Init => TypeInv /\ GatherInv /\ SteadyInv /\ KeptInv
  BY TypeInit, GatherInit, SteadyInit, KeptInit
<1>2. (TypeInv /\ GatherInv /\ SteadyInv /\ KeptInv) /\ [Next]_vars
        => (TypeInv /\ GatherInv /\ SteadyInv /\ KeptInv)'
  BY TypeStep, GatherStep, SteadyStep, KeptStep
<1> QED BY <1>1, <1>2, PTL DEF Spec

(* What a client was told of is stored, between any two calls of a         *)
(* finalize, when one of them fails or its answer is lost, and after       *)
(* retries, as long as no PATCH or POST has an empty body.                 *)
THEOREM ToldStored == ASSUME 0 \notin ChunkLens PROVE Spec => []ToldBytesStored
<1>1. TypeInv /\ KeptInv => ToldBytesStored
  <2> SUFFICES ASSUME TypeInv, KeptInv, life = "known", ~Info.final, NEW b \in 1..told
               PROVE  Stored(b, Own)
    BY DEF ToldBytesStored
  <2>1. told <= Info.offset /\ Held(objs, Info.offset, Own) /\ Info.offset \in Nat /\ told \in Nat
    BY InfoFacts DEF KeptInv, Told, Info, Found, TypeInv, Counters
  <2>2. b \in 1..Info.offset
    BY <2>1
  <2> QED BY <2>1, <2>2 DEF Held, Holds, Stored
<1> QED BY <1>1, KeptInvariance, PTL

-----------------------------------------------------------------------------
(* Without a fault the parts are the beginning of the file, byte by byte,  *)
(* and the data object is all of it.                                       *)

Ordered(o, n) ==
  /\ Vacant(o, 0)
  /\ \E m \in 0..Len(PartNames) : PartsTo(o, m) /\ Content(o, SubSeq(PartNames, 1, m)) = Whole(n)

(* The objects q have the first n bytes of the file, in this order.        *)
InLine(q, o, n) ==
  q \in Seq(Blobs) /\ Present(o, q) /\ Content(o, q) = Whole(n) /\ IsInjective(q)

(* What a round made before the group it is at.                            *)
Earlier(j) == SubSeq(j.made, 1, Len(j.made) - 1)

(* What is still to be combined, or what it has been combined to.          *)
Queued(l, j, o, n, c) ==
  /\ l = "group" => InLine(j.made \o j.level, o, n) /\ (c = "s3" => j.made = <<>>)
  /\ l # "group" => (c = "s3" => j.dest = "data")
  /\ l \in {"fetch", "commit"} =>
       IF j.dest = "data" THEN InLine(j.src, o, n)
       ELSE InLine(Earlier(j) \o (j.src \o j.level), o, n)
  /\ l = "erase" /\ j.dest # "data" =>
       InLine(j.made \o j.level, o, n) /\ ToSet(j.todo) \intersect ToSet(j.made \o j.level) = {}

Saving(l, j) == l = "save" \/ PutsFor(l, j, "reread")

Exact(l, j, o, c) ==
  LET i == o["info"]
  IN /\ j.op = "delete" /\ (l \in {"left", "deleted"} \/ (l = "erase" /\ j.todo \notin {<<"data", "info">>, <<"info">>}))
          => i = Absent
     /\ j.op \in {"post", "patch"} /\ i # Absent /\ ~i.final =>
          /\ l \in {"body", "reread", "finish", "parts"} => Ordered(o, i.offset)
          /\ PutsFor(l, j, "save") => NextPart(o, j.key)
          /\ Saving(l, j) => Ordered(o, j.at + j.n)
          /\ PutsFor(l, j, "done") => i.offset = 0 /\ j.value = <<>>
          /\ CombinesFor(l, j, "done") => Queued(l, j, o, i.offset, c) /\ Clear(l, j, o)

(* Between requests; while an offset is saved, the parts are ahead of it.  *)
Sound(o, saving) ==
  LET i == o["info"]
  IN i # Absent /\ ~i.final =>
       /\ o["data"] # Absent => IsComplete(i) /\ o["data"] = Whole(i.size)
       /\ ~IsComplete(i) /\ ~saving => Ordered(o, i.offset)

ExactInv ==
  faults = 0 =>
    /\ Sound(objs, \E r \in Reqs : Saving(pc[r], job[r]))
    /\ \A r \in Reqs : Exact(pc[r], job[r], objs, cloud)

-----------------------------------------------------------------------------
(* Lists of objects.                                                       *)

LEMMA ContentConcat ==
  ASSUME NEW o, Typed(o), NEW a \in Seq(Blobs), NEW b \in Seq(Blobs)
  PROVE  /\ Present(o, a \o b) <=> Present(o, a) /\ Present(o, b)
         /\ Present(o, a) /\ Present(o, b) => Content(o, a \o b) = Content(o, a) \o Content(o, b)
<1> DEFINE q == a \o b
           s == [i \in DOMAIN a |-> o[a[i]]]
           t == [i \in DOMAIN b |-> o[b[i]]]
           u == [i \in DOMAIN q |-> o[q[i]]]
           m == Len(a)
           n == Len(b)
<1>1. /\ m \in Nat /\ n \in Nat /\ q \in Seq(Blobs) /\ Len(q) = m + n
      /\ \A i \in 1..m : q[i] = a[i]
      /\ \A i \in 1..n : q[m + i] = b[i]
  BY ConcatAt
<1>2. DOMAIN a = 1..m /\ DOMAIN b = 1..n /\ DOMAIN q = 1..(m + n)
  BY <1>1, LenProperties
<1>3. Present(o, q) <=> Present(o, a) /\ Present(o, b)
  <2>1. ToSet(q) = ToSet(a) \union ToSet(b)
    BY ConcatFacts
  <2>2. \A keys : Present(o, keys) <=> \A x \in ToSet(keys) : o[x] # Absent
    BY DEF Present, ToSet
  <2> HIDE DEF q
  <2> QED BY <2>1, <2>2
<1>4. ASSUME Present(o, a), Present(o, b) PROVE Content(o, q) = Content(o, a) \o Content(o, b)
  <2>1. s \in Seq(Bytes) /\ t \in Seq(Bytes) /\ u \in Seq(Bytes)
    BY <1>1, <1>3, <1>4, ContentType
  <2>2. /\ Len(s) = m /\ Len(t) = n /\ Len(u) = m + n
    BY <1>1, <1>2
  <2>3. \A i \in 1..m : u[i] = s[i]
    <3>1. \A i \in 1..m : i \in 1..(m + n)
      BY <1>1
    <3> QED BY <1>1, <1>2, <3>1
  <2>4. \A i \in 1..n : u[m + i] = t[i]
    <3>1. \A i \in 1..n : m + i \in 1..(m + n)
      BY <1>1
    <3> QED BY <1>1, <1>2, <3>1
  <2> HIDE DEF s, t, u, q, Bytes, m, n
  <2>5. u = s \o t
    <3>1. /\ s \o t \in Seq(Bytes) /\ Len(s \o t) = m + n
          /\ \A i \in 1..m : (s \o t)[i] = s[i]
          /\ \A i \in 1..n : (s \o t)[m + i] = t[i]
      BY <2>1, <2>2, ConcatAt, SMTT(30)
    <3> DEFINE v == s \o t
    <3>2. \A i \in 1..m : u[i] = v[i]
      BY <2>3, <3>1
    <3>3. \A i \in 1..n : u[m + i] = v[m + i]
      BY <2>4, <3>1
    <3> HIDE DEF v
    <3>4. \A i \in 1..(m + n) : u[i] = v[i]
      <4> TAKE i \in 1..(m + n)
      <4>1. CASE i <= m
        BY <1>1, <3>2, <4>1
      <4>2. CASE ~(i <= m)
        <5> DEFINE k == i - m
        <5>1. k \in 1..n /\ i = m + k
          BY <1>1, <4>2
        <5> HIDE DEF k
        <5> QED BY <3>3, <5>1
      <4> QED BY <4>1, <4>2
    <3> QED BY <2>1, <2>2, <3>1, <3>4, SeqEqual DEF v
  <2>6. FlattenSeq(s \o t) = FlattenSeq(s) \o FlattenSeq(t)
    BY <2>1, FlattenConcat DEF Bytes
  <2> QED BY <2>5, <2>6 DEF Content, s, t, u
<1> QED BY <1>3, <1>4 DEF q

(* The objects of a line, and only they, have its bytes.                   *)
LEMMA LineSame ==
  ASSUME NEW q, NEW o, NEW p, NEW n, InLine(q, o, n), \A x \in ToSet(q) : p[x] = o[x]
  PROVE  InLine(q, p, n)
<1>1. \A i \in DOMAIN q : p[q[i]] = o[q[i]]
  BY DEF ToSet
<1>2. Content(p, q) = Content(o, q) /\ Present(p, q) = Present(o, q)
  BY <1>1, ContentSame
<1> QED BY <1>2 DEF InLine

LEMMA LineHas ==
  ASSUME NEW q, NEW o, NEW n, InLine(q, o, n)
  PROVE  \A x \in ToSet(q) : x \in Blobs /\ o[x] # Absent
<1>1. \A i \in DOMAIN q : q[i] \in Blobs /\ o[q[i]] # Absent
  BY ElementOfSeq, LenProperties DEF InLine, Present
<1> QED BY <1>1 DEF ToSet

(* A group of a line has been combined into an object that was not there.  *)
LEMMA LineMerged ==
  ASSUME NEW o, NEW p, Typed(o), Typed(p), NEW n, NEW d \in Blobs,
         NEW a \in Seq(Blobs), NEW s \in Seq(Blobs), NEW l \in Seq(Blobs),
         InLine(a \o (s \o l), o, n), o[d] = Absent, p[d] = Content(o, s), p[d] # Absent,
         \A x \in Blobs : x # d /\ x \notin ToSet(s) => p[x] = o[x]
  PROVE  /\ InLine(Append(a, d) \o l, p, n)
         /\ ToSet(s) \intersect ToSet(Append(a, d) \o l) = {}
<1> DEFINE b == Append(a, d)
           c == <<d>>
<1>1. s \o l \in Seq(Blobs) /\ ToSet(s \o l) = ToSet(s) \union ToSet(l)
  BY ConcatFacts
<1>2. /\ IsInjective(a) /\ IsInjective(s) /\ IsInjective(l)
      /\ ToSet(a) \intersect ToSet(s) = {} /\ ToSet(a) \intersect ToSet(l) = {}
      /\ ToSet(s) \intersect ToSet(l) = {}
  <2>1. IsInjective(a) /\ IsInjective(s \o l) /\ ToSet(a) \intersect ToSet(s \o l) = {}
    BY <1>1, ConcatFacts DEF InLine
  <2>2. IsInjective(s) /\ IsInjective(l) /\ ToSet(s) \intersect ToSet(l) = {}
    BY <2>1, ConcatFacts
  <2> QED BY <1>1, <2>1, <2>2
<1>3. \A x \in ToSet(a) \union ToSet(s) \union ToSet(l) : x \in Blobs /\ o[x] # Absent
  <2> DEFINE q == a \o (s \o l)
  <2>1. ToSet(q) = ToSet(a) \union ToSet(s \o l) /\ InLine(q, o, n)
    BY <1>1, ConcatFacts, Zenon
  <2> HIDE DEF q
  <2>2. \A x \in ToSet(q) : x \in Blobs /\ o[x] # Absent
    BY <2>1, LineHas
  <2> QED BY <1>1, <2>1, <2>2
<1>4. d \notin ToSet(a) /\ d \notin ToSet(s) /\ d \notin ToSet(l)
  BY <1>3
<1>5. /\ Present(o, a) /\ Present(o, s) /\ Present(o, l)
      /\ Content(o, a) \o (Content(o, s) \o Content(o, l)) = Whole(n)
  <2>1. Present(o, a) /\ Present(o, s \o l) /\ Content(o, a) \o Content(o, s \o l) = Whole(n)
    BY <1>1, ContentConcat DEF InLine
  <2>2. Present(o, s) /\ Present(o, l) /\ Content(o, s \o l) = Content(o, s) \o Content(o, l)
    BY <2>1, ContentConcat
  <2> QED BY <2>1, <2>2
<1>6. \A x \in ToSet(a) \union ToSet(l) : p[x] = o[x]
  BY <1>2, <1>3, <1>4
<1>7. /\ Present(p, a) /\ Content(p, a) = Content(o, a)
      /\ Present(p, l) /\ Content(p, l) = Content(o, l)
  <2>1. \A i \in DOMAIN a : p[a[i]] = o[a[i]]
    BY <1>6 DEF ToSet
  <2>2. \A i \in DOMAIN l : p[l[i]] = o[l[i]]
    BY <1>6 DEF ToSet
  <2>3. Content(p, a) = Content(o, a) /\ Present(p, a) = Present(o, a)
    BY <2>1, ContentSame
  <2>4. Content(p, l) = Content(o, l) /\ Present(p, l) = Present(o, l)
    BY <2>2, ContentSame
  <2> QED BY <1>5, <2>3, <2>4
<1>8. b \in Seq(Blobs) /\ b = a \o c /\ c \in Seq(Blobs) /\ ToSet(c) = {d} /\ IsInjective(c)
  <2>1. b \in Seq(Blobs) /\ b = a \o c
    BY AppendProperties, AppendIsConcat
  <2>2. c \in Seq(Blobs) /\ DOMAIN c = {1} /\ c[1] = d
    OBVIOUS
  <2> HIDE DEF b, c
  <2>3. ToSet(c) = {d} /\ IsInjective(c)
    BY <2>2 DEF ToSet, IsInjective
  <2> QED BY <2>1, <2>2, <2>3
<1>9. Present(p, b) /\ Content(p, b) = Content(o, a) \o Content(o, s)
  BY <1>7, ContentAppend
<1> HIDE DEF b, c
<1>10. /\ Present(p, b \o l) /\ Content(p, b \o l) = (Content(o, a) \o Content(o, s)) \o Content(o, l)
  <2>1. b \in Seq(Blobs)
    BY <1>8
  <2>2. Present(p, b) /\ Present(p, l)
    BY <1>7, <1>9
  <2>3. Present(p, b \o l) /\ Content(p, b \o l) = Content(p, b) \o Content(p, l)
    BY <2>1, <2>2, ContentConcat
  <2> QED BY <1>7, <1>9, <2>3
<1>11. Content(p, b \o l) = Whole(n)
  <2>1. Content(o, a) \in Bytes /\ Content(o, s) \in Bytes /\ Content(o, l) \in Bytes
    BY <1>5, ContentType
  <2> DEFINE x == Content(o, a)
             y == Content(o, s)
             z == Content(o, l)
  <2>2. x \in Bytes /\ y \in Bytes /\ z \in Bytes
    BY <2>1
  <2> HIDE DEF x, y, z
  <2>3. (x \o y) \o z = x \o (y \o z)
    BY <2>2, ConcatAssociative, SMTT(30) DEF Bytes
  <2> QED BY <1>5, <1>10, <2>3 DEF x, y, z
<1>12. /\ b \o l \in Seq(Blobs) /\ ToSet(b \o l) = ToSet(a) \union {d} \union ToSet(l)
       /\ IsInjective(b \o l)
  <2>1. ToSet(b) = ToSet(a) \union {d} /\ IsInjective(b)
    <3>1. /\ ToSet(a \o c) = ToSet(a) \union ToSet(c)
          /\ IsInjective(a \o c) <=>
               IsInjective(a) /\ IsInjective(c) /\ ToSet(a) \intersect ToSet(c) = {}
      BY <1>8, ConcatFacts
    <3> QED BY <1>2, <1>4, <1>8, <3>1
  <2>2. /\ b \o l \in Seq(Blobs) /\ ToSet(b \o l) = ToSet(b) \union ToSet(l)
        /\ IsInjective(b \o l) <=>
             IsInjective(b) /\ IsInjective(l) /\ ToSet(b) \intersect ToSet(l) = {}
    BY <1>8, ConcatFacts
  <2>3. ToSet(b) \intersect ToSet(l) = {}
    BY <1>2, <1>4, <2>1
  <2> QED BY <1>2, <2>1, <2>2, <2>3
<1>13. ToSet(s) \intersect ToSet(b \o l) = {}
  BY <1>2, <1>4, <1>12
<1> QED BY <1>10, <1>11, <1>12, <1>13 DEF InLine, b

(* What the next group of a line leaves of it.                             *)
LEMMA LineSplit ==
  ASSUME NEW o, NEW n, NEW m \in Seq(Blobs), NEW q \in Seq(Blobs), NEW k \in 1..Len(q),
         InLine(m \o q, o, n)
  PROVE  InLine(m \o (SubSeq(q, 1, k) \o SubSeq(q, k + 1, Len(q))), o, n)
<1>1. Len(q) \in Nat /\ k \in 0..Len(q) /\ Len(q) \in k..Len(q)
  BY LenProperties
<1>2. SubSeq(q, 1, k) \o SubSeq(q, k + 1, Len(q)) = q
  BY <1>1, SplitFacts
<1> QED BY <1>2

LEMMA EmptyLine ==
  ASSUME NEW q \in Seq(Blobs)
  PROVE  <<>> \o q = q /\ q \o <<>> = q
BY ConcatEmptySeq

-----------------------------------------------------------------------------
(* The parts of a file.                                                    *)

LEMMA FirstParts ==
  ASSUME NEW o, NEW m \in 0..Len(PartNames), PartsTo(o, m)
  PROVE  LET q == SubSeq(PartNames, 1, m)
         IN /\ q \in Seq(Blobs) /\ Len(q) = m /\ \A i \in 1..m : q[i] = PartNames[i]
            /\ Present(o, q) /\ IsInjective(q) /\ (m = 0 => q = <<>>)
<1> DEFINE q == SubSeq(PartNames, 1, m)
<1>1. PartNames \in Seq(Parts) /\ Len(PartNames) \in Nat
  BY PartFacts
<1>2. q \in Seq(Parts) /\ Len(q) = m /\ (\A i \in 1..m : q[i] = PartNames[i]) /\ DOMAIN q = 1..m
  BY <1>1
<1> HIDE DEF q
<1>3. q \in Seq(Blobs)
  BY <1>2, KeyFacts, SeqMonotonic
<1>4. \A i \in 1..m : i \in 1..Len(PartNames) /\ i <= m
  BY <1>1
<1>5. Present(o, q)
  BY <1>2, <1>4 DEF Present, PartsTo
<1>6. IsInjective(q)
  BY <1>2, <1>4, PartFacts DEF IsInjective
<1>7. m = 0 => q = <<>>
  BY <1>2, EmptySeq, LenProperties
<1> QED BY <1>2, <1>3, <1>5, <1>6, <1>7 DEF q

LEMMA SameParts ==
  ASSUME NEW o, NEW m \in 0..Len(PartNames), NEW k \in 0..Len(PartNames), PartsTo(o, m), PartsTo(o, k)
  PROVE  m = k
<1>1. Len(PartNames) \in Nat
  BY PartFacts
<1>2. CASE m < k
  <2>1. m + 1 \in 1..Len(PartNames) /\ ~(m + 1 <= m) /\ m + 1 <= k
    BY <1>1, <1>2
  <2> QED BY <2>1 DEF PartsTo
<1>3. CASE k < m
  <2>1. k + 1 \in 1..Len(PartNames) /\ ~(k + 1 <= k) /\ k + 1 <= m
    BY <1>1, <1>3
  <2> QED BY <2>1 DEF PartsTo
<1> QED BY <1>1, <1>2, <1>3

LEMMA WholeChunk ==
  ASSUME NEW at \in Nat, NEW n \in Nat
  PROVE  Whole(at) \o Chunk(at, n) = Whole(at + n)
<1> DEFINE a == Whole(at)
           b == Chunk(at, n)
           w == Whole(at + n)
<1>1. /\ a \in Bytes /\ Len(a) = at /\ \A i \in 1..at : a[i] = i
      /\ b \in Bytes /\ Len(b) = n /\ \A i \in 1..n : b[i] = at + i
  BY ChunkFacts
<1>2. at + n \in Nat
  OBVIOUS
<1>3. w \in Bytes /\ Len(w) = at + n /\ \A i \in 1..(at + n) : w[i] = i
  BY <1>2, ChunkFacts
<1> HIDE DEF a, b, w
<1>4. /\ a \o b \in Bytes /\ Len(a \o b) = at + n
      /\ \A i \in 1..at : (a \o b)[i] = a[i]
      /\ \A i \in 1..n : (a \o b)[at + i] = b[i]
  BY <1>1, ConcatAt DEF Bytes
<1>5. \A i \in 1..(at + n) : i \in 1..at \/ (i - at \in 1..n /\ i = at + (i - at))
  OBVIOUS
<1>6. \A i \in 1..(at + n) : (a \o b)[i] = w[i]
  <2> TAKE i \in 1..(at + n)
  <2>1. CASE i \in 1..at
    BY <1>1, <1>3, <1>4, <2>1
  <2>2. CASE i \notin 1..at
    <3> DEFINE k == i - at
    <3>1. k \in 1..n /\ i = at + k
      BY <1>5, <2>2
    <3> HIDE DEF k
    <3>2. (a \o b)[at + k] = b[k] /\ b[k] = at + k
      BY <1>1, <1>4, <3>1
    <3> QED BY <1>3, <3>1, <3>2
  <2> QED BY <2>1, <2>2
<1>7. a \o b = w
  BY <1>3, <1>4, <1>6, SeqEqual DEF Bytes
<1> QED BY <1>7 DEF a, b, w

LEMMA EmptyOrdered == ASSUME NEW o, Empty(o) PROVE Ordered(o, 0)
<1>1. \A key \in Own : o[key] = Absent
  BY DEF Empty
<1>2. PartsTo(o, 0) /\ 0 \in 0..Len(PartNames)
  <2>1. \A i \in 1..Len(PartNames) : PartNames[i] \in Own /\ ~(i <= 0)
    BY PartFacts, OwnFacts
  <2> QED BY <1>1, <2>1, PartFacts DEF PartsTo
<1>3. Vacant(o, 0)
  BY <1>1, OwnFacts DEF Vacant
<1>4. Content(o, SubSeq(PartNames, 1, 0)) = Whole(0)
  <2>1. SubSeq(PartNames, 1, 0) = <<>>
    BY <1>2, FirstParts
  <2>2. Whole(0) = <<>>
    BY DEF Whole
  <2> QED BY <2>1, <2>2, ContentEmpty
<1> QED BY <1>2, <1>3, <1>4 DEF Ordered

LEMMA OrderedSame ==
  ASSUME NEW o, NEW p, NEW n, \A key \in Own : p[key] = o[key], Ordered(o, n)
  PROVE  Ordered(p, n)
<1>1. PICK m \in 0..Len(PartNames) : PartsTo(o, m) /\ Content(o, SubSeq(PartNames, 1, m)) = Whole(n)
  BY DEF Ordered
<1> DEFINE q == SubSeq(PartNames, 1, m)
<1>2. \A i \in 1..Len(PartNames) : PartNames[i] \in Own
  BY PartFacts, OwnFacts
<1>3. PartsTo(p, m)
  BY <1>1, <1>2 DEF PartsTo
<1>4. q \in Seq(Blobs) /\ Len(q) = m /\ \A i \in 1..m : q[i] = PartNames[i]
  BY <1>1, FirstParts
<1> HIDE DEF q
<1>5. DOMAIN q = 1..m /\ \A i \in 1..m : i \in 1..Len(PartNames)
  BY <1>4, PartFacts, LenProperties
<1>6. Content(p, q) = Content(o, q)
  BY <1>2, <1>4, <1>5, ContentSame
<1>7. Vacant(p, 0)
  BY OwnFacts DEF Ordered, Vacant
<1> QED BY <1>1, <1>3, <1>6, <1>7 DEF Ordered, q

(* The next part has the next bytes of the file.                           *)
LEMMA OrderedAdded ==
  ASSUME NEW o, NEW p, Typed(o), Typed(p), NEW at \in Nat, NEW n \in Nat, NEW key, Ordered(o, at),
         NextPart(o, key), p[key] = Chunk(at, n), \A q \in Blobs : q # key => p[q] = o[q]
  PROVE  Ordered(p, at + n)
<1>1. PICK m \in 0..Len(PartNames) : PartsTo(o, m) /\ Content(o, SubSeq(PartNames, 1, m)) = Whole(at)
  BY DEF Ordered
<1>2. m < Len(PartNames) /\ key = PartNames[m + 1]
  BY <1>1, SameParts DEF NextPart
<1>3. /\ m + 1 \in 1..Len(PartNames) /\ m + 1 \in 0..Len(PartNames) /\ ~(m + 1 <= m)
      /\ Len(PartNames) \in Nat /\ m \in Nat
  BY <1>2, PartFacts
<1>4. key \in Parts /\ key \in Blobs /\ o[key] = Absent /\ p[key] # Absent
  <2>1. p[key] # Absent
    <3>1. Chunk(at, n) \in Bytes
      BY ChunkFacts
    <3> QED BY <3>1, AbsentFacts
  <2>2. key \in Parts
    BY <1>2, <1>3, PartFacts
  <2>3. o[key] = Absent
    BY <1>1, <1>2, <1>3 DEF PartsTo
  <2> QED BY <2>1, <2>2, <2>3, KeyFacts
<1>5. PartsTo(p, m + 1)
  <2> SUFFICES ASSUME NEW i \in 1..Len(PartNames)
               PROVE  (p[PartNames[i]] # Absent) <=> i <= m + 1
    BY DEF PartsTo
  <2>1. CASE i = m + 1
    BY <1>2, <1>3, <1>4, <2>1
  <2>2. CASE i # m + 1
    <3>1. PartNames[i] # key /\ PartNames[i] \in Blobs
      BY <1>2, <1>3, <2>2, PartFacts, KeyFacts
    <3>2. (o[PartNames[i]] # Absent) <=> i <= m
      BY <1>1 DEF PartsTo
    <3>3. i <= m <=> i <= m + 1
      BY <1>3, <2>2
    <3> QED BY <3>1, <3>2, <3>3
  <2> QED BY <2>1, <2>2
<1> DEFINE q == SubSeq(PartNames, 1, m)
           w == SubSeq(PartNames, 1, m + 1)
<1>6. /\ q \in Seq(Blobs) /\ Len(q) = m /\ (\A i \in 1..m : q[i] = PartNames[i]) /\ Present(o, q)
  BY <1>1, FirstParts
<1>7. w \in Seq(Blobs) /\ Len(w) = m + 1 /\ \A i \in 1..(m + 1) : w[i] = PartNames[i]
  BY <1>3, <1>5, FirstParts
<1> HIDE DEF q, w
<1>8. w = Append(q, key)
  <2>1. /\ Append(q, key) \in Seq(Blobs) /\ Len(Append(q, key)) = m + 1
        /\ \A i \in 1..m : Append(q, key)[i] = q[i]
        /\ Append(q, key)[m + 1] = key
    BY <1>4, <1>6, AppendProperties
  <2>2. \A i \in 1..(m + 1) : i \in 1..m \/ i = m + 1
    BY <1>3
  <2>3. \A i \in 1..(m + 1) : Append(q, key)[i] = w[i]
    BY <1>2, <1>3, <1>6, <1>7, <2>1, <2>2
  <2> QED BY <1>7, <2>1, <2>3, SeqEqual
<1>9. Present(p, q) /\ Content(p, q) = Whole(at)
  <2>1. DOMAIN q = 1..m /\ \A i \in 1..m : i \in 1..Len(PartNames) /\ i # m + 1
    BY <1>3, <1>6, LenProperties
  <2>2. \A i \in 1..m : q[i] \in Blobs /\ q[i] # key
    BY <1>2, <1>3, <1>6, <2>1, PartFacts, KeyFacts
  <2>3. \A i \in DOMAIN q : p[q[i]] = o[q[i]]
    BY <2>1, <2>2
  <2>4. Content(p, q) = Content(o, q) /\ Present(p, q) = Present(o, q)
    BY <2>3, ContentSame
  <2> QED BY <1>1, <1>6, <2>4 DEF q
<1>10. Content(p, w) = Whole(at) \o Chunk(at, n)
  BY <1>4, <1>6, <1>8, <1>9, ContentAppend
<1>11. Vacant(p, 0)
  BY <1>4, PartApart DEF Ordered
<1> QED BY <1>3, <1>5, <1>10, <1>11, WholeChunk DEF Ordered, w

-----------------------------------------------------------------------------
(* Steps that leave the parts and the data object as they should be.       *)

Good(l, j, o, c) == Sound(o, Saving(l, j)) /\ Exact(l, j, o, c)

LEMMA ExactRest ==
  ASSUME NEW l, NEW j, NEW o, NEW c,
         l \in {"idle", "lock", "load", "declare", "chunk", "list", "concat", "total", "read", "done"}
  PROVE  Exact(l, j, o, c) /\ ~Saving(l, j)
BY DEF Exact, Saving, PutsFor, CombinesFor

(* Nothing is said of a final upload, nor of one that is not there.        *)
LEMMA GoodFinal ==
  ASSUME NEW l, NEW j, NEW o, NEW c, j.op # "delete", o["info"] # Absent => o["info"].final
  PROVE  Good(l, j, o, c)
BY DEF Good, Sound, Exact

LEMMA GoodGone ==
  ASSUME NEW l, NEW j, NEW o, NEW c, o["info"] = Absent
  PROVE  Good(l, j, o, c)
BY DEF Good, Sound, Exact

LEMMA SoundSame ==
  ASSUME NEW o, NEW s, NEW t, Sound(o, s), s => t
  PROVE  Sound(o, t)
BY DEF Sound

(* No data object beside the parts.                                        *)
LEMMA SoundOrdered ==
  ASSUME NEW o, NEW s, o["info"] # Absent => Ordered(o, o["info"].offset)
  PROVE  Sound(o, s)
BY DEF Sound, Ordered, Vacant

LEMMA GoodAt ==
  ASSUME TypeInv, ExactInv, faults = 0, NEW r \in Reqs, Active(r)
  PROVE  Good(pc[r], job[r], objs, cloud)
<1>1. \A q \in Reqs : q # r => ~Saving(pc[q], job[q])
  <2> TAKE q \in Reqs
  <2>1. q # r => pc[q] \in {"idle", "lock"}
    BY Solo DEF Active
  <2> QED BY <2>1, ExactRest
<1>2. (\E q \in Reqs : Saving(pc[q], job[q])) => Saving(pc[r], job[r])
  BY <1>1
<1>3. Sound(objs, \E q \in Reqs : Saving(pc[q], job[q])) /\ Exact(pc[r], job[r], objs, cloud)
  BY DEF ExactInv
<1> QED BY <1>2, <1>3, SoundSame DEF Good

LEMMA PutGood ==
  ASSUME TypeInv, SteadyInv, KeptInv, NEW r \in Reqs, Put(r), Good("put", job[r], objs, cloud)
  PROVE  Good(pc'[r], job'[r], objs', cloud)
<1> DEFINE j == job[r]
           then == j.then
           v == j.value
           i == Info
           ii == objs'["info"]
           at == j.at
           n == j.n
<1>1. /\ pc[r] = "put" /\ j \in Jobs /\ PutFits(j) /\ objs' = [objs EXCEPT ![j.key] = v]
      /\ at \in Nat /\ n \in Nat /\ pc'[r] = then /\ job'[r] = j
  BY OpFacts, PutObjs, GotoMine DEF Put, Fits, Jobs
<1>2. /\ Steady("put", j, i) /\ Brings("put", j) /\ i = objs["info"]
      /\ Sound(objs, Saving("put", j)) /\ Exact("put", j, objs, cloud)
  BY <1>1, SteadyAt, KeptAt DEF Info, Good
<1>3. DOMAIN objs = Keys /\ (i # Absent => i \in Infos)
  BY DEF TypeInv, ObjsOK, Info
<1>4. i # Absent => i.offset \in Nat /\ i.size \in Nat \union {NoLen}
  BY <1>3 DEF Infos
<1>5. Typed(objs) /\ Typed(objs')
  <2>1. ObjsOK'
    BY <1>1, PutObjs DEF Put
  <2> QED BY <2>1, TypedObjs DEF ObjsOK, Typed
<1>6. j.op \in {"post", "patch"} /\ j.op # "delete"
  BY <1>1 DEF PutFits
<1>7. then = "reread" <=> Saving("put", j)
  BY DEF Saving, PutsFor
<1>8. CASE then = "done"
  <2>1. j.key = "data" /\ "data" # "info"
    BY <1>1, <1>8, KeyFacts DEF PutFits
  <2>2. ii = i /\ objs'["data"] = v
    BY <1>1, <1>2, <1>3, <2>1, KeyFacts
  <2>3. i # Absent /\ IsComplete(i)
    BY <1>2, <1>8 DEF Steady, PutsFor
  <2>4. ~i.final => i.offset = 0 /\ v = <<>>
    BY <1>2, <1>6, <1>8, <2>3 DEF Exact, PutsFor
  <2>5. Whole(0) = <<>>
    BY DEF Whole
  <2> HIDE DEF i, ii, v
  <2>6. Sound(objs', FALSE)
    BY <2>2, <2>3, <2>4, <2>5 DEF Sound, IsComplete, ii
  <2>7. Exact("done", j, objs', cloud) /\ ~Saving("done", j)
    BY ExactRest
  <2>8. Sound(objs', Saving("done", j))
    BY <2>6, <2>7, SoundSame
  <2> QED BY <1>1, <1>8, <2>7, <2>8 DEF Good
<1>9. CASE then = "save"
  <2> DEFINE q == j.key
  <2>1. q \in Parts /\ v = Chunk(at, n) /\ i # Absent /\ Ready(i, j)
    BY <1>1, <1>2, <1>9 DEF PutFits, Steady, PutsFor
  <2>2. q # "info" /\ q # "data" /\ q \in Keys
    BY <2>1, KeyFacts
  <2>3. /\ ii = i /\ objs'[q] = Chunk(at, n) /\ objs'["data"] = objs["data"]
        /\ \A key \in Blobs : key # q => objs'[key] = objs[key]
    BY <1>1, <1>2, <1>3, <2>1, <2>2, KeyFacts
  <2>4. i.offset = at /\ ~IsComplete(i)
    <3>1. n > 0
      BY <1>2, <1>9 DEF Brings, Writing, PutsFor
    <3>2. i.offset = at /\ (i.size # NoLen => at + n <= i.size)
      BY <2>1 DEF Ready
    <3> HIDE DEF i, at, n
    <3> QED BY <1>1, <1>4, <2>1, <3>1, <3>2 DEF IsComplete
  <2>5. ~i.final => NextPart(objs, q)
    BY <1>2, <1>6, <1>9, <2>1 DEF Exact, PutsFor
  <2>6. ~i.final => Ordered(objs, at)
    BY <1>2, <1>7, <1>9, <2>1, <2>4 DEF Sound
  <2> HIDE DEF q, i, ii, j, at, n, v, then
  <2>7. ~i.final => Ordered(objs', at + n)
    <3> SUFFICES ASSUME ~i.final PROVE Ordered(objs', at + n)
      OBVIOUS
    <3>1. /\ Ordered(objs, at) /\ NextPart(objs, q) /\ Typed(objs) /\ Typed(objs')
          /\ at \in Nat /\ n \in Nat /\ objs'[q] = Chunk(at, n)
          /\ \A key \in Blobs : key # q => objs'[key] = objs[key]
      BY <1>1, <1>5, <2>3, <2>5, <2>6
    <3> QED BY <3>1, OrderedAdded
  <2>8. Sound(objs', TRUE)
    BY <1>2, <2>3 DEF Sound, ii
  <2>9. Saving("save", j)
    BY DEF Saving
  <2>10. Exact("save", j, objs', cloud)
    BY <1>6, <2>3, <2>7 DEF Exact, PutsFor, CombinesFor, ii, at, n
  <2> QED BY <1>1, <1>9, <2>8, <2>9, <2>10 DEF Good, then
<1>10. CASE then \in {"concat", "body", "chunk", "reread"}
  <2>1. j.key = "info" /\ v \in Infos
    BY <1>1, <1>10 DEF PutFits
  <2>2. ii = v /\ v # Absent /\ \A key \in Own : objs'[key] = objs[key]
    BY <1>1, <1>3, <2>1, KeyFacts, AbsentFacts, OwnFacts
  <2> HIDE DEF j, then, v, i, at, n
  <2>3. CASE v.final
    BY <1>1, <1>6, <2>2, <2>3, GoodFinal DEF ii
  <2>4. CASE ~v.final
    <3>1. then # "concat"
      BY <1>2, <2>4 DEF Steady, PutsFor, v, then
    <3>2. Ordered(objs, v.offset)
      <4>1. CASE then = "body"
        <5>1. v.final \/ i = Absent
          BY <1>2, <4>1 DEF Steady, PutsFor, v, then
        <5>2. life = "made" /\ j.op = "post"
          BY <1>1, <4>1 DEF PutFits, TypeInv, Order, j, then
        <5>3. Keeps("put", j, objs)
          BY <1>1, <5>2, KeptAt DEF j
        <5>4. v.offset = 0 /\ Empty(objs)
          BY <1>2, <2>4, <4>1, <5>1, <5>3 DEF Keeps, PutsFor, v, then
        <5> QED BY <5>4, EmptyOrdered
      <4>2. CASE then = "chunk"
        <5>1. i # Absent /\ i.size = NoLen /\ ~i.final /\ v.offset = i.offset
          BY <1>2, <4>2 DEF Steady, PutsFor, v, then
        <5>2. ~IsComplete(i) /\ ~Saving("put", j)
          BY <1>7, <4>2, <5>1 DEF IsComplete
        <5> QED BY <1>2, <5>1, <5>2 DEF Sound
      <4>3. CASE then = "reread"
        <5>1. i # Absent /\ Ready(i, j) /\ v = [i EXCEPT !.offset = at + n]
          BY <1>2, <4>3 DEF Steady, PutsFor, v, then, at, n
        <5>2. v.offset = at + n /\ v.final = i.final
          BY <1>3, <5>1 DEF Infos
        <5> QED BY <1>2, <1>6, <1>7, <2>4, <4>3, <5>1, <5>2 DEF Exact, at, n
      <4> QED BY <1>10, <3>1, <4>1, <4>2, <4>3
    <3>3. Ordered(objs', v.offset)
      BY <2>2, <3>2, OrderedSame
    <3>4. Sound(objs', Saving(then, j))
      BY <2>2, <3>3, SoundOrdered DEF ii
    <3>5. Exact(then, j, objs', cloud)
      BY <1>6, <1>10, <2>2, <3>1, <3>3 DEF Exact, Saving, PutsFor, CombinesFor, ii
    <3> QED BY <1>1, <3>4, <3>5 DEF Good, then, j
  <2> QED BY <2>3, <2>4
<1>11. then \in {"concat", "body", "chunk", "save", "reread", "done"}
  BY <1>1 DEF PutFits
<1> QED BY <1>8, <1>9, <1>10, <1>11

LEMMA PostGood ==
  ASSUME TypeInv, SteadyInv, NEW r \in Reqs, Active(r), Post(r), Good(pc[r], job[r], objs, cloud)
  PROVE  Good(pc'[r], job'[r], objs', cloud)
<1> DEFINE j == job[r]
           k == job'[r]
           i == Info
           l == pc[r]
<1>1. j \in Jobs /\ Fits(l, j) /\ Steady(l, j, i) /\ i = objs["info"] /\ Good(l, j, objs, cloud)
  BY OpFacts, SteadyAt DEF Info
<1>2. ~(\E size \in Sizes, kind \in Kinds : PostArrive(r, size, kind))
  BY DEF PostArrive, Active
<1>3. ASSUME NEW s \in given, TakePartial(r, s) PROVE Good(pc'[r], k, objs', cloud)
  <2>1. s # "info"
    BY KeyFacts DEF TypeInv, Counters
  <2>2. l \in {"concat", "group", "fetch", "commit"} /\ k = j /\ i.final /\ objs'["info"] = i
    BY <1>3, <2>1 DEF TakePartial, Info
  <2>3. k.op # "delete"
    BY <1>1, <2>2 DEF Fits, CombineFits
  <2> HIDE DEF k, i
  <2>4. objs'["info"].final
    BY <2>2
  <2> QED BY <2>3, <2>4, GoodFinal
<1>4. CASE Concatenate(r) \/ SaveTotal(r)
  <2>1. l \in {"concat", "total"} /\ objs'["info"] = i
    BY <1>4 DEF Concatenate, SaveTotal, Info
  <2>2. i.final /\ j.op = "post"
    BY <1>1, <2>1 DEF Steady, Fits
  <2>3. k.op = j.op
    <3>1. CASE Concatenate(r)
      <4> DEFINE g == [j EXCEPT !.level = SourceNames, !.back = "total"]
      <4>1. Set(r, g) /\ Goto(r, "group") /\ g.op = j.op
        BY <1>1, <3>1 DEF Concatenate, Jobs
      <4> HIDE DEF g
      <4> QED BY <4>1, StepMine
    <3>2. CASE SaveTotal(r)
      <4> DEFINE v == [size |-> FinalLen, offset |-> FinalLen, final |-> TRUE]
      <4>1. Write(r, "info", v, "body") /\ objs' = objs
        BY <3>2 DEF SaveTotal
      <4>2. v \in Infos \union Bytes
        BY FinalLenType DEF Infos
      <4> HIDE DEF v
      <4> QED BY <4>1, <4>2, WriteSteady, KeyFacts DEF Labels
    <3> QED BY <1>4, <3>1, <3>2
  <2> HIDE DEF k, i
  <2>4. objs'["info"].final /\ k.op # "delete"
    BY <2>1, <2>2, <2>3
  <2> QED BY <2>4, GoodFinal DEF k
<1>5. CASE PostNoBody(r)
  <2>1. l = "body" /\ pc'[r] = "reread" /\ k = j /\ objs' = objs
    BY <1>5, GotoMine DEF PostNoBody
  <2>2. ~Saving("body", j) /\ ~Saving("reread", j)
    BY DEF Saving, PutsFor
  <2>3. j.op = "post"
    BY <1>1, <2>1 DEF Fits
  <2> HIDE DEF j, k
  <2>4. Exact("reread", j, objs, cloud)
    BY <1>1, <2>1, <2>2, <2>3 DEF Good, Exact, PutsFor, CombinesFor
  <2>5. Sound(objs, Saving("reread", j))
    BY <1>1, <2>1, <2>2, SoundSame DEF Good
  <2> QED BY <2>1, <2>4, <2>5 DEF Good, k
<1>6. ASSUME NEW n \in ChunkLens, PostBody(r, n) PROVE Good(pc'[r], k, objs', cloud)
  <2>1. l = "body" /\ pc'[r] = "chunk" /\ objs' = objs
    BY <1>6 DEF PostBody, Goto, TypeInv, Placed
  <2>2. ~Saving("body", j)
    BY DEF Saving, PutsFor
  <2> QED BY <1>1, <2>1, <2>2, ExactRest, SoundSame DEF Good
<1> QED BY <1>2, <1>3, <1>4, <1>5, <1>6 DEF Post

(* A step that leaves the bucket alone and the offset unsaved.             *)
LEMMA GoodOn ==
  ASSUME NEW l, NEW j, NEW m, NEW k, NEW o, NEW c, Good(l, j, o, c), ~Saving(l, j), Exact(m, k, o, c)
  PROVE  Good(m, k, o, c)
BY SoundSame DEF Good

LEMMA EndGood ==
  ASSUME TypeInv, NEW r \in Reqs, End(r), objs' = objs, Good(pc[r], job[r], objs, cloud),
         ~Saving(pc[r], job[r])
  PROVE  Good(pc'[r], job'[r], objs', cloud)
<1>1. pc'[r] = "idle" /\ job'[r] = Blank
  BY EndMine
<1>2. Exact("idle", Blank, objs, cloud)
  BY ExactRest
<1> QED BY <1>1, <1>2, GoodOn

(* Where the parts are what the upload has, list_parts has all of it.      *)
LEMMA ListedLine ==
  ASSUME NEW n, n \in Nat, Ordered(objs, n)
  PROVE  /\ InLine(ListParts, objs, n) /\ Vacant(objs, 0)
         /\ ListParts = <<>> => n = 0
<1>1. PICK m \in 0..Len(PartNames) :
             PartsTo(objs, m) /\ Content(objs, SubSeq(PartNames, 1, m)) = Whole(n)
  BY DEF Ordered
<1>2. ListParts = SubSeq(PartNames, 1, m)
  BY <1>1, ListFirst
<1>3. InLine(ListParts, objs, n)
  BY <1>1, <1>2, FirstParts DEF InLine
<1>4. ListParts = <<>> => n = 0
  <2> SUFFICES ASSUME ListParts = <<>> PROVE n = 0
    OBVIOUS
  <2>1. Whole(n) = <<>>
    BY <1>3, ContentEmpty DEF InLine
  <2> QED BY <2>1, ChunkFacts
<1> QED BY <1>3, <1>4 DEF Ordered

LEMMA PatchGood ==
  ASSUME TypeInv, SteadyInv, KeptInv, NEW r \in Reqs, Active(r), Patch(r),
         Good(pc[r], job[r], objs, cloud)
  PROVE  Good(pc'[r], job'[r], objs', cloud)
<1> DEFINE j == job[r]
           k == job'[r]
           i == Info
           l == pc[r]
<1>1. /\ j \in Jobs /\ Fits(l, j) /\ Steady(l, j, i) /\ Brings(l, j) /\ i = objs["info"]
      /\ Good(l, j, objs, cloud) /\ (i # Absent => i \in Infos) /\ (Found => i # Absent)
  BY OpFacts, SteadyAt, KeptAt DEF Info, Found, TypeInv, ObjsOK
<1>2. i # Absent => i.offset \in Nat /\ i.size \in Nat \union {NoLen}
  BY <1>1 DEF Infos
<1>3. objs' = objs
  BY DEF Patch, Arrive, LoadPatch, Declare, ReadChunk, WritePart, SaveOffset, Reread, PreFinish,
         Finalize, Done
<1>4. ~(\E at \in 0..MaxLen, n \in ChunkLens : Arrive(r, "patch", at, n))
  BY DEF Arrive, Active
<1>5. l \notin {"save", "put"} => ~Saving(l, j)
  BY DEF Saving, PutsFor
<1>6. ASSUME l \notin {"save", "put"}, Exact(pc'[r], k, objs, cloud)
      PROVE  Good(pc'[r], k, objs', cloud)
  BY <1>1, <1>3, <1>5, <1>6, GoodOn
<1>7. CASE LoadPatch(r) \/ ReadChunk(r)
  <2>1. l \in {"load", "chunk"} /\ pc'[r] \in {"chunk", "declare", "list"}
    BY <1>7, ReadChunkFacts DEF LoadPatch, Goto, TypeInv, Placed
  <2> QED BY <1>6, <2>1, ExactRest
<1>8. ASSUME NEW n \in Sizes \ {NoLen}, Declare(r, n) PROVE Good(pc'[r], k, objs', cloud)
  <2>1. l = "declare" /\ pc'[r] = "put" /\ k.then = "chunk" /\ k.op = j.op /\ j.op = "patch"
    BY <1>1, <1>8, DeclareFacts DEF Fits
  <2> HIDE DEF k, j
  <2>2. Exact(pc'[r], k, objs, cloud)
    BY <2>1 DEF Exact, Saving, PutsFor, CombinesFor
  <2> QED BY <1>6, <2>1, <2>2
<1>9. CASE WritePart(r)
  <2>1. /\ l = "list" /\ pc'[r] = "put" /\ k.then = "save" /\ k.key = PartNames[Len(ListParts) + 1]
        /\ Len(ListParts) < Len(PartNames) /\ k.op = j.op
    BY <1>9, WritePartFacts
  <2>2. i # Absent /\ Ready(i, j) /\ j.op \in {"post", "patch"}
    BY <1>1, <2>1 DEF Steady, Fits
  <2>3. ~IsComplete(i)
    <3> DEFINE at == j.at
               n == j.n
    <3>1. n > 0 /\ n \in Nat /\ at \in Nat
      BY <1>1, <2>1 DEF Brings, Writing, Jobs
    <3>2. i.offset = at /\ (i.size # NoLen => at + n <= i.size)
      BY <2>2 DEF Ready
    <3> HIDE DEF i, at, n
    <3> QED BY <1>2, <2>2, <3>1, <3>2 DEF IsComplete
  <2>4. ~i.final => NextPart(objs, k.key)
    <3> SUFFICES ASSUME ~i.final PROVE NextPart(objs, k.key)
      OBVIOUS
    <3>1. Ordered(objs, i.offset)
      BY <1>1, <1>5, <2>1, <2>2, <2>3 DEF Good, Sound
    <3>2. PICK m \in 0..Len(PartNames) : PartsTo(objs, m)
      BY <3>1 DEF Ordered
    <3>3. Len(ListParts) = m
      BY <3>2, ListFirst
    <3> HIDE DEF k
    <3> QED BY <2>1, <3>2, <3>3 DEF NextPart
  <2> HIDE DEF k, j, i
  <2>5. Exact(pc'[r], k, objs, cloud)
    BY <1>1, <2>1, <2>2, <2>4 DEF Exact, Saving, PutsFor, CombinesFor
  <2> QED BY <1>6, <2>1, <2>5 DEF k
<1>10. CASE SaveOffset(r)
  <2>1. /\ l = "save" /\ pc'[r] = "put" /\ k.then = "reread" /\ k.at = j.at /\ k.n = j.n
        /\ k.op = j.op /\ j.op \in {"post", "patch"}
    BY <1>1, <1>10, SaveOffsetFacts DEF Fits
  <2> HIDE DEF k, j, i
  <2>2. Saving("save", j) /\ Saving("put", k)
    BY <2>1 DEF Saving, PutsFor
  <2>3. Sound(objs, Saving("save", j)) /\ Exact("save", j, objs, cloud)
    BY <1>1, <2>1 DEF Good
  <2>4. Exact("put", k, objs, cloud)
    BY <1>1, <2>1, <2>2, <2>3 DEF Exact, PutsFor, CombinesFor
  <2>5. Sound(objs, Saving("put", k))
    BY <2>2, <2>3, SoundSame
  <2> QED BY <1>3, <2>1, <2>4, <2>5 DEF Good, k
<1>11. CASE Reread(r)
  <2>1. CASE End(r)
    <3>1. l = "reread"
      BY <1>11 DEF Reread
    <3> QED BY <1>1, <1>3, <1>5, <2>1, <3>1, EndGood
  <2>2. CASE ~End(r)
    <3>1. l = "reread" /\ pc'[r] = "finish" /\ k.op = j.op /\ j.op \in {"post", "patch"}
      BY <1>1, <1>11, <2>2, RereadFacts DEF Fits
    <3> HIDE DEF k, j, i
    <3>2. Exact(pc'[r], k, objs, cloud)
      BY <1>1, <3>1 DEF Good, Exact, Saving, PutsFor, CombinesFor
    <3> QED BY <1>6, <3>1, <3>2 DEF k
  <2> QED BY <2>1, <2>2
<1>12. CASE PreFinish(r)
  <2>1. l = "finish" /\ pc'[r] = "parts" /\ k = j /\ j.op \in {"post", "patch"}
    BY <1>1, <1>12, GotoMine DEF PreFinish, Fits
  <2> HIDE DEF k, j, i
  <2>2. Exact(pc'[r], k, objs, cloud)
    BY <1>1, <2>1 DEF Good, Exact, Saving, PutsFor, CombinesFor
  <2> QED BY <1>6, <2>1, <2>2 DEF k
<1>13. CASE Finalize(r)
  <2>1. /\ l = "parts" /\ k.op = j.op /\ j.op \in {"post", "patch"}
        /\ \/ /\ ListParts = <<>> /\ pc'[r] = "put" /\ k.then = "done" /\ k.value = <<>>
           \/ /\ ListParts # <<>> /\ pc'[r] = "group" /\ k.back = "done" /\ k.tmps = 0
              /\ k.level = ListParts /\ k.made = <<>>
    BY <1>1, <1>13, FinalizeFacts DEF Fits
  <2>2. i # Absent
    BY <1>1, <2>1 DEF Steady
  <2>3. ~i.final => /\ InLine(ListParts, objs, i.offset) /\ Vacant(objs, 0)
                    /\ ListParts = <<>> => i.offset = 0
    <3> SUFFICES ASSUME ~i.final
                 PROVE  /\ InLine(ListParts, objs, i.offset) /\ Vacant(objs, 0)
                        /\ ListParts = <<>> => i.offset = 0
      OBVIOUS
    <3>1. Ordered(objs, i.offset)
      BY <1>1, <2>1, <2>2 DEF Good, Exact
    <3> QED BY <1>2, <2>2, <3>1, ListedLine
  <2>4. <<>> \o ListParts = ListParts
    BY ListFacts, EmptyLine
  <2> HIDE DEF k, j, i
  <2>5. pc'[r] = "group" /\ ~i.final => Queued("group", k, objs, i.offset, cloud) /\ Clear("group", k, objs)
    BY <2>1, <2>3, <2>4 DEF Queued, Clear
  <2>6. Exact(pc'[r], k, objs, cloud)
    BY <1>1, <2>1, <2>2, <2>3, <2>5 DEF Exact, Saving, PutsFor, CombinesFor
  <2> QED BY <1>6, <2>1, <2>6 DEF k
<1>14. CASE Done(r)
  <2>1. l = "done" /\ End(r)
    BY <1>14 DEF Done
  <2> QED BY <1>1, <1>3, <1>5, <2>1, EndGood
<1> QED BY <1>4, <1>7, <1>8, <1>9, <1>10, <1>11, <1>12, <1>13, <1>14 DEF Patch

LEMMA OthersGood ==
  ASSUME TypeInv, NEW r \in Reqs, Active(r), Others(r), faults' = faults,
         Good(pc[r], job[r], objs, cloud)
  PROVE  Good(pc'[r], job'[r], objs', cloud)
<1> DEFINE j == job[r]
           k == job'[r]
<1>1. j \in Jobs /\ Fits(pc[r], j) /\ Good(pc[r], j, objs, cloud)
  BY OpFacts
<1>2. pc[r] \in {"load", "read", "left", "deleted"} => ~Saving(pc[r], j)
  BY DEF Saving, PutsFor
<1>3. CASE LoadGet(r)
  <2>1. pc[r] = "load" /\ pc'[r] = "read" /\ objs' = objs
    BY <1>3 DEF LoadGet, Goto, TypeInv, Placed
  <2> QED BY <1>1, <1>2, <2>1, ExactRest, GoodOn
<1>4. CASE GetRead(r)
  <2>1. pc[r] = "read" /\ End(r) /\ objs' = objs
    BY <1>4 DEF GetRead
  <2> QED BY <1>1, <1>2, <2>1, EndGood
<1>5. CASE Delete(r)
  <2> DEFINE g == [j EXCEPT !.todo = <<"data", "info">>, !.then = "left"]
  <2>1. pc[r] = "load" /\ j.op = "delete" /\ Set(r, g) /\ Goto(r, "erase") /\ objs' = objs
    BY <1>5 DEF Delete
  <2>2. g.op = j.op /\ g.todo = <<"data", "info">>
    BY <1>1 DEF Jobs
  <2> HIDE DEF g, j
  <2>3. pc'[r] = "erase" /\ k = g
    BY <2>1, StepMine
  <2>4. Exact("erase", g, objs, cloud)
    BY <2>1, <2>2 DEF Exact
  <2> QED BY <1>1, <1>2, <2>1, <2>3, <2>4, GoodOn DEF j
<1>6. CASE DeleteParts(r)
  <2>1. pc[r] = "left" /\ objs' = objs
    BY <1>6 DEF DeleteParts
  <2>2. objs["info"] = Absent
    BY <1>1, <2>1 DEF Fits, Good, Exact
  <2> QED BY <2>1, <2>2, GoodGone
<1>7. ~DeletePartsUnlisted(r)
  <2>1. faults \in Nat
    BY ObjectAssumption DEF TypeInv, Counters
  <2> QED BY <2>1 DEF DeletePartsUnlisted
<1>8. CASE Deleted(r)
  <2>1. pc[r] = "deleted" /\ End(r) /\ objs' = objs
    BY <1>8 DEF Deleted
  <2> QED BY <1>1, <1>2, <2>1, EndGood
<1>9. ~Lock(r) /\ ~HeadRequest(r) /\ ~(\E op \in {"get", "delete"} : Arrive(r, op, 0, 0))
  BY DEF Lock, HeadRequest, Arrive, Active
<1> QED BY <1>3, <1>4, <1>5, <1>6, <1>7, <1>8, <1>9 DEF Others

-----------------------------------------------------------------------------
(* Combining keeps the bytes in their order.                               *)

LEMMA LastOf ==
  ASSUME NEW s \in Seq(Blobs), s # <<>>
  PROVE  LET a == SubSeq(s, 1, Len(s) - 1)
         IN a \in Seq(Blobs) /\ s = Append(a, s[Len(s)])
<1> DEFINE n == Len(s)
           a == SubSeq(s, 1, n - 1)
           x == s[n]
           b == Append(a, x)
<1>1. n \in Nat /\ n > 0 /\ DOMAIN s = 1..n /\ \A i \in 1..n : s[i] \in Blobs
  BY LenProperties, ElementOfSeq, EmptySeq
<1>2. a \in Seq(Blobs) /\ Len(a) = n - 1 /\ \A i \in 1..(n - 1) : a[i] = s[i]
  BY <1>1
<1>3. x \in Blobs
  BY <1>1
<1> HIDE DEF n, a, x
<1>4. /\ b \in Seq(Blobs) /\ Len(b) = Len(a) + 1 /\ \A i \in 1..Len(a) : b[i] = a[i]
      /\ b[Len(a) + 1] = x
  BY <1>2, <1>3, AppendProperties
<1> HIDE DEF b
<1>5. Len(b) = n /\ \A i \in 1..n : b[i] = s[i]
  BY <1>1, <1>2, <1>4 DEF x
<1>6. b = s
  BY <1>4, <1>5, SeqEqual DEF n
<1> QED BY <1>2, <1>6 DEF n, a, x, b

(* The group taken next.                                                   *)
LEMMA GroupQueues ==
  ASSUME TypeInv, NEW r \in Reqs, NextGroup(r), NEW n, Queued("group", job[r], objs, n, cloud)
  PROVE  /\ Queued(pc'[r], job'[r], objs', n, cloud) /\ objs' = objs
         /\ job'[r].op = job[r].op /\ job'[r].back = job[r].back /\ pc[r] = "group"
<1> DEFINE j == job[r]
           q == Pending(j)
           m == j.made
           w == j.level
<1>1. PICK i \in Jobs :
        /\ Set(r, i) /\ i.op = j.op /\ i.back = j.back /\ q \in Seq(Blobs) /\ q # <<>>
        /\ \/ FinalGroup(j) /\ i.src = q /\ i.dest = "data"
           \/ /\ ~FinalGroup(j) /\ i.dest = TmpNames[j.tmps + 1]
              /\ j.tmps + 1 \in 1..Len(TmpNames)
              /\ \E c \in 1..Len(q) : i.src = SubSeq(q, 1, c) /\ i.level = SubSeq(q, c + 1, Len(q))
              /\ i.made = IF w = <<>> THEN <<i.dest>> ELSE Append(m, i.dest)
  BY GroupFacts
<1>2. pc[r] = "group" /\ objs' = objs /\ Goto(r, IF cloud = "gcs" THEN "commit" ELSE "fetch")
  BY DEF NextGroup
<1>3. job'[r] = i /\ pc'[r] \in {"fetch", "commit"}
  BY <1>1, <1>2, StepMine
<1>4. InLine(m \o w, objs, n) /\ (cloud = "s3" => m = <<>>)
  BY DEF Queued
<1>5. j \in Jobs /\ m \in Seq(Blobs) /\ w \in Seq(Blobs)
  <2>1. j \in Jobs
    BY OpFacts
  <2> HIDE DEF j
  <2> QED BY <2>1 DEF Jobs
<1>6. /\ <<>> \o q = q /\ m \o <<>> = m /\ <<>> \o w = w
      /\ w = <<>> => q = m
      /\ w # <<>> => q = w
  <2>1. /\ w = <<>> => q = m
        /\ w # <<>> => q = w
    BY DEF Pending
  <2> HIDE DEF q, m, w
  <2> QED BY <1>1, <1>5, <2>1, EmptyLine
<1>7. CASE FinalGroup(j)
  <2>1. i.src = q /\ i.dest = "data"
    BY <1>1, <1>7
  <2>2. w # <<>> => m = <<>>
    BY <1>4, <1>7 DEF FinalGroup, GcsLast, AzureLast
  <2> HIDE DEF j, q, m, w
  <2>3. InLine(q, objs, n)
    BY <1>4, <1>6, <2>2
  <2> QED BY <1>1, <1>2, <1>3, <2>1, <2>3 DEF Queued, j
<1>8. CASE ~FinalGroup(j)
  <2>1. PICK c \in 1..Len(q) : i.src = SubSeq(q, 1, c) /\ i.level = SubSeq(q, c + 1, Len(q))
    BY <1>1, <1>8
  <2>2. i.dest # "data" /\ i.dest \in Blobs /\ i.made = IF w = <<>> THEN <<i.dest>> ELSE Append(m, i.dest)
    BY <1>1, <1>8, TmpFacts
  <2>3. cloud # "s3"
    BY <1>8 DEF FinalGroup
  <2>4. Earlier(i) = IF w = <<>> THEN <<>> ELSE m
    <3>1. CASE w = <<>>
      BY <2>2, <3>1 DEF Earlier
    <3>2. CASE w # <<>>
      <4> DEFINE d == i.dest
                 b == Append(m, d)
      <4>1. i.made = b
        BY <2>2, <3>2
      <4> HIDE DEF m, d
      <4>2. Len(m) \in Nat /\ Len(b) = Len(m) + 1 /\ b \in Seq(Blobs) /\ \A x \in 1..Len(m) : b[x] = m[x]
        BY <1>5, <2>2, AppendProperties, LenProperties DEF d
      <4> HIDE DEF b
      <4>3. SubSeq(b, 1, Len(b) - 1) = m
        <5> DEFINE a == SubSeq(b, 1, Len(b) - 1)
        <5>1. a \in Seq(Blobs) /\ Len(a) = Len(m) /\ \A x \in 1..Len(m) : a[x] = m[x]
          BY <4>2
        <5> HIDE DEF a
        <5>2. a = m
          BY <1>5, <5>1, SeqEqual
        <5> QED BY <5>2 DEF a
      <4> QED BY <3>2, <4>1, <4>3 DEF Earlier
    <3> QED BY <3>1, <3>2
  <2> HIDE DEF j, q, m, w
  <2>5. InLine(Earlier(i) \o (i.src \o i.level), objs, n)
    <3>1. CASE w = <<>>
      <4>1. <<>> \in Seq(Blobs) /\ InLine(<<>> \o q, objs, n)
        BY <1>4, <1>6, <3>1, EmptySeq
      <4> QED BY <1>1, <2>1, <2>4, <3>1, <4>1, LineSplit
    <3>2. CASE w # <<>>
      <4>1. InLine(m \o q, objs, n)
        BY <1>4, <1>6, <3>2
      <4> QED BY <1>1, <1>5, <2>1, <2>4, <3>2, <4>1, LineSplit
    <3> QED BY <3>1, <3>2
  <2> QED BY <1>1, <1>2, <1>3, <2>2, <2>3, <2>5 DEF Queued, j
<1> QED BY <1>7, <1>8

(* The call that combines a group.                                         *)
LEMMA CommitMerges ==
  ASSUME TypeInv, GatherInv, NEW r \in Reqs, pc[r] = "commit", ~Refused(r), objs' = Effect(r),
         Present(objs, job[r].src)
  PROVE  LET j == job[r]
         IN /\ Typed(objs) /\ Typed(objs') /\ objs'["info"] = objs["info"]
            /\ objs'[j.dest] = Content(objs, j.src) /\ objs'[j.dest] # Absent
            /\ \A x \in Blobs : x # j.dest /\ x \notin ToSet(j.src) => objs'[x] = objs[x]
<1> DEFINE j == job[r]
<1>1. /\ ObjsOK' /\ objs'["info"] = objs["info"] /\ objs'[j.dest] \in Bytes
      /\ cloud = "gcs" =>
           /\ objs'[j.dest] = Content(objs, j.src)
           /\ \A key \in Keys : key # j.dest =>
                objs'[key] = IF key \in ToSet(j.src) THEN Absent ELSE objs[key]
      /\ cloud # "gcs" =>
           /\ objs'[j.dest] = FlattenSeq(j.blocks)
           /\ \A key \in Keys : key # j.dest => objs'[key] = objs[key]
      /\ j.src \in Seq(Blobs)
  BY CommitObjs
<1>2. cloud # "gcs" => FlattenSeq(j.blocks) = Content(objs, j.src)
  <2>1. cloud # "gcs" => FlattenSeq(j.blocks) = Content(Stock(objs), j.src)
    BY DEF GatherInv, Gathered
  <2> HIDE DEF j
  <2>2. \A i \in DOMAIN j.src : j.src[i] \in Blobs /\ objs[j.src[i]] # Absent
    BY <1>1, ElementOfSeq, LenProperties DEF Present, j
  <2>3. \A i \in DOMAIN j.src : Stock(objs)[j.src[i]] = objs[j.src[i]]
    BY <2>2, StockHere DEF GatherInv, j
  <2>4. Content(Stock(objs), j.src) = Content(objs, j.src)
    BY <2>3, ContentSame
  <2> QED BY <2>1, <2>4
<1>3. Typed(objs) /\ Typed(objs')
  BY <1>1, TypedObjs DEF ObjsOK, Typed
<1> HIDE DEF j
<1> QED BY <1>1, <1>2, <1>3, KeyFacts, AbsentFacts DEF j

LEMMA CommitQueues ==
  ASSUME TypeInv, GatherInv, NEW r \in Reqs, Commit(r), NEW n,
         Queued("commit", job[r], objs, n, cloud), Clear("commit", job[r], objs)
  PROVE  LET j == job[r]
             k == job'[r]
         IN /\ objs'["info"] = objs["info"] /\ k.op = j.op /\ k.back = j.back
            /\ j.dest = "data" => objs'["data"] = Whole(n) /\ (cloud = "s3" => k.dest = "data")
            /\ k.dest = j.dest
            /\ j.dest # "data" => /\ objs'["data"] \in {objs["data"], Absent}
                                  /\ Queued(pc'[r], k, objs', n, cloud)
<1> DEFINE j == job[r]
           k == job'[r]
           d == j.dest
           s == j.src
           w == j.level
           a == Earlier(j)
<1>1. /\ pc[r] = "commit" /\ ~Refused(r) /\ objs' = Effect(r) /\ j \in Jobs
      /\ CombineFits("commit", j)
      /\ pc'[r] = (IF cloud = "gcs" THEN IF d = "data" THEN j.back ELSE "group" ELSE "erase")
      /\ k.op = j.op /\ k.dest = d /\ k.back = j.back /\ k.level = w /\ k.made = j.made
      /\ k.info = j.info /\ (cloud # "gcs" => k.todo = s)
  BY CommitSame
<1>2. s \in Seq(Blobs) /\ w \in Seq(Blobs) /\ j.made \in Seq(Blobs) /\ d \in Blobs
  BY <1>1 DEF Jobs
<1>3. d # "data" => a \in Seq(Blobs) /\ j.made = Append(a, d)
  <2>1. d # "data" => j.made # <<>> /\ j.made[Len(j.made)] = d
    BY <1>1 DEF CombineFits, Grouped
  <2> HIDE DEF j, d
  <2> QED BY <1>2, <2>1, LastOf DEF Earlier
<1>4. /\ Typed(objs) /\ Typed(objs') /\ objs'["info"] = objs["info"]
      /\ objs'[d] = Content(objs, s) /\ objs'[d] # Absent
      /\ \A x \in Blobs : x # d /\ x \notin ToSet(s) => objs'[x] = objs[x]
  <2>1. IF d = "data" THEN InLine(s, objs, n) ELSE InLine(a \o (s \o w), objs, n)
    BY DEF Queued
  <2>2. Present(objs, s)
    <3> HIDE DEF k, d, s, w, a, j
    <3>1. CASE d = "data"
      BY <2>1, <3>1 DEF InLine
    <3>2. CASE d # "data"
      <4>1. s \o w \in Seq(Blobs) /\ Present(objs, a \o (s \o w)) /\ a \in Seq(Blobs)
        BY <1>2, <1>3, <2>1, <3>2, ConcatFacts DEF InLine
      <4>2. Typed(objs)
        BY DEF TypeInv, ObjsOK, Typed
      <4>3. Present(objs, s \o w)
        BY <4>1, <4>2, ContentConcat
      <4> QED BY <1>2, <4>2, <4>3, ContentConcat
    <3> QED BY <3>1, <3>2
  <2> QED BY <1>1, <2>2, CommitMerges
<1>5. CASE d = "data"
  <2>1. Content(objs, s) = Whole(n)
    BY <1>5 DEF Queued, InLine
  <2> HIDE DEF k, d, s, w, a, j
  <2> QED BY <1>1, <1>4, <1>5, <2>1 DEF k, d, j
<1>6. CASE d # "data"
  <2>1. InLine(a \o (s \o w), objs, n) /\ cloud # "s3"
    BY <1>6 DEF Queued
  <2>2. objs[d] = Absent
    <3> HIDE DEF j, d
    <3> QED BY <1>1, DestFacts DEF d, j
  <2>3. a \in Seq(Blobs) /\ j.made = Append(a, d)
    BY <1>3, <1>6
  <2>4. objs'["data"] \in {objs["data"], Absent}
    <3>1. \A key \in Blobs : key # d => objs'[key] \in {objs[key], Absent}
      BY <1>1, CommitCarries
    <3> QED BY <1>6, <3>1, KeyFacts
  <2> HIDE DEF k, d, s, w, a, j
  <2>5. /\ InLine(Append(a, d) \o w, objs', n) /\ ToSet(s) \intersect ToSet(Append(a, d) \o w) = {}
    BY <1>2, <1>4, <2>1, <2>2, <2>3, LineMerged
  <2>6. pc'[r] = "group" => Queued(pc'[r], k, objs', n, cloud)
    BY <1>1, <2>1, <2>3, <2>5 DEF Queued
  <2>7. pc'[r] = "erase" => Queued(pc'[r], k, objs', n, cloud)
    <3>1. pc'[r] = "erase" => k.todo = s
      BY <1>1, <1>6
    <3> QED BY <1>1, <2>1, <2>3, <2>5, <3>1 DEF Queued
  <2>8. pc'[r] \in {"group", "erase"}
    BY <1>1, <1>6
  <2> QED BY <1>1, <1>4, <1>6, <2>4, <2>6, <2>7, <2>8 DEF k, d, j
<1> QED BY <1>5, <1>6

LEMMA CombineGood ==
  ASSUME TypeInv, GatherInv, SteadyInv, NEW r \in Reqs, Combine(r),
         Good(pc[r], job[r], objs, cloud)
  PROVE  Good(pc'[r], job'[r], objs', cloud)
<1> DEFINE j == job[r]
           k == job'[r]
           i == Info
           l == pc'[r]
<1>1. /\ pc[r] \in {"group", "fetch", "commit"}
      /\ l \in {"group", "fetch", "commit", "erase", "total", "done"}
      /\ Commit(r) \/ (objs' = objs /\ pc[r] # "commit")
  BY CombineGoes
<1>2. j \in Jobs /\ CombineFits(pc[r], j) /\ Steady(pc[r], j, i) /\ i = objs["info"]
  BY <1>1, OpFacts, SteadyAt DEF Fits, Info
<1>3. j.op \in {"post", "patch"} /\ j.back \in {"total", "done"} /\ CombinesFor(pc[r], j, j.back)
  BY <1>1, <1>2 DEF CombineFits, CombinesFor
<1>4. i # Absent /\ (j.back = "total" => i.final) /\ (j.back = "done" => IsComplete(i))
  BY <1>2, <1>3 DEF Steady
<1>5. k.op = j.op /\ k.back = j.back /\ objs'["info"] = i
  <2>1. CASE NextGroup(r)
    <3>1. PICK g \in Jobs : Set(r, g) /\ g.op = j.op /\ g.back = j.back
      BY <2>1, GroupFacts
    <3>2. Goto(r, IF cloud = "gcs" THEN "commit" ELSE "fetch") /\ objs' = objs
      BY <2>1 DEF NextGroup
    <3> QED BY <1>2, <3>1, <3>2, StepMine
  <2>2. CASE FetchBlock(r) \/ FetchPiece(r)
    BY <1>2, <2>2, FetchSame
  <2>3. CASE Commit(r)
    <3>1. pc[r] = "commit" /\ ~Refused(r) /\ objs' = Effect(r) /\ k.op = j.op /\ k.back = j.back
      BY <2>3, CommitSame
    <3> QED BY <1>2, <3>1, CommitObjs
  <2> QED BY <2>1, <2>2, <2>3 DEF Combine
<1>6. CASE i.final
  <2> HIDE DEF j, k, i
  <2>1. k.op # "delete"
    BY <1>3, <1>5
  <2> QED BY <1>5, <1>6, <2>1, GoodFinal DEF k
<1>7. CASE ~i.final
  <2> DEFINE n == i.offset
             d == objs["data"]
             dd == objs'["data"]
  <2>1. j.back = "done" /\ IsComplete(i) /\ n = i.size
    BY <1>3, <1>4, <1>7 DEF IsComplete
  <2>2. Queued(pc[r], j, objs, n, cloud) /\ Clear(pc[r], j, objs) /\ (d # Absent => d = Whole(n))
    BY <1>2, <1>3, <1>4, <1>7, <2>1 DEF Good, Exact, Sound
  <2>3. Clear(l, k, objs') \/ l \in {"total", "done"}
    BY <2>2, CombineClear
  <2>4. /\ l \in {"total", "done"} \/ Queued(l, k, objs', n, cloud)
        /\ dd # Absent => dd = Whole(n)
    <3>1. CASE NextGroup(r)
      <4>1. pc[r] = "group"
        BY <3>1 DEF NextGroup
      <4>2. Queued(l, k, objs', n, cloud) /\ objs' = objs
        BY <2>2, <3>1, <4>1, GroupQueues
      <4> QED BY <2>2, <4>2
    <3>2. CASE FetchBlock(r) \/ FetchPiece(r)
      <4>1. /\ pc[r] = "fetch" /\ l \in {"fetch", "commit"} /\ objs' = objs
            /\ k.src = j.src /\ k.dest = j.dest /\ k.level = j.level /\ k.made = j.made
        BY <3>2, FetchSame
      <4> HIDE DEF j, k, i, l, n
      <4>2. Queued(l, k, objs', n, cloud)
        BY <2>2, <4>1 DEF Queued, Earlier
      <4> QED BY <2>2, <4>1, <4>2
    <3>3. CASE Commit(r)
      <4>1. pc[r] = "commit"
        BY <3>3 DEF Commit
      <4>2. /\ j.dest = "data" => dd = Whole(n) /\ (cloud = "s3" => k.dest = "data")
            /\ k.dest = j.dest
            /\ j.dest # "data" => dd \in {d, Absent} /\ Queued(l, k, objs', n, cloud)
        BY <2>2, <3>3, <4>1, CommitQueues
      <4>3. CASE j.dest # "data"
        BY <2>2, <4>2, <4>3
      <4>4. CASE j.dest = "data"
        <5>1. l \in {"done", "erase"}
          BY <2>1, <3>3, <4>4, CommitSame
        <5> HIDE DEF j, k, i, l, n
        <5>2. l = "erase" => Queued(l, k, objs', n, cloud)
          BY <4>2, <4>4 DEF Queued
        <5> QED BY <4>2, <4>4, <5>1, <5>2
      <4> QED BY <4>3, <4>4
    <3> QED BY <3>1, <3>2, <3>3 DEF Combine
  <2> HIDE DEF j, k, l, i, n
  <2>5. Sound(objs', Saving(l, k))
    BY <1>5, <2>1, <2>4 DEF Sound
  <2>6. Exact(l, k, objs', cloud)
    BY <1>1, <1>3, <1>5, <2>3, <2>4 DEF Exact, Saving, PutsFor, CombinesFor, n
  <2> QED BY <2>5, <2>6 DEF Good, l, k
<1> QED BY <1>6, <1>7

LEMMA EraseGood ==
  ASSUME TypeInv, GatherInv, SteadyInv, NEW r \in Reqs, Erase(r), faults' = faults,
         Good("erase", job[r], objs, cloud)
  PROVE  Good(pc'[r], job'[r], objs', cloud)
<1> DEFINE j == job[r]
           k == job'[r]
           i == Info
           l == pc'[r]
           h == Head(j.todo)
<1>1. /\ pc[r] = "erase" /\ j \in Jobs /\ EraseFits(j)
      /\ l = (IF Len(j.todo) = 1 THEN j.then ELSE "erase") /\ k = [j EXCEPT !.todo = Tail(@)]
      /\ k.todo = Tail(j.todo) /\ h \in Keys /\ h \in ToSet(j.todo)
      /\ ToSet(Tail(j.todo)) \subseteq ToSet(j.todo) /\ objs' = [objs EXCEPT ![h] = Absent]
      /\ j.op # "delete" =>
           CombineFits("erase", j) /\ j.then = IF j.dest = "data" THEN j.back ELSE "group"
  <2>1. faults \in Nat
    BY ObjectAssumption DEF TypeInv, Counters
  <2>2. faults' # faults + 1
    BY <2>1
  <2> QED BY <2>2, EraseFacts
<1>2. /\ k.op = j.op /\ k.back = j.back /\ k.level = j.level /\ k.made = j.made
      /\ k.dest = j.dest /\ k.tmps = j.tmps
  BY <1>1 DEF Jobs
<1>3. /\ Steady("erase", j, i) /\ i = objs["info"] /\ objs' = Effect(r)
      /\ DOMAIN objs = Keys
  BY <1>1, SteadyAt DEF Info, Effect, TypeInv, ObjsOK
<1>4. \A key \in Keys : objs'[key] = IF key = h THEN Absent ELSE objs[key]
  BY <1>1, <1>3
<1>5. CASE j.op = "delete"
  <2> DEFINE t == j.todo
  <2>1. t = <<"data", "info">> => h = "data" /\ l = "erase" /\ k.todo = <<"info">>
    BY <1>1
  <2>2. t = <<"info">> => h = "info"
    OBVIOUS
  <2> HIDE DEF j, k, i, l, h, t
  <2>3. CASE t = <<"data", "info">>
    <3>1. objs'["info"] = i /\ objs'["data"] = Absent
      BY <1>3, <1>4, <2>1, <2>3, KeyFacts
    <3>2. \A n : Ordered(objs, n) => Ordered(objs', n)
      <4> SUFFICES ASSUME NEW n, Ordered(objs, n) PROVE Ordered(objs', n)
        OBVIOUS
      <4>1. objs["data"] = Absent
        BY DEF Ordered, Vacant
      <4>2. \A key \in Own : objs'[key] = objs[key]
        BY <1>4, <2>1, <2>3, <4>1, OwnFacts
      <4> QED BY <4>2, OrderedSame
    <3>3. ~Saving("erase", j) /\ ~Saving("erase", k)
      BY DEF Saving, PutsFor
    <3>4. Sound(objs', Saving("erase", k))
      BY <1>3, <3>1, <3>2, <3>3 DEF Good, Sound, j
    <3>5. Exact("erase", k, objs', cloud)
      BY <1>2, <1>5, <2>1, <2>3 DEF Exact
    <3> QED BY <2>1, <2>3, <3>4, <3>5 DEF Good, l, k
  <2>4. CASE t # <<"data", "info">>
    <3>1. t = <<"info">> \/ objs["info"] = Absent
      BY <1>5, <2>4 DEF Good, Exact, t, j
    <3>2. objs'["info"] = Absent
      BY <1>4, <2>2, <3>1, KeyFacts
    <3> QED BY <3>2, GoodGone
  <2> QED BY <2>3, <2>4
<1>6. CASE j.op # "delete"
  <2>1. /\ j.op \in {"post", "patch"} /\ j.back \in {"total", "done"} /\ CombinesFor("erase", j, j.back)
        /\ Grouped(j) /\ j.tmps \in 0..Len(TmpNames)
    BY <1>1, <1>6 DEF CombineFits, CombinesFor
  <2>2. i # Absent /\ (j.back = "total" => i.final) /\ (j.back = "done" => IsComplete(i))
    BY <1>3, <2>1 DEF Steady
  <2>3. objs'["info"] = i /\ objs'["data"] \in {objs["data"], Absent}
    <3>1. /\ objs'["info"] = Info
          /\ \A key \in Blobs : objs'[key] \in {objs[key], Absent}
      BY <1>1, <1>3, <1>6, EraseCarries
    <3> QED BY <3>1, KeyFacts
  <2>4. CASE i.final
    <3> HIDE DEF j, k, i
    <3>1. k.op # "delete"
      BY <1>2, <1>6
    <3> QED BY <2>3, <2>4, <3>1, GoodFinal DEF k
  <2>5. CASE ~i.final
    <3> DEFINE n == i.offset
               d == objs["data"]
               dd == objs'["data"]
               q == j.made \o j.level
    <3>1. j.back = "done" /\ IsComplete(i) /\ n = i.size
      BY <2>1, <2>2, <2>5 DEF IsComplete
    <3>2. Queued("erase", j, objs, n, cloud) /\ Clear("erase", j, objs) /\ (d # Absent => d = Whole(n))
      BY <1>3, <2>1, <2>2, <2>5, <3>1 DEF Good, Exact, Sound
    <3>3. Clear(l, k, objs') \/ l \in {"total", "done"}
      BY <1>6, <3>2, EraseClear
    <3>4. l \in {"erase", IF j.dest = "data" THEN "done" ELSE "group"}
      BY <1>1, <1>6, <3>1
    <3>5. j.dest # "data" => /\ InLine(q, objs', n) /\ cloud # "s3"
                             /\ ToSet(k.todo) \intersect ToSet(q) = {}
      <4> SUFFICES ASSUME j.dest # "data"
                   PROVE  /\ InLine(q, objs', n) /\ cloud # "s3"
                          /\ ToSet(k.todo) \intersect ToSet(q) = {}
        OBVIOUS
      <4>1. InLine(q, objs, n) /\ cloud # "s3" /\ ToSet(j.todo) \intersect ToSet(q) = {}
        BY <3>2 DEF Queued
      <4> HIDE DEF q, h
      <4>2. \A x \in ToSet(q) : objs'[x] = objs[x]
        BY <1>1, <1>4, <4>1, LineHas, KeyFacts
      <4> QED BY <1>1, <4>1, <4>2, LineSame
    <3> HIDE DEF j, k, l, i, n
    <3>6. l = "done" \/ Queued(l, k, objs', n, cloud)
      BY <1>2, <3>4, <3>5 DEF Queued
    <3>7. Sound(objs', Saving(l, k))
      BY <2>3, <3>1, <3>2 DEF Sound
    <3>8. Exact(l, k, objs', cloud)
      BY <1>2, <2>1, <2>3, <3>3, <3>4, <3>6 DEF Exact, Saving, PutsFor, CombinesFor, n
    <3> QED BY <3>7, <3>8 DEF Good, l, k
  <2> QED BY <2>4, <2>5
<1> QED BY <1>5, <1>6

(* Only a call that fails counts.                                          *)
LEMMA FaultFacts ==
  ASSUME TypeInv, NEW r \in Reqs, Acts(r)
  PROVE  faults' \in {faults, faults + 1} /\ (LoseCall(r) => faults' = faults + 1)
BY DEF Acts, Put, Erase, LoseCall, Post, Patch, Combine, Others, Fail, PostArrive, TakePartial,
       Concatenate, SaveTotal, PostNoBody, PostBody, Arrive, LoadPatch, Declare, ReadChunk,
       WritePart, SaveOffset, Reread, PreFinish, Finalize, Done, NextGroup, FetchBlock, FetchPiece,
       Commit, Lock, HeadRequest, LoadGet, GetRead, Delete, DeleteParts,
       DeletePartsUnlisted, Deleted, outside

LEMMA ActiveGood ==
  ASSUME TypeInv, GatherInv, SteadyInv, KeptInv, NEW r \in Reqs, Acts(r), Active(r),
         faults' = faults, Good(pc[r], job[r], objs, cloud)
  PROVE  Good(pc'[r], job'[r], objs', cloud)
<1>1. CASE Put(r)
  BY <1>1, PutGood DEF Put
<1>2. CASE Erase(r)
  BY <1>2, EraseGood DEF Erase
<1>3. ~LoseCall(r)
  <2>1. faults # faults + 1
    BY ObjectAssumption DEF TypeInv, Counters
  <2> QED BY <2>1, FaultFacts
<1>4. CASE Fail(r)
  <2>1. pc[r] \notin {"save", "put"}
    BY <1>4 DEF Fail, Refused
  <2>2. ~Saving(pc[r], job[r])
    BY <2>1 DEF Saving, PutsFor
  <2>3. End(r) /\ objs' = objs
    BY <1>4 DEF Fail
  <2> QED BY <2>2, <2>3, EndGood
<1> QED BY <1>1, <1>2, <1>3, <1>4, PostGood, PatchGood, CombineGood, OthersGood DEF Acts

LEMMA ExactStep ==
  ASSUME TypeInv, GatherInv, SteadyInv, KeptInv, ExactInv, [Next]_vars
  PROVE  ExactInv'
<1>1. CASE UNCHANGED vars
  BY <1>1 DEF ExactInv, vars
<1>2. ASSUME NEW r \in Reqs, Acts(r), faults' = 0
      PROVE  /\ Sound(objs', \E q \in Reqs : Saving(pc'[q], job'[q]))
             /\ \A q \in Reqs : Exact(pc'[q], job'[q], objs', cloud')
  <2>1. faults = 0 /\ cloud' = cloud
    <3>1. faults \in Nat
      BY ObjectAssumption DEF TypeInv, Counters
    <3> QED BY <1>2, <3>1, FaultFacts, Frame
  <2>2. \A q \in Reqs : q # r => /\ pc'[q] = pc[q] /\ job'[q] = job[q]
                                 /\ pc[q] \in {"idle", "lock"} \/ objs' = objs
    BY <1>2, Bystander
  <2>3. \A q \in Reqs : q # r => Exact(pc'[q], job'[q], objs', cloud)
    <3> SUFFICES ASSUME NEW q \in Reqs, q # r PROVE Exact(pc'[q], job'[q], objs', cloud)
      OBVIOUS
    <3>1. CASE pc[q] \in {"idle", "lock"}
      BY <2>2, <3>1, ExactRest
    <3>2. CASE objs' = objs
      BY <2>1, <2>2, <3>2 DEF ExactInv
    <3> QED BY <2>2, <3>1, <3>2
  <2>4. CASE Active(r)
    <3>1. Good(pc'[r], job'[r], objs', cloud)
      <4>1. Good(pc[r], job[r], objs, cloud)
        BY <2>1, <2>4, GoodAt
      <4> QED BY <1>2, <2>1, <2>4, <4>1, ActiveGood
    <3> DEFINE s == Saving(pc'[r], job'[r])
               t == \E q \in Reqs : Saving(pc'[q], job'[q])
    <3>2. Sound(objs', s) /\ (s => t)
      BY <3>1 DEF Good
    <3> HIDE DEF s, t
    <3>3. Sound(objs', t)
      BY <3>2, SoundSame
    <3>4. Exact(pc'[r], job'[r], objs', cloud)
      BY <3>1 DEF Good
    <3> QED BY <2>1, <2>3, <3>3, <3>4 DEF t
  <2>5. CASE ~Active(r)
    <3>1. objs' = objs /\ Sound(objs, \E q \in Reqs : Saving(pc[q], job[q]))
      BY <1>2, <2>1, <2>5, Waiting DEF ExactInv
    <3>2. CASE life = "new"
      <4>1. objs["info"] = Absent
        BY <3>2 DEF SteadyInv, Found
      <4>2. Exact(pc'[r], job'[r], objs', cloud)
        BY <3>1, <4>1, GoodGone DEF Good
      <4>3. Sound(objs', \E q \in Reqs : Saving(pc'[q], job'[q]))
        BY <3>1, <4>1 DEF Sound
      <4> QED BY <2>1, <2>3, <4>2, <4>3
    <3>3. CASE life # "new"
      <4>1. pc[r] \in {"idle", "lock"} /\ pc'[r] \in {"idle", "lock", "load"}
        BY <1>2, <2>5, <3>3, Waiting DEF Active
      <4>2. ~Saving(pc[r], job[r]) /\ Exact(pc'[r], job'[r], objs', cloud)
        BY <4>1, ExactRest
      <4>3. (\E q \in Reqs : Saving(pc[q], job[q])) => \E q \in Reqs : Saving(pc'[q], job'[q])
        BY <2>2, <4>2
      <4>4. Sound(objs', \E q \in Reqs : Saving(pc'[q], job'[q]))
        BY <3>1, <4>3, SoundSame
      <4> QED BY <2>1, <2>3, <4>2, <4>4
    <3> QED BY <3>2, <3>3
  <2> QED BY <2>4, <2>5
<1> QED BY <1>1, <1>2 DEF ExactInv, Next, Acts

LEMMA ExactInit == Init => ExactInv
<1> SUFFICES ASSUME Init PROVE ExactInv
  OBVIOUS
<1>1. objs["info"] = Absent
  BY InitObjs, KeyFacts
<1>2. \A r \in Reqs : pc[r] = "idle"
  BY DEF Init
<1> QED BY <1>1, <1>2, ExactRest DEF ExactInv, Sound

LEMMA ExactInvariance ==
  ASSUME 0 \notin ChunkLens
  PROVE  Spec => [](TypeInv /\ SteadyInv /\ ExactInv)
<1> DEFINE I == TypeInv /\ GatherInv /\ SteadyInv /\ KeptInv
<1>1. Spec => []I
  BY KeptInvariance
<1>2. Init => ExactInv
  BY ExactInit
<1>3. I /\ ExactInv /\ [Next]_vars => ExactInv'
  BY ExactStep
<1>4. I => TypeInv /\ SteadyInv
  OBVIOUS
<1> QED BY <1>1, <1>2, <1>3, <1>4, PTL DEF Spec

(* As long as every call was answered, what a GET is answered with are the *)
(* bytes of the upload, in their order, however many requests wrote them   *)
(* and in however many groups and rounds their parts were combined, as     *)
(* long as no PATCH or POST has an empty body.                             *)
THEOREM DownloadWhole == ASSUME 0 \notin ChunkLens PROVE Spec => DownloadIsWhole
<1> DEFINE Read ==
      \A r \in Reqs :
        GetRead(r) /\ faults = 0 /\ ~Info.final => objs["data"] = Whole(job[r].info.size)
<1>1. TypeInv /\ SteadyInv /\ ExactInv => Read
  <2> SUFFICES ASSUME TypeInv, SteadyInv, ExactInv, NEW r \in Reqs, GetRead(r), faults = 0,
                      ~Info.final
               PROVE  objs["data"] = Whole(job[r].info.size)
    OBVIOUS
  <2>1. pc[r] = "read" /\ objs["data"] # Absent
    BY DEF GetRead
  <2>2. Info # Absent /\ Info = job[r].info
    BY <2>1 DEF SteadyInv, Steady
  <2>3. Sound(objs, \E q \in Reqs : Saving(pc[q], job[q]))
    BY DEF ExactInv
  <2> QED BY <2>1, <2>2, <2>3 DEF Sound, Info
<1> QED BY <1>1, ExactInvariance, PTL DEF DownloadIsWhole
=============================================================================
