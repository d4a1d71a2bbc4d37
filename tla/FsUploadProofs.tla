--------------------------- MODULE FsUploadProofs ---------------------------
(***************************************************************************)
(* Theorems about the files of an upload, for any number of requests,      *)
(* parts and bytes, any failures and any requests that are dropped.        *)
(***************************************************************************)
EXTENDS FsUpload, ListTheorems

Parts == ToSet(PartNames)
Writes == {"open", "fill"}
Active(r) == pc[r] \notin {"idle", "lock"}

-----------------------------------------------------------------------------
(* What a program point says of the locals of a request.                   *)

Jobs ==
  [op : {"none", "post", "patch", "get", "delete"}, at : Nat, n : Nat,
   info : Infos \union {Absent}, path : Paths,
   value : Seq(Infos) \union Seq(Nat), pos : Nat, then : Labels, todo : Seq(Paths), k : Nat,
   ghost : BOOLEAN]

WriteFits(j) ==
  /\ j.then \in {"combine", "body", "chunk", "save", "reread", "done"}
  /\ j.then \in {"combine", "body"} => j.op = "post"
  /\ j.then \in {"chunk", "save", "reread", "done"} => j.op \in {"post", "patch"}
  /\ j.then = "save" <=> j.path \in Parts
  /\ j.then = "done" <=> j.path = "data"
  /\ j.then \in {"save", "done"} => j.info \in Infos /\ j.value \in Seq(Nat)
  /\ j.then \notin {"save", "done"} => j.value \in Seq(Infos) /\ Len(j.value) = 1

(* The rest of a dropped finalize or concatenate.                          *)
Leftover(j) ==
  j.ghost /\ j.op \in {"post", "patch"} /\ j.path = "data" /\ j.value \in Seq(Nat)

Fits(l, j) ==
  /\ l = "idle" => j = Blank
  /\ l \in {"combine", "combining", "body"} => j.op = "post"
  /\ l \in {"lock", "load"} => j.op \in {"patch", "get", "delete"}
  /\ l = "declare" => j.op = "patch"
  /\ l = "read" => j.op = "get"
  /\ l = "list_left" => j.op = "delete" /\ j.then = "list_left"
  /\ l \in {"chunk", "count", "save", "reread", "finish", "list", "copy", "done"}
       => j.op \in {"post", "patch"}
  /\ l = "deleted" => j.op = "delete" /\ j.then = "deleted"
  /\ l \in Writes => WriteFits(j) \/ Leftover(j)
  /\ j.pos # 0 => l = "fill" /\ j.ghost /\ j.path = "data"
  /\ l \in {"sweep", "remove"} =>
       \/ j.op \in {"post", "patch"} /\ j.then = "done" /\ j.info \in Infos
       \/ j.op = "delete" /\ j.then \in {"list_left", "deleted"}
  /\ l \in {"count", "save", "finish", "list", "copy", "done", "read"} => j.info \in Infos
  /\ l = "copy" => j.k \in 1..Len(j.todo) /\ j.todo \in Seq(Parts) /\ j.then = "done"
  /\ j.ghost => l \in FileOps

(* An info counts no byte beyond its size, or s: a length was declared too *)
(* late.  A request keeps to the size it read, whatever the info is by now. *)
Bounded(i, s) == i.size # NoLen /\ ~s => i.offset <= i.size

Sized(l, j, s) ==
  /\ l \in Writes /\ j.path = "info" => Bounded(j.value[1], s)
  /\ l \in {"count", "save"} \/ (l \in Writes /\ j.then = "save" /\ ~j.ghost) =>
       (j.info.size # NoLen => j.at + j.n <= j.info.size)

FilesOK ==
  /\ DOMAIN files = Paths
  /\ files["info"] # Absent =>
       /\ files["info"] \in Seq(Infos) /\ Len(files["info"]) <= 1
       /\ files["info"] # <<>> => Bounded(Info, short)
  /\ \A p \in Paths \ {"info"} : files[p] = Absent \/ files[p] \in Seq(Nat)

(* Who may be at work: the POST is alone with the upload it makes; the     *)
(* others have the lock, until one is dropped while its thread writes.     *)
Order ==
  /\ life = "new" => \A r \in Reqs : pc[r] = "idle"
  /\ life = "made" => \A r \in Reqs : job[r].op \in {"post", "none"}
  /\ \A r \in Reqs : job[r].op = "post" =>
       life = "made" /\ \A q \in Reqs : q # r => pc[q] = "idle"
  /\ cancels = 0 => \A r \in Reqs : Active(r) /\ job[r].op # "post" => owner = r

Counters ==
  /\ owner \in Reqs \union {NoReq}
  /\ life \in {"new", "made", "known", "doomed", "gone"}
  /\ told \in Nat /\ finished \in BOOLEAN /\ short \in BOOLEAN
  /\ faults \in 0..MaxFaults /\ cancels \in 0..MaxCancels

Placed ==
  /\ pc \in [Reqs -> Labels] /\ job \in [Reqs -> Jobs]
  /\ \A r \in Reqs :
       /\ Fits(pc[r], job[r]) /\ Sized(pc[r], job[r], short)
       /\ job[r].ghost => cancels > 0
       /\ pc[r] = "combining" => files["data"] # Absent

TypeInv == FilesOK /\ Counters /\ Placed /\ Order

-----------------------------------------------------------------------------
(* The lists of files.                                                     *)

LEMMA PathFacts ==
  /\ Parts \subseteq Paths /\ "info" \notin Parts /\ "data" \notin Parts
  /\ "info" \in Paths /\ "data" \in Paths
  /\ PartNames \in Seq(Parts) /\ Len(PartNames) \in Nat
  /\ \A i \in 1..Len(PartNames) : PartNames[i] \in Parts
  /\ \A i, j \in 1..Len(PartNames) : PartNames[i] = PartNames[j] => i = j
  /\ \A p \in Parts : \E i \in 1..Len(PartNames) : p = PartNames[i]
<1>1. PartNames \in Seq(STRING \ {"info", "data"}) /\ IsInjective(PartNames)
  BY FsAssumption
<1>2. /\ Len(PartNames) \in Nat /\ DOMAIN PartNames = 1..Len(PartNames)
      /\ \A i \in 1..Len(PartNames) : PartNames[i] \in STRING \ {"info", "data"}
  BY <1>1, LenProperties, ElementOfSeq
<1>3. \A i \in 1..Len(PartNames) : PartNames[i] \in Parts
  BY <1>2 DEF Parts, ToSet
<1>4. \A p \in Parts : \E i \in 1..Len(PartNames) : p = PartNames[i]
  BY <1>2 DEF Parts, ToSet
<1>5. PartNames \in Seq(Parts)
  BY <1>1, <1>2, <1>3, SeqDef
<1> QED BY <1>1, <1>2, <1>3, <1>4, <1>5 DEF IsInjective, Paths, Parts

(* PartsSorted has the part files there are, and no others.                *)
LEMMA SortedFacts ==
  /\ PartsSorted \in Seq({p \in Parts : files[p] # Absent})
  /\ PartsSorted \in Seq(Parts) /\ PartsSorted \in Seq(Paths)
  /\ ToSet(PartsSorted) = {p \in Parts : files[p] # Absent}
<1> DEFINE S == {p \in Parts : files[p] # Absent}
           one == [i \in DOMAIN PartNames |-> Listed(PartNames[i])]
<1>1. DOMAIN PartNames = 1..Len(PartNames)
  BY PathFacts, LenProperties
<1>2. one \in Seq(Seq(S)) /\ Len(one) = Len(PartNames)
  <2>1. \A i \in 1..Len(PartNames) : Listed(PartNames[i]) \in Seq(S)
    <3> TAKE i \in 1..Len(PartNames)
    <3>1. PartNames[i] \in Parts
      BY PathFacts
    <3>2. CASE files[PartNames[i]] = Absent
      BY <3>2, EmptySeq DEF Listed
    <3>3. CASE files[PartNames[i]] # Absent
      <4>1. PartNames[i] \in S
        BY <3>1, <3>3
      <4> HIDE DEF S
      <4>2. <<PartNames[i]>> \in Seq(S)
        BY <4>1
      <4> QED BY <3>3, <4>2 DEF Listed
    <3> QED BY <3>2, <3>3
  <2> HIDE DEF S
  <2> QED BY <1>1, <2>1, PathFacts
<1> HIDE DEF S
<1>3. PartsSorted \in Seq(S) /\ \A i \in 1..Len(one) : Within(one[i], PartsSorted)
  BY <1>2, FlattenFacts DEF PartsSorted
<1>4. S \subseteq Parts /\ S \subseteq Paths
  BY PathFacts DEF S
<1>5. ToSet(PartsSorted) \subseteq S
  BY <1>3, ElementOfSeq, LenProperties DEF ToSet
<1>6. ASSUME NEW p \in S PROVE p \in ToSet(PartsSorted)
  <2>1. PICK i \in 1..Len(PartNames) : p = PartNames[i]
    BY PathFacts DEF S
  <2>2. one[i] = <<p>>
    BY <1>1, <1>6, <2>1 DEF S, Listed
  <2>3. Within(<<p>>, PartsSorted)
    BY <1>2, <1>3, <2>1, <2>2
  <2>4. PICK j \in 0..Len(PartsSorted) : /\ j + Len(<<p>>) <= Len(PartsSorted)
                                         /\ \A m \in 1..Len(<<p>>) : PartsSorted[j + m] = <<p>>[m]
    BY <2>3 DEF Within
  <2>5. PartsSorted[j + 1] = p /\ j + 1 \in 1..Len(PartsSorted)
    BY <1>3, <2>4, LenProperties
  <2> QED BY <1>3, <2>5, LenProperties DEF ToSet
<1>7. \A s \in Seq(S) : s \in Seq(Parts) /\ s \in Seq(Paths)
  BY <1>4, SeqMonotonic
<1> QED BY <1>3, <1>5, <1>6, <1>7 DEF S

(* What a write leaves of a file.                                          *)
LEMMA LongerFacts ==
  ASSUME NEW a \in Nat, NEW b \in Nat
  PROVE  Max({a, b}) = IF a < b THEN b ELSE a
<1> DEFINE m == IF a < b THEN b ELSE a
<1>1. m \in {a, b} /\ \A y \in {a, b} : m >= y
  OBVIOUS
<1>2. \A x \in {a, b} : (\A y \in {a, b} : x >= y) => x = m
  OBVIOUS
<1> QED BY <1>1, <1>2 DEF Max

LEMMA OverlaidFacts ==
  ASSUME NEW S, NEW old \in Seq(S), NEW new \in Seq(S), Absent \notin Seq(S)
  PROVE  /\ Overlaid(old, 0, new) \in Seq(S) /\ Overlaid(Absent, 0, new) = Absent
         /\ Len(Overlaid(old, 0, new)) = IF Len(new) < Len(old) THEN Len(old) ELSE Len(new)
         /\ old = <<>> => Overlaid(old, 0, new) = new
         /\ new = <<>> => Overlaid(old, 0, new) = old
         /\ new # <<>> => Overlaid(old, 0, new)[1] = new[1]
<1>1. /\ Len(old) \in Nat /\ Len(new) \in Nat /\ \A i \in 1..Len(old) : old[i] \in S
      /\ \A i \in 1..Len(new) : new[i] \in S
      /\ new # <<>> => Len(new) > 0
      /\ old = <<>> => Len(old) = 0
  BY LenProperties, ElementOfSeq, EmptySeq
<1>2. Overlaid(Absent, 0, new) = Absent /\ old # Absent /\ (new = <<>> => Overlaid(old, 0, new) = old)
  BY DEF Overlaid
<1>3. CASE new = <<>>
  BY <1>1, <1>2, <1>3, EmptySeq
<1>4. CASE new # <<>>
  <2> DEFINE n == IF Len(new) < Len(old) THEN Len(old) ELSE Len(new)
             c == [i \in 1..n |-> IF i <= Len(new) THEN new[i] ELSE old[i]]
  <2>1. Max({Len(old), 0 + Len(new)}) = n /\ n \in Nat
    BY <1>1, LongerFacts
  <2>2. Overlaid(old, 0, new) =
          [i \in 1..n |-> CASE i \in (0 + 1)..(0 + Len(new)) -> new[i - 0]
                            [] i <= 0 /\ i > Len(old) -> 0
                            [] OTHER -> old[i]]
    BY <1>2, <1>4, <2>1 DEF Overlaid
  <2>3. ASSUME NEW i \in 1..n
        PROVE  (CASE i \in (0 + 1)..(0 + Len(new)) -> new[i - 0]
                  [] i <= 0 /\ i > Len(old) -> 0
                  [] OTHER -> old[i]) = IF i <= Len(new) THEN new[i] ELSE old[i]
    <3>1. i \in Nat /\ i >= 1 /\ i - 0 = i /\ ~(i <= 0)
      BY <2>1
    <3>2. i \in (0 + 1)..(0 + Len(new)) <=> i <= Len(new)
      BY <1>1, <3>1
    <3> QED BY <3>1, <3>2
  <2>4. Overlaid(old, 0, new) = c
    BY <2>2, <2>3
  <2>5. \A i \in 1..n : (IF i <= Len(new) THEN new[i] ELSE old[i]) \in S
    BY <1>1, <2>1
  <2>6. c \in Seq(S) /\ Len(c) = n
    BY <2>1, <2>5
  <2>7. c[1] = new[1]
    BY <1>1, <1>4, <2>1
  <2>8. old = <<>> => c = new
    <3> SUFFICES ASSUME old = <<>> PROVE c = new
      OBVIOUS
    <3>1. Len(c) = Len(new) /\ \A i \in 1..Len(new) : c[i] = new[i]
      BY <1>1, <2>1, <2>6
    <3> QED BY <2>6, <3>1, SeqEqual
  <2> HIDE DEF c
  <2> QED BY <1>2, <1>4, <2>4, <2>6, <2>7, <2>8
<1> QED BY <1>3, <1>4

LEMMA OverlaidBytes ==
  ASSUME NEW old \in Seq(Nat), NEW new \in Seq(Nat), NEW at \in Nat
  PROVE  Overlaid(old, at, new) \in Seq(Nat)
<1>1. /\ Len(old) \in Nat /\ Len(new) \in Nat /\ \A i \in 1..Len(old) : old[i] \in Nat
      /\ \A i \in 1..Len(new) : new[i] \in Nat
  BY LenProperties, ElementOfSeq
<1>2. CASE old = Absent \/ new = <<>>
  BY <1>2 DEF Overlaid
<1>3. CASE old # Absent /\ new # <<>>
  <2> DEFINE n == IF Len(old) < at + Len(new) THEN at + Len(new) ELSE Len(old)
             E(i) == CASE i \in (at + 1)..(at + Len(new)) -> new[i - at]
                       [] i <= at /\ i > Len(old) -> 0
                       [] OTHER -> old[i]
  <2>1. Max({Len(old), at + Len(new)}) = n /\ n \in Nat
    BY <1>1, LongerFacts
  <2>2. Overlaid(old, at, new) = [i \in 1..n |-> E(i)]
    BY <1>3, <2>1 DEF Overlaid
  <2>3. ASSUME NEW i \in 1..n PROVE E(i) \in Nat
    <3>1. CASE i \in (at + 1)..(at + Len(new))
      <4>1. i - at \in 1..Len(new)
        BY <1>1, <2>1, <3>1
      <4>2. ~(i <= at /\ i > Len(old))
        BY <3>1
      <4> QED BY <1>1, <3>1, <4>1, <4>2
    <3>2. CASE i <= at /\ i > Len(old)
      <4>1. ~(i \in (at + 1)..(at + Len(new)))
        BY <3>2
      <4> QED BY <3>2, <4>1
    <3>3. CASE ~(i \in (at + 1)..(at + Len(new))) /\ ~(i <= at /\ i > Len(old))
      <4>1. i \in 1..Len(old)
        BY <1>1, <2>1, <3>3
      <4> QED BY <1>1, <3>3, <4>1
    <3> QED BY <3>1, <3>2, <3>3
  <2> HIDE DEF E, n
  <2> QED BY <2>1, <2>2, <2>3
<1> QED BY <1>2, <1>3

(* Infos, files and Absent are told apart.                                 *)
LEMMA AbsentFacts ==
  /\ Absent \notin Seq(Nat) /\ Absent \notin Seq(Infos) /\ Absent # <<>>
  /\ NoLen \notin Nat /\ NoReq \notin Reqs
BY FsAssumption, EmptySeq

-----------------------------------------------------------------------------
(* Steps of one request.                                                   *)

Moves(r) ==
  /\ pc' \in [Reqs -> Labels] /\ job' \in [Reqs -> Jobs]
  /\ \A q \in Reqs : q # r => pc'[q] = pc[q] /\ job'[q] = job[q]
  /\ Fits(pc'[r], job'[r])

LEMMA BlankFits ==
  /\ Blank \in Jobs /\ Fits("idle", Blank) /\ \A s \in BOOLEAN : Sized("idle", Blank, s)
  /\ Blank.op = "none" /\ Blank.ghost = FALSE /\ Blank.pos = 0
<1>1. <<>> \in Seq(Infos) /\ <<>> \in Seq(Paths)
  BY EmptySeq
<1>2. "info" \in Paths /\ "idle" \in Labels
  BY PathFacts DEF Labels
<1> QED BY <1>1, <1>2 DEF Blank, Jobs, Fits, Sized, Writes

(* Only an idle request has no operation.                                  *)
LEMMA OpFacts ==
  ASSUME TypeInv, NEW r \in Reqs
  PROVE  /\ pc[r] = "idle" <=> job[r].op = "none"
         /\ job[r] \in Jobs /\ pc[r] \in Labels /\ Fits(pc[r], job[r])
         /\ pc[r] = "idle" => job[r] = Blank
<1>1. /\ job[r] \in Jobs /\ pc[r] \in Labels /\ Fits(pc[r], job[r])
  BY DEF TypeInv, Placed
<1>2. pc[r] = "idle" => job[r] = Blank
  BY <1>1 DEF Fits
<1>3. pc[r] # "idle" => job[r].op # "none"
  BY <1>1 DEF Fits, WriteFits, Leftover, Labels, FileOps, Writes
<1> QED BY <1>1, <1>2, <1>3, BlankFits

(* A POST that gathers the partials of a final upload is alone.            *)
LEMMA CombiningAlone ==
  ASSUME TypeInv, NEW q \in Reqs, NEW r \in Reqs, q # r, pc[q] = "combining"
  PROVE  pc[r] = "idle" /\ life = "made"
<1>1. job[q].op = "post"
  BY OpFacts DEF Fits
<1> QED BY <1>1 DEF TypeInv, Order

LEMMA PlacedKeeps ==
  ASSUME TypeInv, NEW r \in Reqs, Moves(r), Sized(pc'[r], job'[r], short'),
         short => short', short' \in BOOLEAN, cancels' \in {cancels, cancels + 1},
         job'[r].ghost => cancels' > 0,
         pc'[r] = "combining" => files'["data"] # Absent,
         pc[r] # "idle" \/ files' = files
  PROVE  Placed'
<1> SUFFICES ASSUME NEW q \in Reqs
             PROVE  /\ Fits(pc'[q], job'[q]) /\ Sized(pc'[q], job'[q], short')
                    /\ job'[q].ghost => cancels' > 0
                    /\ pc'[q] = "combining" => files'["data"] # Absent
  BY DEF Placed, Moves
<1>1. CASE q = r
  BY <1>1 DEF Moves
<1>2. CASE q # r
  <2>1. /\ Fits(pc[q], job[q]) /\ Sized(pc[q], job[q], short)
        /\ job[q].ghost => cancels > 0
        /\ pc[q] = "combining" => files["data"] # Absent
        /\ pc'[q] = pc[q] /\ job'[q] = job[q]
        /\ cancels \in Nat
    BY <1>2, FsAssumption DEF TypeInv, Placed, Moves, Counters
  <2>2. Sized(pc[q], job[q], short')
    BY <2>1 DEF Sized, Bounded
  <2>3. pc[q] = "combining" => files' = files
    BY <1>2, CombiningAlone
  <2> QED BY <2>1, <2>2, <2>3
<1> QED BY <1>1, <1>2

(* A handler goes on with the request it serves.                           *)
LEMMA GoesOn ==
  ASSUME TypeInv, NEW r \in Reqs, Active(r), Moves(r),
         job'[r].op = job[r].op, job'[r].ghost = job[r].ghost,
         Sized(pc'[r], job'[r], short),
         pc'[r] = "combining" => files'["data"] # Absent,
         FilesOK', UNCHANGED <<owner, outside>>
  PROVE  TypeInv'
<1>1. short \in BOOLEAN /\ short' = short /\ cancels' = cancels /\ life' = life /\ owner' = owner
  BY DEF TypeInv, Counters, outside
<1>2. Placed'
  <2>1. job[r].ghost => cancels > 0
    BY DEF TypeInv, Placed
  <2> QED BY <1>1, <2>1, PlacedKeeps DEF Active
<1>3. Counters'
  BY DEF TypeInv, Counters, outside
<1>4. Order'
  <2>1. \A q \in Reqs : /\ q # r => pc'[q] = pc[q]
                        /\ job'[q].op = job[q].op
    BY DEF Moves
  <2>2. life # "new"
    BY DEF TypeInv, Order, Active
  <2>3. \A q \in Reqs : q # r /\ job[q].op = "post" => FALSE
    BY DEF TypeInv, Order, Active
  <2> QED BY <1>1, <2>1, <2>2, <2>3 DEF TypeInv, Order, Active
<1> QED BY <1>2, <1>3, <1>4 DEF TypeInv

(* A handler has answered, or is given up; a thread that wrote for a gone  *)
(* request gives no lock back.                                             *)
LEMMA Ends ==
  ASSUME TypeInv, NEW r \in Reqs, pc[r] # "idle", FilesOK',
         pc' = [pc EXCEPT ![r] = "idle"], job' = [job EXCEPT ![r] = Blank],
         owner' \in {owner, IF owner = r THEN NoReq ELSE owner},
         told' \in Nat, finished' \in BOOLEAN, short' = short, faults' \in 0..MaxFaults,
         cancels' \in {cancels, cancels + 1}, cancels' \in 0..MaxCancels,
         life' \in {life, "known", "gone"}, life # "made" \/ life' \in {"made", "known"},
         life = "new" => life' = "new"
  PROVE  TypeInv'
<1>2. Moves(r) /\ pc'[r] = "idle" /\ job'[r] = Blank
  BY BlankFits DEF Moves, TypeInv, Placed, Labels
<1>3. Placed'
  <2>1. short' \in BOOLEAN
    BY DEF TypeInv, Counters
  <2> QED BY <1>2, <2>1, PlacedKeeps, BlankFits
<1>4. Counters'
  BY DEF TypeInv, Counters
<1>5. Order'
  <2>1. \A q \in Reqs : q # r => pc'[q] = pc[q] /\ job'[q] = job[q]
    BY <1>2 DEF Moves
  <2>2. \A q \in Reqs : job[q].op = "post" => q = r
    BY DEF TypeInv, Order
  <2>3. job'[r].op = "none" /\ ~Active(r)'
    BY <1>2, BlankFits DEF Active
  <2>4. life # "new" /\ life' # "new"
    BY DEF TypeInv, Order
  <2>5. life' = "made" => life = "made"
    OBVIOUS
  <2>6. cancels' = 0 => cancels = 0
    BY FsAssumption DEF TypeInv, Counters
  <2>7. ASSUME cancels' = 0, NEW q \in Reqs, Active(q)', job'[q].op # "post" PROVE owner' = q
    <3>1. q # r /\ Active(q) /\ job[q].op # "post"
      BY <2>1, <2>3, <2>7 DEF Active
    <3>2. owner = q
      BY <2>6, <2>7, <3>1 DEF TypeInv, Order
    <3> QED BY <3>1, <3>2
  <2> QED BY <2>1, <2>2, <2>3, <2>4, <2>5, <2>7 DEF TypeInv, Order
<1> QED BY <1>3, <1>4, <1>5 DEF TypeInv


LEMMA FilesSame == ASSUME TypeInv, files' = files, short' = short PROVE FilesOK'
BY DEF TypeInv, FilesOK, Info

LEMMA FileChanges ==
  ASSUME TypeInv, NEW p \in Paths, NEW c, files' = [files EXCEPT ![p] = c], short' = short,
         p = "info" => \/ c = Absent
                       \/ /\ c \in Seq(Infos) /\ Len(c) <= 1
                          /\ c # <<>> => Bounded(c[1], short),
         p # "info" => c = Absent \/ c \in Seq(Nat)
  PROVE  FilesOK'
<1>1. DOMAIN files' = Paths /\ \A q \in Paths : files'[q] = IF q = p THEN c ELSE files[q]
  BY DEF TypeInv, FilesOK
<1>2. "info" \in Paths
  BY PathFacts
<1> QED BY <1>1, <1>2 DEF TypeInv, FilesOK, Info

-----------------------------------------------------------------------------
(* Typing: the file operations.                                            *)

LEMMA OpenType == ASSUME TypeInv, NEW r \in Reqs, OpenFile(r) PROVE TypeInv'
<1> DEFINE p == job[r].path
<1>1. job[r] \in Jobs /\ Fits("open", job[r]) /\ pc[r] = "open" /\ p \in Paths
  BY OpFacts DEF OpenFile, Jobs
<1>2. FilesOK'
  <2>1. <<>> \in Seq(Infos) /\ <<>> \in Seq(Nat) /\ Len(<<>>) = 0
    BY EmptySeq
  <2>2. files' = [files EXCEPT ![p] = <<>>] /\ short' = short
    BY DEF OpenFile, outside
  <2> DEFINE c == <<>>
  <2>3. c \in Seq(Infos) /\ Len(c) <= 1 /\ c \in Seq(Nat) /\ ~(c # <<>>)
    BY <2>1
  <2>4. files' = [files EXCEPT ![p] = c]
    BY <2>2
  <2> HIDE DEF p, c
  <2> QED BY <1>1, <2>2, <2>3, <2>4, FileChanges
<1>3. Moves(r) /\ pc'[r] = "fill" /\ job' = job
  BY <1>1 DEF OpenFile, Goto, Moves, TypeInv, Placed, Fits, Labels, FileOps, Writes
<1>4. Sized("fill", job[r], short)
  BY <1>1 DEF TypeInv, Placed, Sized, Writes
<1> QED BY <1>1, <1>2, <1>3, <1>4, GoesOn DEF OpenFile, Active

(* The handler goes on at the label it left with the thread.               *)
LEMMA ThenFits ==
  ASSUME NEW j \in Jobs, WriteFits(j), ~j.ghost, j.pos = 0, NEW s \in BOOLEAN, Sized("fill", j, s)
  PROVE  Fits(j.then, j) /\ Sized(j.then, j, s) /\ j.then \in Labels /\ j.then # "combining"
BY DEF WriteFits, Fits, Sized, Labels, FileOps, Writes, Jobs

(* What a thread has written, all of its value or the beginning of it.     *)
LEMMA FillFiles ==
  ASSUME TypeInv, NEW r \in Reqs, pc[r] = "fill", NEW some,
         some = job[r].value \/ some \in Firsts(job[r].value),
         files' = [files EXCEPT ![job[r].path] = Overlaid(@, job[r].pos, some)], short' = short
  PROVE  FilesOK'
<1> DEFINE p == job[r].path
           v == job[r].value
           c == Overlaid(files[p], job[r].pos, some)
<1>1. /\ job[r] \in Jobs /\ Sized("fill", job[r], short) /\ p \in Paths
      /\ WriteFits(job[r]) \/ (p = "data" /\ v \in Seq(Nat))
      /\ job[r].pos \in Nat /\ (p = "info" => job[r].pos = 0)
  BY OpFacts DEF Fits, Leftover, Writes, Jobs, TypeInv, Placed
<1>2. files' = [files EXCEPT ![p] = c]
  OBVIOUS
<1>3. CASE p = "info"
  <2>1. v \in Seq(Infos) /\ Len(v) = 1 /\ Bounded(v[1], short)
    BY <1>1, <1>3, PathFacts DEF WriteFits, Sized, Writes
  <2>2. some \in Seq(Infos) /\ Len(some) <= 1 /\ (some # <<>> => some = v)
    <3>1. ASSUME NEW n \in 0..Len(v), some = SubSeq(v, 1, n)
          PROVE  some \in Seq(Infos) /\ Len(some) <= 1 /\ (some # <<>> => some = v)
      <4>1. CASE n = 0
        BY <2>1, <3>1, <4>1
      <4>2. CASE n # 0
        <5>1. n = Len(v)
          BY <2>1, <4>2
        <5> QED BY <2>1, <3>1, <5>1
      <4> QED BY <4>1, <4>2
    <3> QED BY <2>1, <3>1 DEF Firsts
  <2>3. CASE files[p] = Absent
    BY <1>1, <1>2, <1>3, <2>3, FileChanges, AbsentFacts DEF Overlaid
  <2>4. CASE files[p] # Absent
    <3> DEFINE old == files[p]
    <3>1. old \in Seq(Infos) /\ Len(old) <= 1 /\ (old # <<>> => Bounded(old[1], short))
      BY <1>3, <2>4 DEF TypeInv, FilesOK, Info
    <3>2. Len(old) \in Nat /\ Len(some) \in Nat /\ (Len(some) = 0 <=> some = <<>>)
      BY <2>2, <3>1, LenProperties, EmptySeq
    <3>3. c = Overlaid(old, 0, some)
      BY <1>1, <1>3
    <3> HIDE DEF old, c
    <3>5. /\ c \in Seq(Infos) /\ Len(c) <= 1
          /\ some = <<>> => c = old
          /\ some # <<>> => c[1] = some[1]
      BY <2>2, <3>1, <3>2, <3>3, OverlaidFacts, AbsentFacts
    <3>4. c # <<>> => Bounded(c[1], short)
      BY <2>1, <2>2, <3>1, <3>5
    <3> HIDE DEF p
    <3> QED BY <1>1, <1>2, <1>3, <3>5, <3>4, FileChanges
  <2> QED BY <2>3, <2>4
<1>4. CASE p # "info"
  <2>1. v \in Seq(Nat)
    BY <1>1, <1>4, PathFacts DEF WriteFits, Paths, Parts
  <2>2. some \in Seq(Nat)
    <3>1. ASSUME NEW n \in 0..Len(v), some = SubSeq(v, 1, n)
          PROVE  some \in Seq(Nat)
      <4>1. Len(v) \in Nat /\ \A m \in 1..Len(v) : v[m] \in Nat
        BY <2>1, LenProperties, ElementOfSeq
      <4> HIDE DEF v
      <4>2. \A m \in 1..n : v[m] \in Nat
        BY <4>1
      <4> QED BY <3>1, <4>2
    <3> QED BY <2>1, <3>1 DEF Firsts
  <2>3. c = Absent \/ c \in Seq(Nat)
    <3>1. files[p] = Absent \/ files[p] \in Seq(Nat)
      BY <1>1, <1>4 DEF TypeInv, FilesOK
    <3> QED BY <1>1, <2>2, <3>1, OverlaidBytes DEF Overlaid
  <2> HIDE DEF c, p
  <2> QED BY <1>1, <1>2, <1>4, <2>3, FileChanges
<1> QED BY <1>3, <1>4


LEMMA ResumeType ==
  ASSUME TypeInv, NEW r \in Reqs, Active(r), NEW l, Resume(r, l),
         ~job[r].ghost => l \in Labels \ {"combining"},
         ~job[r].ghost => Fits(l, job[r]) /\ Sized(l, job[r], short),
         FilesOK', UNCHANGED <<owner, outside>>
  PROVE  TypeInv'
<1>1. CASE job[r].ghost
  <2>1. pc' = [pc EXCEPT ![r] = "idle"] /\ job' = [job EXCEPT ![r] = Blank]
    BY <1>1 DEF Resume, Goto
  <2>2. /\ life' = life /\ told' = told /\ finished' = finished /\ short' = short
        /\ faults' = faults /\ cancels' = cancels
    BY DEF outside
  <2>3. life # "new" /\ told' \in Nat /\ finished' \in BOOLEAN /\ faults' \in 0..MaxFaults
        /\ cancels' \in 0..MaxCancels /\ pc[r] # "idle"
    BY <2>2 DEF TypeInv, Counters, Order, Active
  <2> QED BY <2>1, <2>2, <2>3, Ends
<1>2. CASE ~job[r].ghost
  <2>1. Moves(r) /\ pc'[r] = l /\ job' = job
    BY <1>2 DEF Resume, Goto, Moves, TypeInv, Placed
  <2> QED BY <1>2, <2>1, GoesOn
<1> QED BY <1>1, <1>2

LEMMA FillType == ASSUME TypeInv, NEW r \in Reqs, FillFile(r) PROVE TypeInv'
<1>1. /\ pc[r] = "fill" /\ job[r] \in Jobs /\ Active(r) /\ Fits("fill", job[r])
      /\ Sized("fill", job[r], short) /\ short \in BOOLEAN
  BY OpFacts DEF FillFile, Active, TypeInv, Placed, Counters
<1>0. ~job[r].ghost => WriteFits(job[r]) /\ job[r].pos = 0
  BY <1>1 DEF Fits, Leftover, Writes
<1>2. FilesOK'
  BY <1>1, FillFiles DEF FillFile, outside
<1>3. ~job[r].ghost => job[r].then \in Labels \ {"combining"}
  BY <1>0 DEF WriteFits, Labels, FileOps
<1>4. ~job[r].ghost => Fits(job[r].then, job[r]) /\ Sized(job[r].then, job[r], short)
  BY <1>0, <1>1, ThenFits
<1>5. Resume(r, job[r].then) /\ UNCHANGED <<owner, outside>>
  BY DEF FillFile
<1> QED BY <1>1, <1>2, <1>3, <1>4, <1>5, ResumeType

LEMMA RemoveType == ASSUME TypeInv, NEW r \in Reqs, RemoveFile(r) PROVE TypeInv'
<1>1. /\ pc[r] = "remove" /\ job[r] \in Jobs /\ Fits("remove", job[r]) /\ Active(r)
      /\ job[r].path \in Paths
  BY OpFacts DEF RemoveFile, Active, Jobs
<1>2. FilesOK'
  <2> DEFINE p == job[r].path
  <2>1. files' = [files EXCEPT ![p] = Absent] /\ short' = short
    BY DEF RemoveFile, outside
  <2> HIDE DEF p
  <2> QED BY <1>1, <2>1, FileChanges DEF p
<1>3. ~job[r].ghost => Fits("sweep", job[r]) /\ Sized("sweep", job[r], short)
  BY <1>1 DEF Fits, Sized, Writes
<1> QED BY <1>1, <1>2, <1>3, ResumeType DEF RemoveFile, Labels

LEMMA SweepType == ASSUME TypeInv, NEW r \in Reqs, Sweep(r) PROVE TypeInv'
<1>1. /\ pc[r] = "sweep" /\ job[r] \in Jobs /\ Fits("sweep", job[r]) /\ Active(r)
      /\ job[r].todo \in Seq(Paths) /\ ~job[r].ghost
  BY OpFacts DEF Sweep, Active, Jobs, Fits, FileOps
<1>2. FilesOK'
  BY FilesSame DEF Sweep, outside
<1>3. CASE job[r].todo = <<>>
  <2>1. /\ job[r].then \in {"done", "list_left", "deleted"} /\ Fits(job[r].then, job[r])
        /\ Sized(job[r].then, job[r], short)
    BY <1>1 DEF Fits, Sized, Writes
  <2>2. pc' = [pc EXCEPT ![r] = job[r].then] /\ job' = job
    BY <1>3 DEF Sweep, Goto
  <2>3. Moves(r) /\ pc'[r] = job[r].then
    BY <2>1, <2>2 DEF Moves, TypeInv, Placed, Labels
  <2> QED BY <1>1, <1>2, <2>1, <2>2, <2>3, GoesOn DEF Sweep
<1>4. CASE job[r].todo # <<>>
  <2> DEFINE j == [job[r] EXCEPT !.path = Head(job[r].todo), !.todo = Tail(@)]
  <2>1. job' = [job EXCEPT ![r] = j] /\ pc' = [pc EXCEPT ![r] = "remove"]
    BY <1>4 DEF Sweep, Goto
  <2>2. Head(job[r].todo) \in Paths /\ Tail(job[r].todo) \in Seq(Paths)
    BY <1>1, <1>4, HeadTailProperties
  <2>3. j \in Jobs /\ j.op = job[r].op /\ j.ghost = job[r].ghost /\ j.pos = job[r].pos /\ j.then = job[r].then
        /\ j.info = job[r].info
    BY <1>1, <2>2 DEF Jobs
  <2>4. Fits("remove", j) /\ Sized("remove", j, short)
    BY <1>1, <2>3 DEF Fits, Sized, Writes, FileOps
  <2> HIDE DEF j
  <2>5. Moves(r) /\ pc'[r] = "remove" /\ job'[r] = j
    BY <2>1, <2>3, <2>4 DEF Moves, TypeInv, Placed, Labels, FileOps
  <2> QED BY <1>1, <1>2, <2>3, <2>4, <2>5, GoesOn DEF Sweep
<1> QED BY <1>3, <1>4


-----------------------------------------------------------------------------
(* Typing: the handlers.                                                   *)

(* A step of a handler between two file operations.                        *)
LEMMA StepType ==
  ASSUME TypeInv, NEW r \in Reqs, Active(r), NEW l \in Labels, NEW j \in Jobs,
         Goto(r, l), job' = [job EXCEPT ![r] = j], j.op = job[r].op, j.ghost = job[r].ghost,
         Fits(l, j), Sized(l, j, short), l = "combining" => files'["data"] # Absent,
         FilesOK', UNCHANGED <<owner, outside>>
  PROVE  TypeInv'
<1>1. Moves(r) /\ pc'[r] = l /\ job'[r] = j
  BY DEF Moves, TypeInv, Placed, Goto
<1> QED BY <1>1, GoesOn

LEMMA GotoType ==
  ASSUME TypeInv, NEW r \in Reqs, Active(r), NEW l \in Labels,
         Goto(r, l), job' = job, Fits(l, job[r]), Sized(l, job[r], short),
         l = "combining" => files'["data"] # Absent, FilesOK', UNCHANGED <<owner, outside>>
  PROVE  TypeInv'
<1>1. Moves(r) /\ pc'[r] = l
  BY DEF Moves, TypeInv, Placed, Goto
<1> QED BY <1>1, GoesOn

LEMMA PostArriveType ==
  ASSUME TypeInv, NEW r \in Reqs, NEW size \in Sizes, NEW kind \in Kinds,
         PostArrive(r, size, kind)
  PROVE  TypeInv'
<1> DEFINE i == [size |-> size, offset |-> 0, final |-> kind = "final"]
           then == IF kind = "final" THEN "combine" ELSE "body"
           j == [Blank EXCEPT !.op = "post", !.path = "info", !.value = <<i>>, !.then = then]
<1>1. /\ pc[r] = "idle" /\ life = "new" /\ life' = "made"
      /\ pc' = [pc EXCEPT ![r] = "open"] /\ job' = [job EXCEPT ![r] = j]
      /\ files' = files /\ owner' = owner /\ told' = told /\ finished' = finished
      /\ faults' = faults /\ cancels' = cancels /\ short' = short
  BY DEF PostArrive, Goto
<1>2. i \in Infos /\ Bounded(i, short) /\ short \in BOOLEAN
  <2>1. size \in Nat \union {NoLen}
    BY FsAssumption
  <2> QED BY <2>1, AbsentFacts DEF Infos, Bounded, TypeInv, Counters
<1> HIDE DEF i
<1>3. <<i>> \in Seq(Infos) /\ Len(<<i>>) = 1 /\ <<i>>[1] = i /\ then \in {"combine", "body"}
  BY <1>2
<1> HIDE DEF then
<1>4. /\ j \in Jobs /\ j.op = "post" /\ j.ghost = FALSE /\ j.pos = 0
      /\ j.path = "info" /\ j.then = then /\ j.value = <<i>>
  <2>1. then \in Labels /\ "info" \in Paths /\ <<i>> \in Seq(Infos) \union Seq(Nat)
    BY <1>3, PathFacts DEF Labels
  <2>2. /\ Blank \in Jobs /\ Blank.ghost = FALSE /\ Blank.pos = 0
    BY BlankFits
  <2> QED BY <2>1, <2>2 DEF Jobs
<1> HIDE DEF j
<1>5. Fits("open", j) /\ Sized("open", j, short)
  BY <1>2, <1>3, <1>4, PathFacts DEF Fits, Sized, Writes, WriteFits, FileOps
<1>6. Moves(r) /\ pc'[r] = "open" /\ job'[r] = j
  BY <1>1, <1>4, <1>5 DEF Moves, TypeInv, Placed, Labels, FileOps
<1>7. FilesOK' /\ Placed'
  <2>1. cancels' = cancels /\ short' = short
    BY <1>1
  <2>2. Placed'
    BY <1>1, <1>2, <1>4, <1>5, <1>6, PlacedKeeps
  <2> QED BY <1>1, <2>1, <2>2, FilesSame
<1>8. Order'
  <2>1. \A q \in Reqs : q # r => pc'[q] = "idle" /\ job'[q].op = "none"
    BY <1>1, <1>6, OpFacts DEF Moves, TypeInv, Order
  <2> QED BY <1>1, <1>4, <1>6, <2>1 DEF Order, Active
<1> QED BY <1>1, <1>7, <1>8 DEF TypeInv, Counters

LEMMA ArriveType ==
  ASSUME TypeInv, NEW r \in Reqs, NEW op \in {"patch", "get", "delete"}, NEW at \in Nat,
         NEW n \in Nat, Arrive(r, op, at, n)
  PROVE  TypeInv'
<1> DEFINE j == [Blank EXCEPT !.op = op, !.at = at, !.n = n]
<1>1. /\ pc[r] = "idle" /\ life \in {"known", "doomed", "gone"}
      /\ pc' = [pc EXCEPT ![r] = "lock"] /\ job' = [job EXCEPT ![r] = j]
      /\ files' = files /\ owner' = owner /\ life' = life /\ told' = told
      /\ finished' = finished /\ faults' = faults /\ cancels' = cancels /\ short' = short
  BY DEF Arrive, Goto, outside
<1>2. j \in Jobs /\ j.op = op /\ j.ghost = FALSE /\ j.pos = 0
  BY BlankFits DEF Jobs
<1> HIDE DEF j
<1>3. Fits("lock", j) /\ Sized("lock", j, short)
  BY <1>2 DEF Fits, Sized, Writes, FileOps
<1>4. Moves(r) /\ pc'[r] = "lock" /\ job'[r] = j
  BY <1>1, <1>2, <1>3 DEF Moves, TypeInv, Placed, Labels
<1>5. FilesOK' /\ Placed'
  <2>1. short \in BOOLEAN
    BY DEF TypeInv, Counters
  <2> QED BY <1>1, <1>2, <1>3, <1>4, <2>1, PlacedKeeps, FilesSame
<1>6. Order'
  <2>1. \A q \in Reqs : q # r => pc'[q] = pc[q] /\ job'[q] = job[q]
    BY <1>4 DEF Moves
  <2>2. \A q \in Reqs : job[q].op # "post"
    BY <1>1 DEF TypeInv, Order
  <2> QED BY <1>1, <1>2, <1>4, <2>1, <2>2 DEF TypeInv, Order, Active
<1> QED BY <1>1, <1>5, <1>6 DEF TypeInv, Counters

LEMMA LockType == ASSUME TypeInv, NEW r \in Reqs, Lock(r) PROVE TypeInv'
<1>1. /\ pc[r] = "lock" /\ owner = NoReq /\ owner' = r
      /\ pc' = [pc EXCEPT ![r] = "load"] /\ job' = job
      /\ files' = files /\ life' = life /\ told' = told
      /\ finished' = finished /\ faults' = faults /\ cancels' = cancels /\ short' = short
  BY DEF Lock, Goto, outside
<1>2. Fits("load", job[r]) /\ Sized("load", job[r], short) /\ job[r].ghost = FALSE
  BY <1>1, OpFacts DEF Fits, Sized, Writes, FileOps, Jobs
<1>3. Moves(r) /\ pc'[r] = "load"
  BY <1>1, <1>2 DEF Moves, TypeInv, Placed, Labels
<1>4. FilesOK' /\ Placed'
  <2>1. short \in BOOLEAN
    BY DEF TypeInv, Counters
  <2> QED BY <1>1, <1>2, <1>3, <2>1, PlacedKeeps, FilesSame
<1>5. Order'
  <2>1. \A q \in Reqs : q # r => pc'[q] = pc[q]
    BY <1>3 DEF Moves
  <2>2. \A q \in Reqs : owner # q
    BY <1>1, AbsentFacts
  <2> QED BY <1>1, <1>3, <2>1, <2>2 DEF TypeInv, Order, Active
<1> QED BY <1>1, <1>4, <1>5 DEF TypeInv, Counters


LEMMA InfoFacts ==
  ASSUME TypeInv, Readable
  PROVE  /\ Info \in Infos /\ Bounded(Info, short) /\ files["info"] = <<Info>>
         /\ Info.size \in Nat \union {NoLen} /\ Info.offset \in Nat /\ Info.final \in BOOLEAN
<1>1. /\ files["info"] \in Seq(Infos) /\ Len(files["info"]) <= 1 /\ files["info"] # <<>>
      /\ Bounded(Info, short)
  BY DEF TypeInv, FilesOK, Readable
<1>2. Len(files["info"]) = 1 /\ 1 \in 1..Len(files["info"])
  <2> DEFINE f == files["info"]
  <2>1. f \in Seq(Infos) /\ Len(f) <= 1 /\ f # <<>>
    BY <1>1
  <2> HIDE DEF f
  <2>2. Len(f) \in Nat /\ Len(f) # 0
    BY <2>1, LenProperties, EmptySeq
  <2>3. Len(f) = 1
    <3>1. \A m \in Nat : m <= 1 /\ m # 0 => m = 1
      OBVIOUS
    <3> QED BY <2>1, <2>2, <3>1, Zenon
  <2> QED BY <2>3 DEF f
<1>3. Info \in Infos /\ files["info"] = <<Info>>
  BY <1>1, <1>2 DEF Info
<1> QED BY <1>1, <1>3 DEF Infos

(* A handler that begins to write a file.                                  *)
Written(j, path, value, l) == [j EXCEPT !.path = path, !.value = value, !.then = l]

LEMMA WriteType ==
  ASSUME TypeInv, NEW r \in Reqs, Active(r), NEW path \in Paths,
         NEW value \in Seq(Infos) \union Seq(Nat), NEW l \in Labels,
         Write(r, path, value, l), WriteFits(Written(job[r], path, value, l)),
         path = "info" => Bounded(value[1], short),
         l = "save" => (job[r].info.size # NoLen => job[r].at + job[r].n <= job[r].info.size),
         ~job[r].ghost, pc[r] # "fill", files' = files, UNCHANGED <<owner, outside>>
  PROVE  TypeInv'
<1> DEFINE j == Written(job[r], path, value, l)
<1>1. job[r] \in Jobs /\ job[r].pos = 0
  BY DEF TypeInv, Placed, Fits
<1>2. /\ j \in Jobs /\ j.op = job[r].op /\ j.ghost = job[r].ghost /\ j.path = path
      /\ j.value = value /\ j.then = l /\ j.info = job[r].info /\ j.at = job[r].at
      /\ j.n = job[r].n /\ j.pos = 0
  BY <1>1 DEF Jobs, Written
<1>3. job' = [job EXCEPT ![r] = j]
  BY <1>1 DEF Write, TypeInv, Placed, Jobs, Written
<1>4. WriteFits(j)
  OBVIOUS
<1> HIDE DEF j
<1>5. Fits("open", j) /\ Sized("open", j, short)
  BY <1>2, <1>4 DEF Fits, Sized, Writes, FileOps
<1>6. FilesOK'
  BY FilesSame DEF outside
<1> QED BY <1>2, <1>3, <1>5, <1>6, StepType DEF Write, Labels, FileOps

LEMMA CombineType == ASSUME TypeInv, NEW r \in Reqs, Combine(r) PROVE TypeInv'
<1>1. pc[r] = "combine" /\ Fits("combine", job[r]) /\ Active(r) /\ job' = job
  BY OpFacts DEF Combine, Active
<1>2. FilesOK' /\ files'["data"] # Absent
  <2> DEFINE c == <<>>
  <2>1. c \in Seq(Nat) /\ c # Absent
    BY EmptySeq, AbsentFacts
  <2>2. files' = [files EXCEPT !["data"] = c] /\ short' = short
    BY DEF Combine, outside
  <2> HIDE DEF c
  <2>3. files'["data"] # Absent
    BY <2>1, <2>2, PathFacts DEF TypeInv, FilesOK
  <2> QED BY <2>1, <2>2, <2>3, FileChanges, PathFacts
<1>3. Fits("combining", job[r]) /\ Sized("combining", job[r], short) /\ "combining" \in Labels
  BY <1>1 DEF Fits, Sized, Writes, Labels, FileOps
<1> QED BY <1>1, <1>2, <1>3, GotoType DEF Combine

LEMMA CombiningType == ASSUME TypeInv, NEW r \in Reqs, Combining(r) PROVE TypeInv'
<1>1. /\ pc[r] = "combining" /\ Fits("combining", job[r]) /\ Active(r) /\ job[r] \in Jobs
      /\ files["data"] \in Seq(Nat) /\ ~job[r].ghost
  BY OpFacts, PathFacts DEF Combining, Active, TypeInv, Placed, FilesOK, Fits, FileOps
<1>2. CASE Len(files["data"]) < FinalLen
  <2> DEFINE c == Append(files["data"], Len(files["data"]) + 1)
  <2>1. c \in Seq(Nat) /\ c # Absent
    <3> DEFINE d == files["data"]
    <3>1. d \in Seq(Nat) /\ Len(d) + 1 \in Nat
      BY <1>1, LenProperties
    <3> HIDE DEF d
    <3>2. Append(d, Len(d) + 1) \in Seq(Nat)
      BY <3>1, AppendProperties
    <3> QED BY <3>2, AbsentFacts DEF d
  <2>2. files' = [files EXCEPT !["data"] = c] /\ short' = short /\ pc' = pc /\ job' = job
    BY <1>2 DEF Combining, outside
  <2> HIDE DEF c
  <2>3. FilesOK' /\ files'["data"] # Absent
    BY <2>1, <2>2, FileChanges, PathFacts DEF TypeInv, FilesOK
  <2>4. Moves(r) /\ pc'[r] = pc[r] /\ Sized(pc[r], job[r], short)
    BY <1>1, <2>2 DEF Moves, TypeInv, Placed
  <2> QED BY <1>1, <2>2, <2>3, <2>4, GoesOn DEF Combining
<1>3. CASE ~(Len(files["data"]) < FinalLen)
  <2> DEFINE i == [size |-> FinalLen, offset |-> FinalLen, final |-> TRUE]
  <2>1. i \in Infos /\ Bounded(i, short)
    BY FsAssumption DEF Infos, Bounded
  <2>2. /\ Write(r, "info", <<i>>, "body") /\ files' = files /\ UNCHANGED <<owner, outside>>
    BY <1>3 DEF Combining
  <2> HIDE DEF i
  <2>3. <<i>> \in Seq(Infos) /\ Len(<<i>>) = 1 /\ <<i>>[1] = i
    BY <2>1
  <2>4. WriteFits(Written(job[r], "info", <<i>>, "body"))
    BY <1>1, <2>3, PathFacts DEF WriteFits, Written, Jobs, Fits
  <2> DEFINE v == <<i>>
  <2>5. v \in Seq(Infos) \union Seq(Nat) /\ Bounded(v[1], short) /\ "body" \in Labels
    BY <2>1, <2>3 DEF Labels
  <2>6. /\ WriteFits(Written(job[r], "info", v, "body"))
        /\ Write(r, "info", v, "body")
    BY <2>2, <2>4
  <2> HIDE DEF v
  <2>7. pc[r] # "fill"
    BY <1>1
  <2> QED BY <1>1, <2>2, <2>5, <2>6, <2>7, WriteType, PathFacts
<1> QED BY <1>2, <1>3

(* Steps that only move on.                                                *)
LEMMA PlainType ==
  ASSUME TypeInv, NEW r \in Reqs, PostNoBody(r) \/ LoadPatch(r) \/ Finish(r)
  PROVE  TypeInv'
<1>1. Active(r) /\ job' = job /\ Fits(pc[r], job[r]) /\ files' = files /\ UNCHANGED <<owner, outside>>
  BY OpFacts DEF PostNoBody, LoadPatch, Finish, Active
<1>2. FilesOK'
  BY <1>1, FilesSame DEF outside
<1>3. \E l \in {"reread", "chunk", "declare", "list"} :
        Goto(r, l) /\ Fits(l, job[r]) /\ Sized(l, job[r], short)
  <2>1. CASE PostNoBody(r)
    BY <1>1, <2>1 DEF PostNoBody, Fits, Sized, Writes, FileOps
  <2>2. CASE LoadPatch(r)
    BY <1>1, <2>2 DEF LoadPatch, Fits, Sized, Writes, FileOps
  <2>3. CASE Finish(r)
    BY <1>1, <2>3 DEF Finish, Fits, Sized, Writes, FileOps
  <2> QED BY <2>1, <2>2, <2>3
<1> QED BY <1>1, <1>2, <1>3, GotoType DEF Labels

LEMMA PostBodyType ==
  ASSUME TypeInv, NEW r \in Reqs, NEW n \in Nat, PostBody(r, n)
  PROVE  TypeInv'
<1> DEFINE j == [job[r] EXCEPT !.n = n]
<1>1. /\ pc[r] = "body" /\ Active(r) /\ Fits("body", job[r]) /\ job[r] \in Jobs
      /\ job' = [job EXCEPT ![r] = j] /\ Goto(r, "chunk")
      /\ files' = files /\ UNCHANGED <<owner, outside>>
  BY OpFacts DEF PostBody, Active, TypeInv, Placed, Jobs
<1>2. j \in Jobs /\ j.op = job[r].op /\ j.ghost = job[r].ghost /\ j.pos = job[r].pos
  BY <1>1 DEF Jobs
<1>3. Fits("chunk", j) /\ Sized("chunk", j, short)
  BY <1>1, <1>2 DEF Fits, Sized, Writes, FileOps
<1> HIDE DEF j
<1> QED BY <1>1, <1>2, <1>3, StepType, FilesSame DEF Labels, outside


LEMMA DeclareType ==
  ASSUME TypeInv, NEW r \in Reqs, NEW n \in Nat, Declare(r, n)
  PROVE  TypeInv'
<1> DEFINE i == [Info EXCEPT !.size = n]
           v == <<i>>
           j == [job[r] EXCEPT !.path = "info", !.value = v, !.then = "chunk"]
<1>1. /\ pc[r] = "declare" /\ Active(r) /\ Fits("declare", job[r]) /\ job[r] \in Jobs
      /\ Info \in Infos /\ short \in BOOLEAN /\ ~job[r].ghost
  BY OpFacts, InfoFacts DEF Declare, Active, TypeInv, Counters, Fits, FileOps
<1>2. /\ pc' = [pc EXCEPT ![r] = "open"] /\ files' = files /\ owner' = owner
      /\ job' = [job EXCEPT ![r].path = "info", ![r].value = v, ![r].then = "chunk"]
      /\ short' = (short \/ n < Info.offset)
      /\ life' = life /\ told' = told /\ finished' = finished /\ faults' = faults
      /\ cancels' = cancels
  BY DEF Declare, Write, Goto
<1>3. i \in Infos /\ i.size = n /\ i.offset = Info.offset /\ Info.offset \in Nat
  BY <1>1 DEF Infos
<1> HIDE DEF i
<1>4. Bounded(i, short')
  <2>1. ~short' => ~(n < Info.offset)
    BY <1>2, Zenon
  <2>2. ~(n < Info.offset) => i.offset <= i.size
    BY <1>3
  <2> QED BY <2>1, <2>2 DEF Bounded
<1>5. v \in Seq(Infos) /\ Len(v) = 1 /\ v[1] = i
  BY <1>3
<1> HIDE DEF v
<1>6. /\ j \in Jobs /\ j.op = job[r].op /\ j.ghost = job[r].ghost /\ j.pos = job[r].pos /\ j.path = "info"
      /\ j.value = v /\ j.then = "chunk" /\ j.info = job[r].info
      /\ job' = [job EXCEPT ![r] = j]
  <2>1. "info" \in Paths /\ "chunk" \in Labels /\ v \in Seq(Infos) \union Seq(Nat)
    BY <1>5, PathFacts DEF Labels
  <2> QED BY <1>1, <1>2, <2>1 DEF Jobs, TypeInv, Placed
<1> HIDE DEF j
<1>7. Fits("open", j) /\ Sized("open", j, short')
  BY <1>1, <1>4, <1>5, <1>6, PathFacts DEF Fits, WriteFits, Sized, Writes, FileOps
<1>8. Moves(r) /\ pc'[r] = "open" /\ job'[r] = j
  <2>1. pc' = [pc EXCEPT ![r] = "open"] /\ pc \in [Reqs -> Labels] /\ job \in [Reqs -> Jobs]
    BY <1>2 DEF TypeInv, Placed
  <2>2. "open" \in Labels
    BY DEF Labels, FileOps
  <2>3. pc'[r] = "open" /\ job'[r] = j /\ pc' \in [Reqs -> Labels] /\ job' \in [Reqs -> Jobs]
    BY <1>6, <2>1, <2>2
  <2> QED BY <1>6, <1>7, <2>1, <2>3 DEF Moves
<1>9. Placed'
  BY <1>1, <1>2, <1>6, <1>7, <1>8, PlacedKeeps
<1>10. FilesOK'
  BY <1>1, <1>2 DEF TypeInv, FilesOK, Bounded, Info
<1>11. Order'
  <2>1. \A q \in Reqs : q # r => pc'[q] = pc[q] /\ job'[q] = job[q]
    BY <1>8 DEF Moves
  <2>2. job[r].op = "patch"
    BY <1>1 DEF Fits
  <2>3. job'[r].op = "patch" /\ pc[r] # "idle" /\ r \in Reqs
    BY <1>1, <1>6, <1>8, <2>2 DEF Active
  <2>4. \A q \in Reqs : job'[q].op = job[q].op /\ (pc'[q] = "idle" => pc[q] = "idle")
    BY <1>8, <2>1, <2>2, <2>3
  <2>5. \A q \in Reqs : Active(q)' => Active(q)
    BY <1>1, <2>1 DEF Active
  <2>6. life # "new" /\ life # "made"
    BY <2>2, <2>3 DEF TypeInv, Order
  <2>7. \A q \in Reqs : job'[q].op # "post"
    BY <2>4, <2>6 DEF TypeInv, Order
  <2>8. cancels' = 0 => \A q \in Reqs : Active(q)' /\ job'[q].op # "post" => owner' = q
    BY <1>2, <2>4, <2>5 DEF TypeInv, Order
  <2> QED BY <1>2, <2>6, <2>7, <2>8 DEF Order
<1> QED BY <1>1, <1>2, <1>9, <1>10, <1>11 DEF TypeInv, Counters

LEMMA ReadChunkType == ASSUME TypeInv, NEW r \in Reqs, ReadChunk(r) PROVE TypeInv'
<1> DEFINE j == [job[r] EXCEPT !.info = Info]
<1>1. /\ pc[r] = "chunk" /\ Active(r) /\ Fits("chunk", job[r]) /\ job[r] \in Jobs
      /\ job' = [job EXCEPT ![r] = j] /\ Goto(r, "count")
      /\ files' = files /\ UNCHANGED <<owner, outside>>
      /\ Info.size # NoLen => job[r].at + job[r].n <= Info.size
      /\ Info \in Infos
  BY OpFacts, InfoFacts DEF ReadChunk, Active, TypeInv, Placed, Jobs
<1>2. /\ j \in Jobs /\ j.op = job[r].op /\ j.ghost = job[r].ghost /\ j.pos = job[r].pos /\ j.info = Info
      /\ j.at = job[r].at /\ j.n = job[r].n
  BY <1>1 DEF Jobs
<1> HIDE DEF j
<1>3. Fits("count", j) /\ Sized("count", j, short)
  BY <1>1, <1>2 DEF Fits, Sized, Writes, FileOps
<1> QED BY <1>1, <1>2, <1>3, StepType, FilesSame DEF Labels, outside

LEMMA ChunkFacts ==
  ASSUME NEW at \in Nat, NEW n \in Nat
  PROVE  /\ Chunk(at, n) \in Seq(Nat) /\ Len(Chunk(at, n)) = n
         /\ \A i \in 1..n : Chunk(at, n)[i] = at + i
         /\ Whole(n) \in Seq(Nat) /\ Len(Whole(n)) = n
         /\ \A i \in 1..n : Whole(n)[i] = i
BY DEF Chunk, Whole

LEMMA WritePartType == ASSUME TypeInv, NEW r \in Reqs, WritePart(r) PROVE TypeInv'
<1> DEFINE p == PartNames[Len(PartsSorted) + 1]
           v == Chunk(job[r].at, job[r].n)
<1>1. /\ pc[r] = "count" /\ Active(r) /\ Fits("count", job[r]) /\ job[r] \in Jobs
      /\ Sized("count", job[r], short) /\ ~job[r].ghost
  BY OpFacts DEF WritePart, Active, TypeInv, Placed, Fits, FileOps
<1>2. p \in Parts /\ p \in Paths /\ p # "info" /\ p # "data"
  <2>1. Len(PartsSorted) + 1 \in 1..Len(PartNames)
    BY SortedFacts, PathFacts, LenProperties DEF WritePart
  <2> QED BY <2>1, PathFacts
<1>3. v \in Seq(Nat)
  BY <1>1, ChunkFacts DEF Jobs
<1>4. Write(r, p, v, "save") /\ files' = files /\ UNCHANGED <<owner, outside>>
  BY DEF WritePart
<1> HIDE DEF p, v
<1>5. WriteFits(Written(job[r], p, v, "save"))
  BY <1>1, <1>2, <1>3 DEF WriteFits, Written, Jobs, Fits
<1>6. job[r].info.size # NoLen => job[r].at + job[r].n <= job[r].info.size
  BY <1>1 DEF Sized
<1>7. pc[r] # "fill"
  BY <1>1
<1> QED BY <1>1, <1>2, <1>3, <1>4, <1>5, <1>6, <1>7, WriteType DEF Labels

LEMMA SaveOffsetType == ASSUME TypeInv, NEW r \in Reqs, SaveOffset(r) PROVE TypeInv'
<1> DEFINE i == [job[r].info EXCEPT !.offset = job[r].at + job[r].n]
           v == <<i>>
<1>1. /\ pc[r] = "save" /\ Active(r) /\ Fits("save", job[r]) /\ job[r] \in Jobs
      /\ Sized("save", job[r], short) /\ ~job[r].ghost
      /\ job[r].info \in Infos /\ job[r].at \in Nat /\ job[r].n \in Nat
  <2>1. pc[r] = "save" /\ Active(r) /\ Fits("save", job[r]) /\ job[r] \in Jobs
    BY OpFacts DEF SaveOffset, Active
  <2>2. Sized("save", job[r], short)
    BY <2>1 DEF TypeInv, Placed
  <2>3. ~job[r].ghost /\ job[r].info \in Infos
    BY <2>1 DEF Fits, FileOps
  <2>4. job[r].at \in Nat /\ job[r].n \in Nat
    BY <2>1 DEF Jobs
  <2> QED BY <2>1, <2>2, <2>3, <2>4
<1>2. i \in Infos /\ Bounded(i, short)
  BY <1>1 DEF Infos, Bounded, Sized
<1>3. Write(r, "info", v, "reread") /\ files' = files /\ UNCHANGED <<owner, outside>>
  BY DEF SaveOffset
<1> HIDE DEF i
<1>4. v \in Seq(Infos) /\ Len(v) = 1 /\ v[1] = i /\ v \in Seq(Infos) \union Seq(Nat)
  BY <1>2
<1> HIDE DEF v
<1>5. WriteFits(Written(job[r], "info", v, "reread"))
  BY <1>1, <1>4, PathFacts DEF WriteFits, Written, Jobs, Fits
<1>6. pc[r] # "fill"
  BY <1>1
<1> QED BY <1>1, <1>2, <1>3, <1>4, <1>5, <1>6, WriteType, PathFacts DEF Labels

LEMMA TellFacts ==
  ASSUME TypeInv, NEW n \in Nat, Tell(n)
  PROVE  told' \in Nat /\ told <= told' /\ n <= told' /\ told' \in {told, n}
BY DEF Tell, TypeInv, Counters

LEMMA RereadType == ASSUME TypeInv, NEW r \in Reqs, Reread(r) PROVE TypeInv'
<1>1. /\ pc[r] = "reread" /\ Active(r) /\ Fits("reread", job[r]) /\ job[r] \in Jobs
      /\ Info \in Infos /\ Info.offset \in Nat
  BY OpFacts, InfoFacts DEF Reread, Active
<1>2. FilesOK'
  BY FilesSame DEF Reread
<1>3. CASE IsComplete(Info)
  <2> DEFINE j == [job[r] EXCEPT !.info = Info]
  <2>1. /\ job' = [job EXCEPT ![r] = j] /\ Goto(r, "finish") /\ UNCHANGED <<owner, outside>>
    BY <1>1, <1>3 DEF Reread, outside, TypeInv, Placed, Jobs
  <2>2. j \in Jobs /\ j.op = job[r].op /\ j.ghost = job[r].ghost /\ j.pos = job[r].pos /\ j.info = Info
    BY <1>1 DEF Jobs
  <2> HIDE DEF j
  <2>3. Fits("finish", j) /\ Sized("finish", j, short)
    BY <1>1, <2>2 DEF Fits, Sized, Writes, FileOps
  <2> QED BY <1>1, <1>2, <2>1, <2>2, <2>3, StepType DEF Labels
<1>4. CASE ~IsComplete(Info)
  <2>1. /\ End(r) /\ Tell(Info.offset) /\ life' = IF life = "made" THEN "known" ELSE life
        /\ finished' = finished /\ faults' = faults /\ cancels' = cancels /\ short' = short
    BY <1>4 DEF Reread
  <2>2. told' \in Nat
    BY <1>1, <2>1, TellFacts
  <2>3. life # "new"
    BY <1>1 DEF TypeInv, Order, Active
  <2> QED BY <1>1, <1>2, <2>1, <2>2, <2>3, Ends
        DEF End, Goto, Unlock, Active, TypeInv, Counters
<1> QED BY <1>3, <1>4


LEMMA ListPartsType == ASSUME TypeInv, NEW r \in Reqs, ListParts(r) PROVE TypeInv'
<1>1. /\ pc[r] = "list" /\ Active(r) /\ Fits("list", job[r]) /\ job[r] \in Jobs
      /\ ~job[r].ghost /\ UNCHANGED <<owner, outside>>
  BY OpFacts DEF ListParts, Active, Fits, FileOps
<1>2. CASE PartsSorted = <<>>
  <2> DEFINE v == <<>>
  <2>1. v \in Seq(Nat)
    BY EmptySeq
  <2>2. Write(r, "data", v, "done") /\ files' = files
    BY <1>2 DEF ListParts
  <2> HIDE DEF v
  <2>3. WriteFits(Written(job[r], "data", v, "done"))
    BY <1>1, <2>1, PathFacts DEF WriteFits, Written, Jobs, Fits
  <2>4. pc[r] # "fill"
    BY <1>1
  <2> QED BY <1>1, <2>1, <2>2, <2>3, <2>4, WriteType, PathFacts DEF Labels
<1>3. CASE PartsSorted # <<>>
  <2> DEFINE ps == PartsSorted
             j == [job[r] EXCEPT !.todo = ps, !.k = 1, !.then = "done"]
             c == <<>>
  <2>1. ps \in Seq(Parts) /\ ps \in Seq(Paths) /\ ps # <<>>
    BY <1>3, SortedFacts
  <2>2. /\ job' = [job EXCEPT ![r] = j] /\ Goto(r, "copy")
        /\ files' = [files EXCEPT !["data"] = c] /\ short' = short
    BY <1>1, <1>3 DEF ListParts, outside, TypeInv, Placed, Jobs
  <2>3. c \in Seq(Nat)
    BY EmptySeq
  <2> HIDE DEF ps, c
  <2>4. /\ j \in Jobs /\ j.op = job[r].op /\ j.ghost = job[r].ghost /\ j.pos = job[r].pos /\ j.info = job[r].info
        /\ j.todo = ps /\ j.k = 1 /\ j.then = "done"
    BY <1>1, <2>1 DEF Jobs, Labels
  <2>5. 1 \in 1..Len(ps)
    BY <2>1, EmptySeq, LenProperties
  <2> HIDE DEF j
  <2>6. Fits("copy", j) /\ Sized("copy", j, short)
    BY <1>1, <2>1, <2>4, <2>5 DEF Fits, Sized, Writes, FileOps
  <2>7. FilesOK'
    BY <2>2, <2>3, FileChanges, PathFacts
  <2> QED BY <1>1, <2>2, <2>4, <2>6, <2>7, StepType DEF Labels
<1> QED BY <1>2, <1>3

(* Bytes that are appended to the data file.                               *)
LEMMA DataFiles ==
  ASSUME TypeInv, NEW bytes \in Seq(Nat),
         files' = [files EXCEPT !["data"] = DataWith(bytes)], short' = short
  PROVE  FilesOK'
<1> DEFINE c == DataWith(bytes)
<1>1. files["data"] = Absent \/ files["data"] \in Seq(Nat)
  BY PathFacts DEF TypeInv, FilesOK
<1>2. c = Absent \/ c \in Seq(Nat)
  BY <1>1, ConcatProperties DEF DataWith
<1> HIDE DEF c
<1>3. files' = [files EXCEPT !["data"] = c]
  BY DEF c
<1> QED BY <1>2, <1>3, FileChanges, PathFacts

LEMMA PartFacts ==
  ASSUME TypeInv, NEW r \in Reqs, pc[r] = "copy"
  PROVE  /\ PartAtHand(r) \in Parts /\ job[r].k \in 1..Len(job[r].todo)
         /\ Len(job[r].todo) \in Nat /\ job[r].todo \in Seq(Parts)
         /\ files[PartAtHand(r)] # Absent => files[PartAtHand(r)] \in Seq(Nat)
<1>1. job[r].k \in 1..Len(job[r].todo) /\ job[r].todo \in Seq(Parts)
  BY OpFacts DEF Fits
<1>2. PartAtHand(r) \in Parts /\ Len(job[r].todo) \in Nat
  BY <1>1, LenProperties, ElementOfSeq DEF PartAtHand
<1> QED BY <1>1, <1>2, PathFacts DEF TypeInv, FilesOK

LEMMA CopyPartType == ASSUME TypeInv, NEW r \in Reqs, CopyPart(r) PROVE TypeInv'
<1>1. /\ pc[r] = "copy" /\ Active(r) /\ Fits("copy", job[r]) /\ job[r] \in Jobs
      /\ UNCHANGED <<owner, outside>> /\ short' = short
      /\ job[r].k \in Nat /\ job[r].k \in 1..Len(job[r].todo) /\ Len(job[r].todo) \in Nat
  BY OpFacts, PartFacts DEF CopyPart, Active, outside, Jobs
<1>2. FilesOK'
  <2>1. PICK bytes \in Seq(Nat) : bytes = files[PartAtHand(r)]
    BY <1>1, PartFacts DEF CopyPart
  <2>2. files' = [files EXCEPT !["data"] = DataWith(bytes)]
    BY <2>1 DEF CopyPart
  <2> QED BY <1>1, <2>2, DataFiles
<1>3. CASE job[r].k < Len(job[r].todo)
  <2> DEFINE j == [job[r] EXCEPT !.k = @ + 1]
             o == job[r]
             k == o.k + 1
  <2>1. job' = [job EXCEPT ![r] = j] /\ pc' = pc
    BY <1>1, <1>3 DEF CopyPart, TypeInv, Placed, Jobs
  <2>2. /\ j \in Jobs /\ j.op = job[r].op /\ j.ghost = job[r].ghost /\ j.pos = job[r].pos /\ j.info = job[r].info
        /\ j.todo = job[r].todo /\ j.k = job[r].k + 1 /\ j.then = job[r].then
    <3>1. o \in Jobs /\ k \in Nat /\ j = [o EXCEPT !.k = k]
      BY <1>1
    <3> HIDE DEF o, k, j
    <3>2. /\ j \in Jobs /\ j.op = o.op /\ j.ghost = o.ghost /\ j.pos = o.pos /\ j.info = o.info
          /\ j.todo = o.todo /\ j.k = k /\ j.then = o.then
      BY <3>1 DEF Jobs
    <3> QED BY <3>2 DEF o, k
  <2> HIDE DEF j
  <2>3. j.k \in 1..Len(j.todo)
    BY <1>1, <1>3, <2>2
  <2>4. Fits("copy", j) /\ Sized("copy", j, short)
    BY <1>1, <2>2, <2>3 DEF Fits, Sized, Writes, FileOps
  <2>5. Goto(r, "copy")
    BY <1>1, <2>1 DEF Goto, TypeInv, Placed
  <2> QED BY <1>1, <1>2, <2>1, <2>2, <2>4, <2>5, StepType DEF Labels
<1>4. CASE ~(job[r].k < Len(job[r].todo))
  <2>1. Goto(r, "sweep") /\ job' = job
    BY <1>4 DEF CopyPart
  <2>2. Fits("sweep", job[r]) /\ Sized("sweep", job[r], short)
    BY <1>1 DEF Fits, Sized, Writes, FileOps
  <2> QED BY <1>1, <1>2, <2>1, <2>2, GotoType DEF Labels
<1> QED BY <1>3, <1>4

LEMMA DoneType == ASSUME TypeInv, NEW r \in Reqs, Done(r) PROVE TypeInv'
<1>1. /\ pc[r] = "done" /\ Active(r) /\ job[r].info \in Infos /\ job[r].info.offset \in Nat
  BY OpFacts DEF Done, Active, Fits, Infos
<1>2. /\ End(r) /\ Tell(job[r].info.offset) /\ life' = (IF life = "made" THEN "known" ELSE life)
      /\ files' = files /\ finished' = TRUE /\ faults' = faults /\ cancels' = cancels
      /\ short' = short
  BY DEF Done
<1>3. told' \in Nat /\ life # "new" /\ FilesOK'
  <2>1. PICK n \in Nat : n = job[r].info.offset
    BY <1>1
  <2> QED BY <1>1, <1>2, <2>1, TellFacts, FilesSame DEF TypeInv, Order, Active
<1> QED BY <1>1, <1>2, <1>3, Ends DEF End, Goto, Unlock, Active, TypeInv, Counters


LEMMA HeadType == ASSUME TypeInv, NEW r \in Reqs, HeadRequest(r) PROVE TypeInv'
<1>1. told' \in Nat
  <2>1. PICK n \in Nat : n = Info.offset
    BY InfoFacts DEF HeadRequest
  <2> QED BY <2>1, TellFacts DEF HeadRequest
<1>2. /\ files' = files /\ owner' = owner /\ pc' = pc /\ job' = job /\ life' = life
      /\ finished' = finished /\ faults' = faults /\ cancels' = cancels /\ short' = short
  BY DEF HeadRequest
<1>3. FilesOK'
  BY <1>2, FilesSame
<1> QED BY <1>1, <1>2, <1>3 DEF TypeInv, Counters, Placed, Order, Active

LEMMA LoadGetType == ASSUME TypeInv, NEW r \in Reqs, LoadGet(r) PROVE TypeInv'
<1> DEFINE j == [job[r] EXCEPT !.info = Info]
<1>1. /\ pc[r] = "load" /\ Active(r) /\ Fits("load", job[r]) /\ job[r] \in Jobs
      /\ job' = [job EXCEPT ![r] = j] /\ Goto(r, "read") /\ job[r].op = "get"
      /\ files' = files /\ UNCHANGED <<owner, outside>> /\ Info \in Infos
  BY OpFacts, InfoFacts DEF LoadGet, Active, TypeInv, Placed, Jobs
<1>2. j \in Jobs /\ j.op = job[r].op /\ j.ghost = job[r].ghost /\ j.pos = job[r].pos /\ j.info = Info
  BY <1>1 DEF Jobs
<1> HIDE DEF j
<1>3. Fits("read", j) /\ Sized("read", j, short)
  BY <1>1, <1>2 DEF Fits, Sized, Writes, FileOps
<1> QED BY <1>1, <1>2, <1>3, StepType, FilesSame DEF Labels, outside

LEMMA LoadDeleteType == ASSUME TypeInv, NEW r \in Reqs, LoadDelete(r) PROVE TypeInv'
<1> DEFINE list == <<"data", "info">>
           j == [job[r] EXCEPT !.todo = list, !.then = "list_left"]
<1>1. list \in Seq(Paths)
  BY PathFacts
<1> HIDE DEF list
<1>2. /\ pc[r] = "load" /\ Active(r) /\ Fits("load", job[r]) /\ job[r] \in Jobs
      /\ job' = [job EXCEPT ![r] = j] /\ pc' = [pc EXCEPT ![r] = "sweep"]
      /\ job[r].op = "delete" /\ life' = "doomed"
      /\ files' = files /\ owner' = owner /\ told' = told /\ finished' = finished
      /\ faults' = faults /\ cancels' = cancels /\ short' = short
  BY OpFacts DEF LoadDelete, Active, TypeInv, Placed, Jobs, Goto, list
<1>3. /\ j \in Jobs /\ j.op = "delete" /\ j.ghost = job[r].ghost /\ j.pos = job[r].pos /\ j.then = "list_left"
  BY <1>1, <1>2 DEF Jobs, Labels
<1> HIDE DEF j
<1>4. Fits("sweep", j) /\ Sized("sweep", j, short)
  BY <1>2, <1>3 DEF Fits, Sized, Writes, FileOps
<1>5. Moves(r) /\ pc'[r] = "sweep" /\ job'[r] = j
  BY <1>2, <1>3, <1>4 DEF Moves, TypeInv, Placed, Labels
<1>6. FilesOK' /\ Placed'
  <2>1. short \in BOOLEAN /\ ~job[r].ghost
    BY <1>2 DEF TypeInv, Counters, Fits, FileOps
  <2> QED BY <1>2, <1>3, <1>4, <1>5, <2>1, PlacedKeeps, FilesSame
<1>7. Order'
  <2>1. \A q \in Reqs : q # r => pc'[q] = pc[q] /\ job'[q] = job[q]
    BY <1>5 DEF Moves
  <2>2. \A q \in Reqs : job[q].op # "post"
    <3>1. life # "made"
      BY <1>2 DEF TypeInv, Order
    <3> QED BY <3>1 DEF TypeInv, Order
  <2> QED BY <1>2, <1>3, <1>5, <2>1, <2>2 DEF TypeInv, Order, Active
<1> QED BY <1>2, <1>6, <1>7 DEF TypeInv, Counters

(* Answers that tell nothing, and what is given up.                        *)
LEMMA StopType ==
  ASSUME TypeInv, NEW r \in Reqs, pc[r] # "idle", End(r), FilesOK',
         UNCHANGED <<told, finished, short>>, faults' \in 0..MaxFaults,
         cancels' \in {cancels, cancels + 1}, cancels' \in 0..MaxCancels,
         life' = life \/ (life # "made" /\ life' = "gone")
  PROVE  TypeInv'
<1>1. life # "new"
  BY DEF TypeInv, Order
<1> QED BY <1>1, Ends DEF End, Goto, Unlock, TypeInv, Counters

LEMMA GetReadType == ASSUME TypeInv, NEW r \in Reqs, GetRead(r) PROVE TypeInv'
BY StopType, FilesSame DEF GetRead, outside, TypeInv, Counters

LEMMA ListLeftType == ASSUME TypeInv, NEW r \in Reqs, ListLeft(r) PROVE TypeInv'
<1> DEFINE ps == PartsSorted
           j == [job[r] EXCEPT !.todo = ps, !.then = "deleted"]
<1>1. /\ pc[r] = "list_left" /\ Active(r) /\ Fits("list_left", job[r]) /\ job[r] \in Jobs
      /\ files' = files /\ short' = short /\ job[r].op = "delete"
  BY OpFacts DEF ListLeft, Active, Fits, outside
<1>2. ps \in Seq(Paths)
  BY SortedFacts
<1>3. job' = [job EXCEPT ![r] = j] /\ Goto(r, "sweep") /\ UNCHANGED <<owner, outside>>
  BY <1>1 DEF ListLeft, TypeInv, Placed, Jobs
<1> HIDE DEF ps
<1>4. /\ j \in Jobs /\ j.op = job[r].op /\ j.ghost = job[r].ghost /\ j.pos = job[r].pos
      /\ j.then = "deleted"
  BY <1>1, <1>2 DEF Jobs, Labels
<1> HIDE DEF j
<1>5. Fits("sweep", j) /\ Sized("sweep", j, short)
  BY <1>1, <1>4 DEF Fits, Sized, Writes, FileOps
<1>6. FilesOK'
  BY <1>1, FilesSame
<1> QED BY <1>1, <1>3, <1>4, <1>5, <1>6, StepType DEF Labels

LEMMA DeletedType == ASSUME TypeInv, NEW r \in Reqs, Deleted(r) PROVE TypeInv'
<1>1. /\ pc[r] = "deleted" /\ Fits("deleted", job[r]) /\ End(r) /\ life' = "gone"
      /\ files' = files /\ told' = told /\ finished' = finished
      /\ faults' = faults /\ cancels' = cancels /\ short' = short
  BY OpFacts DEF Deleted
<1>2. life # "made"
  BY <1>1 DEF Fits, TypeInv, Order
<1> QED BY <1>1, <1>2, FilesSame, StopType DEF TypeInv, Counters

LEMMA FailType == ASSUME TypeInv, NEW r \in Reqs, Fail(r) PROVE TypeInv'
BY StopType, FilesSame DEF Fail, outside, TypeInv, Counters

(* The thread of a dropped request has the job j before it.                *)
LEMMA GhostType ==
  ASSUME TypeInv, NEW r \in Reqs, pc[r] \notin {"idle", "lock"}, NEW l \in FileOps, NEW j \in Jobs,
         pc' = [pc EXCEPT ![r] = l], job' = [job EXCEPT ![r] = j], j.op = job[r].op, j.ghost,
         Fits(l, j), Sized(l, j, short), owner' \in {owner, NoReq},
         cancels' = cancels + 1, cancels < MaxCancels,
         UNCHANGED <<files, life, told, finished, faults, short>>
  PROVE  TypeInv'
<1>1. cancels' \in 0..MaxCancels /\ cancels' > 0 /\ cancels' # 0
  BY FsAssumption DEF TypeInv, Counters
<1>2. Moves(r) /\ pc'[r] = l /\ job'[r] = j
  BY DEF Moves, TypeInv, Placed, Labels
<1>3. FilesOK' /\ Placed'
  <2>1. short \in BOOLEAN /\ l # "combining"
    BY DEF TypeInv, Counters, FileOps
  <2> QED BY <1>1, <1>2, <2>1, PlacedKeeps, FilesSame
<1>4. Order'
  <2>1. /\ \A q \in Reqs : q # r => pc'[q] = pc[q]
        /\ \A q \in Reqs : job'[q].op = job[q].op
    BY <1>2 DEF Moves
  <2>2. life # "new" /\ \A q \in Reqs : q # r => job[q].op # "post"
    BY DEF TypeInv, Order
  <2> QED BY <1>1, <2>1, <2>2 DEF TypeInv, Order
<1> QED BY <1>1, <1>3, <1>4 DEF TypeInv, Counters

LEMMA LaterType ==
  ASSUME TypeInv, NEW r \in Reqs, pc[r] \in {"combining", "copy"}, NEW bytes \in Seq(Nat),
         DataLater(r, bytes), Unlock(r), cancels' = cancels + 1, cancels < MaxCancels,
         UNCHANGED <<files, life, told, finished, faults, short>>
  PROVE  TypeInv'
<1> DEFINE n == Len(files["data"])
           j == [job[r] EXCEPT !.ghost = TRUE, !.path = "data", !.pos = n, !.value = bytes]
<1>1. n \in Nat
  BY PathFacts, LenProperties DEF DataLater, TypeInv, FilesOK
<1>2. job[r] \in Jobs /\ Fits(pc[r], job[r])
  BY OpFacts
<1>3. pc' = [pc EXCEPT ![r] = "fill"] /\ job' = [job EXCEPT ![r] = j]
  BY DEF DataLater, Goto, TypeInv, Placed, Jobs
<1> HIDE DEF n
<1>4. /\ j \in Jobs /\ j.op = job[r].op /\ j.ghost /\ j.path = "data" /\ j.value = bytes
  BY <1>1, <1>2, PathFacts DEF Jobs
<1> HIDE DEF j
<1>5. Fits("fill", j) /\ Sized("fill", j, short)
  BY <1>2, <1>4, PathFacts DEF Fits, Leftover, Sized, Writes, FileOps
<1>6. owner' \in {owner, NoReq}
  BY DEF Unlock
<1> QED BY <1>3, <1>4, <1>5, <1>6, GhostType DEF FileOps

LEMMA CancelType == ASSUME TypeInv, NEW r \in Reqs, Cancel(r) PROVE TypeInv'
<1>1. /\ files' = files /\ life' = life /\ told' = told /\ finished' = finished
      /\ faults' = faults /\ short' = short /\ cancels' = cancels + 1 /\ cancels < MaxCancels
      /\ pc[r] # "idle" /\ ~job[r].ghost /\ Unlock(r) /\ owner' \in {owner, NoReq}
      /\ job[r] \in Jobs /\ Fits(pc[r], job[r]) /\ Sized(pc[r], job[r], short)
      /\ pc \in [Reqs -> Labels]
  BY OpFacts DEF Cancel, Unlock, TypeInv, Placed
<1>2. CASE pc[r] \notin FileOps /\ End(r)
  <2>1. cancels' \in 0..MaxCancels
    BY <1>1, FsAssumption DEF TypeInv, Counters
  <2> QED BY <1>1, <1>2, <2>1, StopType, FilesSame DEF TypeInv, Counters
<1>3. CASE pc[r] \in FileOps /\ job' = [job EXCEPT ![r].ghost = TRUE] /\ UNCHANGED pc
  <2> DEFINE j == [job[r] EXCEPT !.ghost = TRUE]
  <2>1. pc' = [pc EXCEPT ![r] = pc[r]] /\ job' = [job EXCEPT ![r] = j]
    BY <1>1, <1>3 DEF TypeInv, Placed, Jobs
  <2>2. /\ j \in Jobs /\ j.op = job[r].op /\ j.ghost /\ j.then = job[r].then
        /\ j.info = job[r].info /\ j.path = job[r].path /\ j.value = job[r].value
        /\ j.at = job[r].at /\ j.n = job[r].n /\ j.pos = job[r].pos
    BY <1>1 DEF Jobs
  <2> HIDE DEF j
  <2>3. Fits(pc[r], j) /\ Sized(pc[r], j, short)
    BY <1>1, <1>3, <2>2 DEF Fits, WriteFits, Leftover, Sized, Writes, FileOps
  <2> QED BY <1>1, <1>3, <2>1, <2>2, <2>3, GhostType DEF FileOps
<1>4. CASE /\ pc[r] \in {"combine", "list"}
           /\ job' = [job EXCEPT ![r].ghost = TRUE, ![r].path = "data", ![r].value = <<>>]
           /\ Goto(r, "open")
  <2> DEFINE v == <<>>
             j == [job[r] EXCEPT !.ghost = TRUE, !.path = "data", !.value = v]
  <2>1. pc' = [pc EXCEPT ![r] = "open"] /\ job' = [job EXCEPT ![r] = j]
    BY <1>1, <1>4 DEF Goto, TypeInv, Placed, Jobs
  <2>2. v \in Seq(Nat)
    BY EmptySeq
  <2> HIDE DEF v
  <2>3. /\ j \in Jobs /\ j.op = job[r].op /\ j.ghost /\ j.path = "data" /\ j.value = v
        /\ j.pos = job[r].pos
    BY <1>1, <2>2, PathFacts DEF Jobs
  <2> HIDE DEF j
  <2>4. Fits("open", j) /\ Sized("open", j, short)
    BY <1>1, <1>4, <2>2, <2>3, PathFacts DEF Fits, Leftover, Sized, Writes, FileOps
  <2> QED BY <1>1, <1>4, <2>1, <2>3, <2>4, GhostType DEF FileOps
<1>5. CASE pc[r] = "combining" /\ DataLater(r, <<Len(files["data"]) + 1>>)
  <2>1. Len(files["data"]) + 1 \in Nat
    BY <1>5, PathFacts, LenProperties DEF DataLater, TypeInv, FilesOK
  <2>2. <<Len(files["data"]) + 1>> \in Seq(Nat)
    BY <2>1
  <2> QED BY <1>1, <1>5, <2>2, LaterType
<1>6. CASE /\ pc[r] = "copy" /\ files[PartAtHand(r)] # Absent
           /\ DataLater(r, files[PartAtHand(r)])
  BY <1>1, <1>6, PartFacts, LaterType
<1> QED BY <1>2, <1>3, <1>4, <1>5, <1>6 DEF Cancel

LEMMA OperationFailsType == ASSUME TypeInv, NEW r \in Reqs, OperationFails(r) PROVE TypeInv'
<1>1. /\ life' = life /\ told' = told /\ finished' = finished /\ cancels' = cancels
      /\ short' = short /\ faults' = faults + 1 /\ faults < MaxFaults /\ End(r)
      /\ pc[r] # "idle"
  BY DEF OperationFails
<1>2. faults' \in 0..MaxFaults /\ cancels' \in 0..MaxCancels
  BY <1>1, FsAssumption DEF TypeInv, Counters
<1>3. FilesOK'
  <2>1. CASE files' = files
    BY <1>1, <2>1, FilesSame
  <2>2. CASE /\ pc[r] = "fill"
             /\ \E some \in Firsts(job[r].value) :
                  files' = [files EXCEPT ![job[r].path] = Overlaid(@, job[r].pos, some)]
    BY <1>1, <2>2, FillFiles
  <2>3. CASE /\ pc[r] = "copy" /\ files[PartAtHand(r)] # Absent
             /\ \E some \in Firsts(files[PartAtHand(r)]) :
                  files' = [files EXCEPT !["data"] = DataWith(some)]
    <3>1. PICK some \in Firsts(files[PartAtHand(r)]) :
                 files' = [files EXCEPT !["data"] = DataWith(some)]
      BY <2>3
    <3>2. some \in Seq(Nat)
      <4>1. files[PartAtHand(r)] \in Seq(Nat)
        BY <2>3, PartFacts
      <4> QED BY <4>1 DEF Firsts
    <3> QED BY <1>1, <3>1, <3>2, DataFiles
  <2> QED BY <2>1, <2>2, <2>3 DEF OperationFails
<1> QED BY <1>1, <1>2, <1>3, StopType

LEMMA CrashType == ASSUME TypeInv, Crash PROVE TypeInv'
<1>1. /\ life' = life /\ told' = told /\ finished' = finished /\ cancels' = cancels
      /\ short' = short /\ faults' = faults + 1 /\ faults < MaxFaults /\ files' = files
      /\ owner' = NoReq /\ pc' = [r \in Reqs |-> "idle"] /\ job' = [r \in Reqs |-> Blank]
  BY DEF Crash
<1>2. faults' \in 0..MaxFaults
  BY <1>1, FsAssumption DEF TypeInv, Counters
<1>3. FilesOK' /\ short \in BOOLEAN
  BY <1>1, FilesSame DEF TypeInv, Counters
<1>4. Placed'
  BY <1>1, <1>3, BlankFits DEF Placed, Labels
<1>5. Order'
  BY <1>1, BlankFits DEF Order, Active
<1> QED BY <1>1, <1>2, <1>3, <1>4, <1>5 DEF TypeInv, Counters

LEMMA TypeStep == ASSUME TypeInv, [Next]_vars PROVE TypeInv'
<1>1. CASE UNCHANGED vars
  BY <1>1 DEF vars, TypeInv, FilesOK, Counters, Placed, Order, Active, Info
<1>2. CASE Crash
  BY <1>2, CrashType
<1>3. ASSUME NEW r \in Reqs, OpenFile(r) \/ FillFile(r) \/ RemoveFile(r) \/ Sweep(r)
      PROVE  TypeInv'
  BY <1>3, OpenType, FillType, RemoveType, SweepType
<1>4. ASSUME NEW r \in Reqs, Post(r) PROVE TypeInv'
  BY <1>4, PostArriveType, CombineType, CombiningType, PlainType, PostBodyType, FsAssumption
     DEF Post
<1>5. ASSUME NEW r \in Reqs, Patch(r) PROVE TypeInv'
  <2>1. \A at \in 0..MaxLen, n \in ChunkLens : at \in Nat /\ n \in Nat
    BY FsAssumption
  <2>2. \A n \in Sizes \ {NoLen} : n \in Nat
    BY FsAssumption
  <2> QED BY <1>5, <2>1, <2>2, ArriveType, PlainType, DeclareType, ReadChunkType, WritePartType,
             SaveOffsetType, RereadType, ListPartsType, CopyPartType, DoneType DEF Patch
<1>6. ASSUME NEW r \in Reqs, Others(r) PROVE TypeInv'
  BY <1>6, ArriveType, LockType, HeadType, LoadGetType, GetReadType, LoadDeleteType,
     ListLeftType, DeletedType DEF Others
<1>7. ASSUME NEW r \in Reqs, Fail(r) \/ Cancel(r) \/ OperationFails(r) PROVE TypeInv'
  BY <1>7, FailType, CancelType, OperationFailsType
<1> QED BY <1>1, <1>2, <1>3, <1>4, <1>5, <1>6, <1>7 DEF Next

LEMMA TypeInit == Init => TypeInv
<1> SUFFICES ASSUME Init PROVE TypeInv
  OBVIOUS
<1>1. FilesOK
  BY PathFacts DEF Init, FilesOK
<1>2. Counters
  <2>1. 0 \in 0..MaxFaults /\ 0 \in 0..MaxCancels
    BY FsAssumption
  <2> QED BY <2>1 DEF Init, Counters
<1>3. Placed
  BY BlankFits DEF Init, Placed, Labels
<1>4. Order
  BY BlankFits DEF Init, Order, Active
<1> QED BY <1>1, <1>2, <1>3, <1>4 DEF TypeInv

LEMMA TypeInvariance == Spec => []TypeInv
BY TypeInit, TypeStep, PTL DEF Spec

(* error.rs ExceedsUploadLength: whatever fails, and however late a thread *)
(* writes for a request that is gone, the info on disk never counts more   *)
(* bytes than the declared length.                                         *)
THEOREM OffsetsBounded == Spec => []OffsetWithinSize
<1>1. TypeInv => OffsetWithinSize
  BY InfoFacts DEF OffsetWithinSize, Bounded
<1> QED BY <1>1, TypeInvariance, PTL


-----------------------------------------------------------------------------
(* One request at a time: as long as nobody was dropped, whoever is past   *)
(* the lock is alone there.                                                *)

LEMMA Solo ==
  ASSUME TypeInv, cancels = 0, NEW r \in Reqs, Active(r), NEW q \in Reqs, q # r
  PROVE  ~Active(q)
<1>1. job[r].op = "post" => pc[q] = "idle"
  BY DEF TypeInv, Order
<1>2. job[q].op = "post" => pc[r] = "idle"
  BY DEF TypeInv, Order
<1>3. job[r].op # "post" => owner = r
  BY DEF TypeInv, Order
<1>4. job[q].op # "post" /\ Active(q) => owner = q
  BY DEF TypeInv, Order
<1> QED BY <1>1, <1>2, <1>3, <1>4 DEF Active

FileStep(r) == OpenFile(r) \/ FillFile(r) \/ RemoveFile(r) \/ Sweep(r)
Stops(r) == Fail(r) \/ Cancel(r) \/ OperationFails(r)
Acts(r) == FileStep(r) \/ Post(r) \/ Patch(r) \/ Others(r) \/ Stops(r)

LEMMA Steps == Next <=> Crash \/ \E r \in Reqs : Acts(r)
BY DEF Next, Acts, FileStep, Stops

(* What an action of r leaves alone.                                       *)
Mine(r) ==
  /\ \A q \in Reqs : q # r => pc'[q] = pc[q] /\ job'[q] = job[q]
  /\ cancels' \in {cancels, cancels + 1}

LEMMA EndMine ==
  ASSUME TypeInv, NEW r \in Reqs, End(r), cancels' \in {cancels, cancels + 1}
  PROVE  Mine(r) /\ pc'[r] = "idle" /\ job'[r] = Blank
BY DEF End, Goto, Mine, TypeInv, Placed

LEMMA GotoMine ==
  ASSUME TypeInv, NEW r \in Reqs, NEW l, Goto(r, l), cancels' = cancels,
         \/ job' = job
         \/ \E j : job' = [job EXCEPT ![r] = j]
  PROVE  Mine(r) /\ pc'[r] = l
BY DEF Goto, Mine, TypeInv, Placed

LEMMA Frame == ASSUME TypeInv, NEW r \in Reqs, Acts(r) PROVE Mine(r)
<1>1. CASE FileStep(r)
  BY <1>1 DEF FileStep, OpenFile, FillFile, RemoveFile, Sweep, Resume, Goto, Mine, outside, TypeInv,
     Placed
<1>2. CASE Post(r)
  <2>1. \A size, kind : PostArrive(r, size, kind) => Mine(r)
    BY DEF PostArrive, Goto, Mine, TypeInv, Placed
  <2>2. Combine(r) \/ Combining(r) \/ PostNoBody(r) => Mine(r)
    BY DEF Combine, Combining, PostNoBody, Write, Goto, Mine, outside, TypeInv, Placed
  <2>3. \A n : PostBody(r, n) => Mine(r)
    BY DEF PostBody, Goto, Mine, outside, TypeInv, Placed
  <2> QED BY <1>2, <2>1, <2>2, <2>3 DEF Post
<1>3. CASE Patch(r)
  <2>4. \A at, n : Arrive(r, "patch", at, n) => Mine(r)
    BY DEF Arrive, Goto, Mine, outside, TypeInv, Placed
  <2>5. \A n : Declare(r, n) => Mine(r)
    BY DEF Declare, Write, Goto, Mine, outside, TypeInv, Placed
  <2>1. CASE LoadPatch(r) \/ ReadChunk(r)
    BY <2>1 DEF LoadPatch, ReadChunk, Goto, Mine, outside, TypeInv, Placed
  <2>2. CASE WritePart(r) \/ SaveOffset(r) \/ Finish(r) \/ ListParts(r) \/ CopyPart(r)
    BY <2>2 DEF WritePart, SaveOffset, Finish, ListParts, CopyPart, Write, Goto, Mine, outside,
       TypeInv, Placed
  <2>3. CASE Reread(r) \/ Done(r)
    BY <2>3, EndMine DEF Reread, Done, Goto, Mine, outside, TypeInv, Placed
  <2> QED BY <1>3, <2>1, <2>2, <2>3, <2>4, <2>5 DEF Patch
<1>4. CASE Others(r)
  <2>1. CASE \/ \E op \in {"get", "delete"} : Arrive(r, op, 0, 0)
             \/ Lock(r) \/ HeadRequest(r) \/ LoadGet(r)
    BY <2>1 DEF Arrive, Lock, HeadRequest, LoadGet, Goto, Mine, outside, TypeInv, Placed
  <2>2. CASE GetRead(r) \/ LoadDelete(r) \/ ListLeft(r) \/ Deleted(r)
    BY <2>2, EndMine DEF GetRead, LoadDelete, ListLeft, Deleted, Goto, Mine, outside, TypeInv, Placed
  <2> QED BY <1>4, <2>1, <2>2 DEF Others
<1>5. CASE Stops(r)
  <2>1. CASE Fail(r) \/ OperationFails(r)
    BY <2>1, EndMine DEF Fail, OperationFails, outside
  <2>2. CASE Cancel(r)
    BY <2>2, EndMine DEF Cancel, DataLater, Goto, Mine, TypeInv, Placed
  <2> QED BY <1>5, <2>1, <2>2 DEF Stops
<1> QED BY <1>1, <1>2, <1>3, <1>4, <1>5 DEF Acts

-----------------------------------------------------------------------------
(* The lock is held by a handler at work, never by the thread of one that  *)
(* was dropped.                                                            *)

HolderInv == owner # NoReq => Active(owner) /\ ~job[owner].ghost

(* A handler that goes on keeps the lock; one that ends gives it back.     *)
GoesOnBy(r) == owner' = owner /\ Active(r)' /\ job'[r].ghost = job[r].ghost
Frees(r) == owner' = IF owner = r THEN NoReq ELSE owner

LEMMA HolderFiles ==
  ASSUME TypeInv, HolderInv, NEW r \in Reqs, FileStep(r)
  PROVE  GoesOnBy(r) \/ (owner' = owner /\ owner # r)
<1>1. /\ job[r] \in Jobs /\ Fits(pc[r], job[r]) /\ owner' = owner
      /\ pc \in [Reqs -> Labels] /\ job \in [Reqs -> Jobs] /\ NoReq \notin Reqs
  BY OpFacts, AbsentFacts DEF FileStep, OpenFile, FillFile, RemoveFile, Sweep, TypeInv, Placed
<1>2. job[r].ghost => owner # r
  BY <1>1 DEF HolderInv
<1>3. CASE OpenFile(r)
  BY <1>1, <1>3 DEF OpenFile, Goto, GoesOnBy, Active
<1>4. ASSUME NEW l, Resume(r, l), ~job[r].ghost => l \notin {"idle", "lock"}
      PROVE  GoesOnBy(r) \/ owner # r
  BY <1>1, <1>2, <1>4 DEF Resume, Goto, GoesOnBy, Active
<1>5. CASE FillFile(r)
  <2>1. ~job[r].ghost => job[r].then \notin {"idle", "lock"}
    BY <1>1, <1>5 DEF FillFile, Fits, WriteFits, Leftover, Writes
  <2> QED BY <1>1, <1>4, <1>5, <2>1 DEF FillFile
<1>6. CASE RemoveFile(r)
  BY <1>1, <1>4, <1>6 DEF RemoveFile
<1>7. CASE Sweep(r)
  <2>1. job[r].then \notin {"idle", "lock"}
    BY <1>1, <1>7 DEF Sweep, Fits
  <2>2. pc'[r] \in {"remove", job[r].then} /\ job'[r].ghost = job[r].ghost
    BY <1>1, <1>7 DEF Sweep, Goto, Jobs
  <2> QED BY <1>1, <2>1, <2>2 DEF GoesOnBy, Active
<1> QED BY <1>1, <1>3, <1>5, <1>6, <1>7 DEF FileStep

LEMMA HolderActs ==
  ASSUME TypeInv, HolderInv, NEW r \in Reqs, Acts(r), ~FileStep(r)
  PROVE  \/ GoesOnBy(r) \/ Frees(r) \/ (owner' = owner /\ owner # r)
         \/ owner' = r /\ Active(r)' /\ ~job'[r].ghost
<1>1. /\ job[r] \in Jobs /\ Fits(pc[r], job[r])
      /\ pc \in [Reqs -> Labels] /\ job \in [Reqs -> Jobs] /\ NoReq \notin Reqs
  BY OpFacts, AbsentFacts DEF TypeInv, Placed
<1>2. End(r) => Frees(r)
  BY DEF End, Unlock, Frees
<1>3. pc[r] \in {"idle", "lock"} => owner # r
  BY <1>1 DEF HolderInv, Active
<1>4. ASSUME NEW l, Goto(r, l), l \notin {"idle", "lock"}, owner' = owner,
             job'[r].ghost = job[r].ghost
      PROVE  GoesOnBy(r)
  BY <1>1, <1>4 DEF Goto, GoesOnBy, Active
<1>5. ASSUME NEW path, NEW value, NEW l, Write(r, path, value, l), owner' = owner
      PROVE  GoesOnBy(r)
  BY <1>1, <1>5 DEF Write, Goto, GoesOnBy, Active, Jobs
<1>6. CASE Post(r)
  <2>1. CASE \E size \in Sizes, kind \in Kinds : PostArrive(r, size, kind)
    BY <1>3, <2>1 DEF PostArrive
  <2>2. CASE Combine(r) \/ PostNoBody(r)
    BY <1>1, <1>4, <2>2 DEF Combine, PostNoBody
  <2>3. CASE Combining(r)
    <3>1. CASE Len(files["data"]) < FinalLen
      BY <1>1, <2>3, <3>1 DEF Combining, GoesOnBy, Active
    <3> QED BY <1>5, <2>3, <3>1 DEF Combining
  <2>4. CASE \E n \in ChunkLens : PostBody(r, n)
    <3>1. pc'[r] = "chunk" /\ job'[r].ghost = job[r].ghost /\ owner' = owner
      BY <1>1, <2>4 DEF PostBody, Goto, Jobs
    <3> QED BY <3>1 DEF GoesOnBy, Active
  <2> QED BY <1>6, <2>1, <2>2, <2>3, <2>4 DEF Post
<1>7. CASE Patch(r)
  <2>1. CASE \E at \in 0..MaxLen, n \in ChunkLens : Arrive(r, "patch", at, n)
    BY <1>3, <2>1 DEF Arrive
  <2>2. CASE LoadPatch(r) \/ Finish(r)
    BY <1>1, <1>4, <2>2 DEF LoadPatch, Finish
  <2>3. CASE (\E n \in Sizes \ {NoLen} : Declare(r, n)) \/ WritePart(r) \/ SaveOffset(r)
    BY <1>5, <2>3 DEF Declare, WritePart, SaveOffset
  <2>4. CASE ReadChunk(r)
    BY <1>1, <1>4, <2>4 DEF ReadChunk, Jobs
  <2>5. CASE Reread(r) \/ Done(r)
    <3>1. CASE Reread(r) /\ IsComplete(Info)
      <4>1. pc'[r] = "finish" /\ job'[r].ghost = job[r].ghost /\ owner' = owner
        BY <1>1, <3>1 DEF Reread, Goto, Jobs
      <4> QED BY <4>1 DEF GoesOnBy, Active
    <3>2. CASE Reread(r) /\ ~IsComplete(Info)
      BY <1>2, <3>2 DEF Reread
    <3> QED BY <1>2, <2>5, <3>1, <3>2 DEF Done
  <2>6. CASE ListParts(r)
    <3>1. CASE PartsSorted = <<>>
      BY <1>5, <2>6, <3>1 DEF ListParts
    <3>2. CASE PartsSorted # <<>>
      <4>1. pc'[r] = "copy" /\ job'[r].ghost = job[r].ghost /\ owner' = owner
        BY <1>1, <2>6, <3>2 DEF ListParts, Goto, Jobs
      <4> QED BY <4>1 DEF GoesOnBy, Active
    <3> QED BY <3>1, <3>2
  <2>7. CASE CopyPart(r)
    BY <1>1, <2>7 DEF CopyPart, Goto, GoesOnBy, Active, Jobs
  <2> QED BY <1>7, <2>1, <2>2, <2>3, <2>4, <2>5, <2>6, <2>7 DEF Patch
<1>8. CASE Others(r)
  <2>1. CASE \E op \in {"get", "delete"} : Arrive(r, op, 0, 0)
    BY <1>3, <2>1 DEF Arrive
  <2>2. CASE Lock(r)
    BY <1>1, <2>2 DEF Lock, Goto, Active, Fits, FileOps, Jobs
  <2>3. CASE HeadRequest(r)
    BY <1>3, <2>3 DEF HeadRequest
  <2>4. CASE LoadGet(r) \/ LoadDelete(r) \/ ListLeft(r)
    <3>1. pc'[r] \in {"read", "sweep"} /\ job'[r].ghost = job[r].ghost /\ owner' = owner
      BY <1>1, <2>4 DEF LoadGet, LoadDelete, ListLeft, Goto, Jobs
    <3> QED BY <3>1 DEF GoesOnBy, Active
  <2>5. CASE GetRead(r) \/ Deleted(r)
    BY <1>2, <2>5 DEF GetRead, Deleted
  <2> QED BY <1>8, <2>1, <2>2, <2>3, <2>4, <2>5 DEF Others
<1>9. CASE Stops(r)
  BY <1>2, <1>9 DEF Stops, Fail, Cancel, OperationFails, Unlock, Frees
<1> QED BY <1>6, <1>7, <1>8, <1>9 DEF Acts

LEMMA HolderStep == ASSUME TypeInv, HolderInv, [Next]_vars PROVE HolderInv'
<1>1. CASE UNCHANGED vars
  BY <1>1 DEF vars, HolderInv, Active
<1>2. CASE Crash
  BY <1>2 DEF Crash, HolderInv
<1>3. ASSUME NEW r \in Reqs, Acts(r) PROVE HolderInv'
  <2>1. \A q \in Reqs : q # r => pc'[q] = pc[q] /\ job'[q] = job[q]
    BY <1>3, Frame DEF Mine
  <2>2. NoReq \notin Reqs /\ owner \in Reqs \union {NoReq}
    BY AbsentFacts DEF TypeInv, Counters
  <2>3. \/ GoesOnBy(r) \/ Frees(r) \/ (owner' = owner /\ owner # r)
        \/ owner' = r /\ Active(r)' /\ ~job'[r].ghost
    BY <1>3, HolderFiles, HolderActs
  <2> QED BY <2>1, <2>2, <2>3 DEF HolderInv, Active, GoesOnBy, Frees
<1> QED BY <1>1, <1>2, <1>3, Steps

LEMMA HolderInvariance == Spec => []HolderInv
<1>1. Init => HolderInv
  BY DEF Init, HolderInv
<1> QED BY <1>1, HolderStep, TypeInvariance, PTL DEF Spec

(* The files, the locals of every handler and thread and the counters keep *)
(* their types, and the lock is held by a handler at work and never by the *)
(* thread of a dropped one, whatever fails and whoever is dropped.         *)
THEOREM Typing == Spec => []TypeOK
<1>1. TypeInv /\ HolderInv => TypeOK
  <2> SUFFICES ASSUME TypeInv, HolderInv PROVE TypeOK
    OBVIOUS
  <2>1. \A r \in Reqs : /\ job[r].path \in Paths /\ job[r].then \in Labels
                        /\ pc[r] = "idle" => job[r] = Blank
    BY OpFacts DEF Jobs
  <2> QED BY <2>1 DEF TypeInv, FilesOK, Counters, Placed, TypeOK, HolderInv, Active
<1> QED BY <1>1, TypeInvariance, HolderInvariance, PTL

-----------------------------------------------------------------------------
(* What the steps that take an input do, but for the locals.               *)
LEMMA ArriveFacts ==
  ASSUME NEW r, NEW op, NEW at, NEW n, Arrive(r, op, at, n)
  PROVE  /\ pc[r] = "idle" /\ life \in {"known", "doomed", "gone"} /\ Goto(r, "lock")
         /\ files' = files /\ owner' = owner /\ life' = life /\ told' = told
         /\ finished' = finished /\ faults' = faults /\ cancels' = cancels /\ short' = short
BY DEF Arrive, outside

LEMMA PostArriveFacts ==
  ASSUME NEW r, NEW size, NEW kind, PostArrive(r, size, kind)
  PROVE  /\ pc[r] = "idle" /\ life = "new" /\ life' = "made" /\ Goto(r, "open")
         /\ files' = files /\ owner' = owner /\ told' = told
         /\ finished' = finished /\ faults' = faults /\ cancels' = cancels /\ short' = short
BY DEF PostArrive

LEMMA DeclareFacts ==
  ASSUME NEW r, NEW n, Declare(r, n)
  PROVE  /\ pc[r] = "declare" /\ Readable /\ Info.size = NoLen /\ Goto(r, "open")
         /\ files' = files /\ owner' = owner /\ life' = life /\ told' = told
         /\ finished' = finished /\ faults' = faults /\ cancels' = cancels
BY DEF Declare, Write

LEMMA PostBodyFacts ==
  ASSUME NEW r, NEW n, PostBody(r, n)
  PROVE  pc[r] = "body" /\ Goto(r, "chunk") /\ UNCHANGED <<files, owner, outside>>
BY DEF PostBody

(* A request that waits or is idle touches no file.                        *)
LEMMA Waiting ==
  ASSUME TypeInv, NEW r \in Reqs, Acts(r), ~Active(r), cancels' = cancels
  PROVE  /\ files' = files
         /\ \/ \E size \in Sizes, kind \in Kinds : PostArrive(r, size, kind)
            \/ \E at \in 0..MaxLen, n \in ChunkLens : Arrive(r, "patch", at, n)
            \/ \E op \in {"get", "delete"} : Arrive(r, op, 0, 0)
            \/ Lock(r) \/ HeadRequest(r) \/ Fail(r)
<1>1. pc[r] \in {"idle", "lock"} /\ cancels \in Nat
  BY FsAssumption DEF Active, TypeInv, Counters
<1>2. ~FileStep(r)
  BY <1>1 DEF FileStep, OpenFile, FillFile, RemoveFile, Sweep
<1>3. Post(r) => \E size \in Sizes, kind \in Kinds : PostArrive(r, size, kind)
  BY <1>1 DEF Post, Combine, Combining, PostNoBody, PostBody
<1>4. Patch(r) => \E at \in 0..MaxLen, n \in ChunkLens : Arrive(r, "patch", at, n)
  BY <1>1 DEF Patch, LoadPatch, Declare, ReadChunk, WritePart, SaveOffset, Reread, Finish,
     ListParts, CopyPart, Done
<1>5. Others(r) => \/ \E op \in {"get", "delete"} : Arrive(r, op, 0, 0)
                   \/ Lock(r) \/ HeadRequest(r)
  BY <1>1 DEF Others, LoadGet, GetRead, LoadDelete, ListLeft, Deleted
<1>6. Stops(r) => Fail(r)
  BY <1>1 DEF Stops, Cancel, OperationFails
<1>7. \/ \E size \in Sizes, kind \in Kinds : PostArrive(r, size, kind)
      \/ \E at \in 0..MaxLen, n \in ChunkLens : Arrive(r, "patch", at, n)
      \/ \E op \in {"get", "delete"} : Arrive(r, op, 0, 0)
      \/ Lock(r) \/ HeadRequest(r) \/ Fail(r)
  BY <1>2, <1>3, <1>4, <1>5, <1>6 DEF Acts
<1>8. files' = files
  BY <1>7, ArriveFacts, PostArriveFacts DEF Lock, HeadRequest, Fail
<1> QED BY <1>7, <1>8


-----------------------------------------------------------------------------
(* A DELETE that nobody dropped: what it has not removed is still on its   *)
(* list, and whoever comes after it finds nothing to write to.             *)

Removal == {"sweep", "remove", "list_left", "deleted"}

Removed(r, p) ==
  \/ files[p] = Absent
  \/ pc[r] \in {"sweep", "remove"} /\ p \in ToSet(job[r].todo)
  \/ pc[r] = "remove" /\ job[r].path = p
  \/ p \in Parts /\ job[r].then = "list_left"

Deleting(r) ==
  job[r].op = "delete" /\ pc[r] \in Removal => life = "doomed" /\ \A p \in Paths : Removed(r, p)

Gone ==
  life = "gone" =>
    (\A p \in Paths : files[p] = Absent) /\ \A r \in Reqs : pc[r] \in {"idle", "lock", "load"}

DeletedInv == cancels = 0 => Gone /\ \A r \in Reqs : Deleting(r)

LEMMA DeletePath ==
  ASSUME TypeInv, NEW r \in Reqs, Acts(r), cancels' = cancels,
         pc'[r] \in Removal, job'[r].op = "delete"
  PROVE  RemoveFile(r) \/ Sweep(r) \/ LoadDelete(r) \/ ListLeft(r)
<1>1. /\ job[r] \in Jobs /\ Fits(pc[r], job[r]) /\ pc \in [Reqs -> Labels]
      /\ cancels \in Nat /\ pc'[r] \in {"sweep", "remove", "list_left", "deleted"}
  BY OpFacts, FsAssumption DEF TypeInv, Placed, Counters, Removal
<1>2. ~OpenFile(r)
  BY <1>1 DEF OpenFile, Goto
<1>3. ~FillFile(r)
  <2> SUFFICES ASSUME FillFile(r) PROVE FALSE
    OBVIOUS
  <2>1. pc'[r] \in {"idle", job[r].then}
    BY <1>1 DEF FillFile, Resume, Goto
  <2> QED BY <1>1, <2>1 DEF FillFile, Fits, WriteFits, Leftover, Writes, Resume, Goto
<1>4. ~Post(r)
  BY <1>1, PostArriveFacts, PostBodyFacts DEF Post, Combine, Combining, PostNoBody, Write, Goto
<1>5. ~Patch(r)
  <2>1. ~(\E at \in 0..MaxLen, n \in ChunkLens : Arrive(r, "patch", at, n))
    BY <1>1, ArriveFacts DEF Goto
  <2>2. ~(LoadPatch(r) \/ (\E n \in Sizes \ {NoLen} : Declare(r, n)) \/ ReadChunk(r))
    BY <1>1, DeclareFacts DEF LoadPatch, ReadChunk, Goto
  <2>3. ~(WritePart(r) \/ SaveOffset(r) \/ Finish(r) \/ ListParts(r))
    BY <1>1 DEF WritePart, SaveOffset, Finish, ListParts, Write, Goto
  <2>4. ~CopyPart(r)
    <3> SUFFICES ASSUME CopyPart(r) PROVE FALSE
      OBVIOUS
    <3>1. job'[r].op = job[r].op /\ job[r].op \in {"post", "patch"}
      BY <1>1 DEF CopyPart, Fits, TypeInv, Placed, Jobs
    <3> QED BY <3>1
  <2>5. ~(Reread(r) \/ Done(r))
    BY <1>1 DEF Reread, Done, End, Goto
  <2> QED BY <2>1, <2>2, <2>3, <2>4, <2>5 DEF Patch
<1>6. Others(r) => LoadDelete(r) \/ ListLeft(r)
  BY <1>1 DEF Others, Arrive, Lock, HeadRequest, LoadGet, GetRead, Deleted, End, Goto
<1>7. ~Stops(r)
  BY <1>1 DEF Stops, Fail, Cancel, OperationFails, End, Goto
<1> QED BY <1>2, <1>3, <1>4, <1>5, <1>6, <1>7 DEF Acts, FileStep

LEMMA WhenGone ==
  ASSUME TypeInv, Gone, life = "gone", NEW r \in Reqs, Acts(r), cancels' = cancels
  PROVE  files' = files /\ pc'[r] \in {"idle", "lock", "load"}
<1>1. /\ pc[r] \in {"idle", "lock", "load"} /\ ~Readable /\ files["info"] = Absent
      /\ pc \in [Reqs -> Labels] /\ cancels \in Nat
  BY PathFacts, FsAssumption DEF Gone, Readable, TypeInv, Placed, Counters
<1>2. CASE ~Active(r)
  BY <1>1, <1>2, Waiting, ArriveFacts, PostArriveFacts DEF Lock, HeadRequest, Fail, End, Goto
<1>3. CASE pc[r] = "load"
  <2>1. Fail(r)
    BY <1>1, <1>3 DEF Acts, FileStep, OpenFile, FillFile, RemoveFile, Sweep,
       Post, PostArrive, Combine, Combining, PostNoBody, PostBody,
       Patch, Arrive, LoadPatch, Declare, ReadChunk, WritePart, SaveOffset, Reread, Finish,
       ListParts, CopyPart, Done, Others, Lock, HeadRequest, LoadGet, GetRead, LoadDelete,
       ListLeft, Deleted, Stops, Cancel, OperationFails
  <2> QED BY <1>1, <2>1 DEF Fail, End, Goto
<1> QED BY <1>1, <1>2, <1>3 DEF Active

LEMMA GonePath ==
  ASSUME TypeInv, NEW r \in Reqs, Acts(r), life' = "gone", life # "gone"
  PROVE  Deleted(r)
<1>1. ~FileStep(r)
  BY DEF FileStep, OpenFile, FillFile, RemoveFile, Sweep, outside
<1>2. ~Post(r)
  BY DEF Post, PostArrive, Combine, Combining, PostNoBody, PostBody, outside
<1>3. ~Patch(r)
  BY ArriveFacts, DeclareFacts DEF Patch, LoadPatch, ReadChunk, WritePart, SaveOffset, Reread,
     Finish, ListParts, CopyPart, Done, outside
<1>4. Others(r) => Deleted(r)
  BY DEF Others, Arrive, Lock, HeadRequest, LoadGet, GetRead, LoadDelete, ListLeft, outside
<1>5. ~Stops(r)
  BY DEF Stops, Fail, Cancel, OperationFails, outside
<1> QED BY <1>1, <1>2, <1>3, <1>4, <1>5 DEF Acts


LEMMA DeletedActs ==
  ASSUME TypeInv, DeletedInv, cancels = 0, cancels' = 0, NEW r \in Reqs, Acts(r)
  PROVE  Gone' /\ \A q \in Reqs : Deleting(q)'
<1>1. Gone /\ \A q \in Reqs : Deleting(q)
  BY DEF DeletedInv
<1>2. /\ \A q \in Reqs : q # r => pc'[q] = pc[q] /\ job'[q] = job[q]
      /\ pc \in [Reqs -> Labels] /\ job[r] \in Jobs /\ Fits(pc[r], job[r]) /\ ~job[r].ghost
      /\ DOMAIN files = Paths /\ job \in [Reqs -> Jobs]
  BY Frame, OpFacts DEF Mine, TypeInv, Placed, FilesOK
<1>3. ASSUME NEW q \in Reqs, q # r PROVE Deleting(q)'
  <2> SUFFICES ASSUME job[q].op = "delete", pc[q] \in Removal
               PROVE  Deleting(q)'
    BY <1>2, <1>3 DEF Deleting
  <2>1. ~Active(r)
    BY <1>3, Solo DEF Active, Removal
  <2>2. life = "doomed" /\ Deleting(q)
    BY <1>1 DEF Deleting
  <2>3. files' = files /\ life' = life
    BY <2>1, <2>2, Waiting, ArriveFacts, PostArriveFacts DEF Lock, HeadRequest, Fail, outside
  <2> QED BY <1>2, <1>3, <2>2, <2>3 DEF Deleting, Removed
<1>4. Deleting(r)'
  <2> SUFFICES ASSUME job'[r].op = "delete", pc'[r] \in Removal
               PROVE  Deleting(r)'
    BY DEF Deleting
  <2>1. CASE RemoveFile(r)
    <3>1. /\ pc[r] = "remove" /\ pc'[r] = "sweep" /\ job' = job /\ life' = life
          /\ files' = [files EXCEPT ![job[r].path] = Absent]
      BY <1>2, <2>1 DEF RemoveFile, Resume, Goto, outside
    <3>2. Deleting(r)
      BY <1>1
    <3> QED BY <1>2, <3>1, <3>2 DEF Deleting, Removed, Removal
  <2>2. CASE Sweep(r)
    <3>1. /\ pc[r] = "sweep" /\ files' = files /\ life' = life
      BY <2>2 DEF Sweep, outside
    <3>2. job'[r].op = job[r].op /\ job'[r].then = job[r].then
      BY <1>2, <2>2 DEF Sweep, Jobs
    <3>3. CASE job[r].todo = <<>>
      <4>1. ToSet(job[r].todo) = {}
        BY <3>3, EmptySeq DEF ToSet
      <4>2. job' = job
        BY <2>2, <3>3 DEF Sweep
      <4>3. life = "doomed" /\ \A p \in Paths : Removed(r, p)
        BY <1>1, <3>1, <3>2 DEF Deleting, Removal
      <4> QED BY <3>1, <4>1, <4>2, <4>3 DEF Deleting, Removed
    <3>4. CASE job[r].todo # <<>>
      <4>1. /\ pc'[r] = "remove" /\ job'[r].path = Head(job[r].todo)
            /\ job'[r].todo = Tail(job[r].todo)
        BY <1>2, <2>2, <3>4 DEF Sweep, Goto, Jobs
      <4>2. \A p \in ToSet(job[r].todo) : p = Head(job[r].todo) \/ p \in ToSet(Tail(job[r].todo))
        <5> DEFINE s == job[r].todo
        <5>1. s \in Seq(Paths) /\ s # <<>>
          BY <1>2, <3>4 DEF Jobs
        <5> HIDE DEF s
        <5>2. ASSUME NEW i \in 1..Len(s), i # 1 PROVE s[i] \in ToSet(Tail(s))
          <6>1. /\ Tail(s) \in Seq(Paths) /\ Len(Tail(s)) = Len(s) - 1 /\ Len(s) \in Nat
                /\ \A m \in 1..(Len(s) - 1) : Tail(s)[m] = s[m + 1]
            BY <5>1, HeadTailProperties, LenProperties
          <6>2. i - 1 \in 1..(Len(s) - 1) /\ (i - 1) + 1 = i
            BY <5>2, <6>1
          <6>3. Tail(s)[i - 1] = s[i]
            BY <6>1, <6>2
          <6> QED BY <6>1, <6>2, <6>3, LenProperties DEF ToSet
        <5>3. Head(s) = s[1]
          BY <5>1, HeadTailProperties
        <5> QED BY <5>1, <5>2, <5>3, LenProperties DEF ToSet, s
      <4>3. life = "doomed" /\ \A p \in Paths : Removed(r, p)
        BY <1>1, <3>1, <3>2 DEF Deleting, Removal
      <4> QED BY <3>1, <3>2, <4>1, <4>2, <4>3 DEF Deleting, Removed
    <3> QED BY <3>3, <3>4
  <2>3. CASE LoadDelete(r)
    <3> DEFINE list == <<"data", "info">>
    <3>1. "data" \in ToSet(list) /\ "info" \in ToSet(list)
      BY DEF ToSet
    <3>2. /\ pc'[r] = "sweep" /\ job'[r].todo = list /\ life' = "doomed"
          /\ job'[r].then = "list_left"
      BY <1>2, <2>3 DEF LoadDelete, Goto, Jobs
    <3> HIDE DEF list
    <3> QED BY <3>1, <3>2 DEF Deleting, Removed, Paths, Parts
  <2>4. CASE ListLeft(r)
    <3>1. /\ pc[r] = "list_left" /\ files' = files /\ life' = life /\ job[r].op = "delete"
          /\ pc'[r] = "sweep" /\ job'[r].todo = PartsSorted
      BY <1>2, <2>4 DEF ListLeft, Goto, Fits, Jobs, outside
    <3>2. life = "doomed" /\ \A p \in Paths : Removed(r, p)
      BY <1>1, <3>1 DEF Deleting, Removal
    <3>3. \A p \in Paths : files[p] = Absent \/ p \in ToSet(PartsSorted)
      BY <3>1, <3>2, SortedFacts DEF Removed
    <3> QED BY <3>1, <3>2, <3>3 DEF Deleting, Removed
  <2> QED BY <2>1, <2>2, <2>3, <2>4, DeletePath
<1>5. Gone'
  <2> SUFFICES ASSUME life' = "gone"
               PROVE  /\ \A p \in Paths : files'[p] = Absent
                      /\ \A q \in Reqs : pc'[q] \in {"idle", "lock", "load"}
    BY DEF Gone
  <2>1. CASE life = "gone"
    <3>1. files' = files /\ pc'[r] \in {"idle", "lock", "load"}
      BY <1>1, <2>1, WhenGone
    <3> QED BY <1>1, <1>2, <2>1, <3>1 DEF Gone
  <2>2. CASE life # "gone"
    <3>1. Deleted(r)
      BY <2>2, GonePath
    <3>2. /\ pc[r] = "deleted" /\ files' = files /\ job[r].op = "delete" /\ Active(r)
          /\ pc'[r] = "idle" /\ job[r].then = "deleted"
      BY <1>2, <3>1 DEF Deleted, Fits, Active, End, Goto
    <3>3. \A p \in Paths : files[p] = Absent
      BY <1>1, <3>2 DEF Deleting, Removed, Removal
    <3>5. \A q \in Reqs : q # r => pc[q] \in {"idle", "lock"}
      BY <3>2, Solo DEF Active
    <3> QED BY <1>2, <3>2, <3>3, <3>5
  <2> QED BY <2>1, <2>2
<1> QED BY <1>3, <1>4, <1>5

LEMMA DeletedStep == ASSUME TypeInv, DeletedInv, [Next]_vars PROVE DeletedInv'
<1> SUFFICES ASSUME cancels' = 0 PROVE Gone' /\ \A q \in Reqs : Deleting(q)'
  BY DEF DeletedInv
<1>1. CASE UNCHANGED vars
  BY <1>1 DEF vars, DeletedInv, Gone, Deleting, Removed
<1>2. CASE Crash
  <2>1. /\ files' = files /\ life' = life /\ cancels = 0 /\ pc' = [r \in Reqs |-> "idle"]
    BY <1>2 DEF Crash
  <2> QED BY <2>1 DEF DeletedInv, Gone, Deleting, Removal
<1>3. ASSUME NEW r \in Reqs, Acts(r) PROVE Gone' /\ \A q \in Reqs : Deleting(q)'
  <2>1. cancels = 0
    BY <1>3, Frame, FsAssumption DEF Mine, TypeInv, Counters
  <2> QED BY <1>3, <2>1, DeletedActs
<1> QED BY <1>1, <1>2, <1>3, Steps

LEMMA DeletedInvariance == Spec => []DeletedInv
<1>1. Init => DeletedInv
  BY BlankFits DEF Init, DeletedInv, Gone, Deleting
<1>2. TypeInv /\ DeletedInv /\ [Next]_vars => DeletedInv'
  BY DeletedStep
<1> QED BY <1>1, <1>2, TypeInvariance, PTL DEF Spec

(* store.rs:23, "free all associated resources": as long as no request was *)
(* dropped, no file of the upload is left after the 204 of its DELETE, nor *)
(* does an earlier PATCH make one again, whatever failed or crashed before.*)
THEOREM NothingLeft == Spec => []NothingLeftBehind
<1>1. DeletedInv => NothingLeftBehind
  BY DEF DeletedInv, Gone, NothingLeftBehind
<1> QED BY <1>1, DeletedInvariance, PTL

-----------------------------------------------------------------------------
(* The bytes that clients were told of.  While parts are being written the *)
(* parts have them; when the last one is counted, finalize brings them     *)
(* into the data file before it removes the parts.                         *)

InParts(i) == \E p \in Parts : files[p] # Absent /\ i \in ToSet(files[p])
InData(i) == files["data"] # Absent /\ i \in ToSet(files["data"])
Up(n) == \A i \in 1..n : InParts(i)
DataUp(n) == \A i \in 1..n : InData(i)

(* The parts are the first m: the next one is a new file.                  *)
PartsTo(m) == \A j \in 1..Len(PartNames) : files[PartNames[j]] # Absent <=> j <= m
Numbered == \E m \in 0..Len(PartNames) : PartsTo(m)

LEMMA NoParts == ASSUME \A p \in Parts : files[p] = Absent PROVE PartsTo(0)
<1> SUFFICES ASSUME NEW j \in 1..Len(PartNames)
             PROVE  files[PartNames[j]] # Absent <=> j <= 0
  BY DEF PartsTo
<1>1. files[PartNames[j]] = Absent /\ ~(j <= 0)
  <2>1. PartNames[j] \in Parts
    BY PathFacts
  <2>2. ~(j <= 0)
    BY PathFacts
  <2> QED BY <2>1, <2>2
<1> QED BY <1>1

Building == Numbered /\ Up(told) /\ (Readable => Up(Info.offset))
Complete == Readable /\ IsComplete(Info) /\ DataUp(told) /\ DataUp(Info.offset)
Settled == (Readable /\ Info.final) \/ Building \/ Complete

(* A POST or PATCH that is past its first checks.                          *)
Working(r) == job[r].op \in {"post", "patch"} /\ pc[r] \notin {"idle", "lock", "load"}
Pending(r) == pc[r] \in Writes /\ job[r].path = "info"
AtPart(r) == pc[r] \in {"count", "save"} \/ (pc[r] \in Writes /\ job[r].then = "save")
AtEnd(r) ==
  \/ pc[r] \in {"finish", "list", "copy", "sweep", "remove", "done"}
  \/ pc[r] \in Writes /\ job[r].then = "done"

FinalOf(r) == (Readable /\ Info.final) \/ (Pending(r) /\ job[r].value[1].final)

(* The parts that CopyPart has been through.                               *)
CopiedTo(k, todo) == \A j \in 1..(k - 1) : ToSet(files[todo[j]]) \subseteq ToSet(files["data"])

(* What its program point says of the files.                               *)
Facts(r) ==
  /\ AtPart(r) => Readable /\ job[r].info = Info /\ Info.offset = job[r].at
  /\ pc[r] \in Writes /\ job[r].then = "save" => job[r].value = Chunk(job[r].at, job[r].n)
  /\ pc[r] = "fill" => files[job[r].path] = <<>>
  /\ pc[r] = "save" => \E p \in Parts : files[p] = Chunk(job[r].at, job[r].n)
  /\ AtEnd(r) => Readable /\ job[r].info = Info /\ IsComplete(Info)
  /\ pc[r] = "copy" =>
       /\ ToSet(job[r].todo) = {p \in Parts : files[p] # Absent}
       /\ files["data"] # Absent
       /\ CopiedTo(job[r].k, job[r].todo)
  /\ pc[r] \in {"sweep", "remove"} => job[r].todo \in Seq(Parts)
  /\ pc[r] = "remove" => job[r].path \in Parts
  /\ Pending(r) /\ job[r].then = "combine" => job[r].value[1].final
  /\ pc[r] \in {"combine", "combining"} => Readable /\ Info.final
  /\ Pending(r) /\ Readable /\ Info.final => job[r].value[1].final

(* And of the bytes.                                                       *)
Holds(r) ==
  /\ pc[r] \in {"chunk", "done"} => Building \/ Complete
  /\ pc[r] \in {"sweep", "remove"} => Complete
  /\ pc[r] \notin {"chunk", "done", "sweep", "remove"} => Building
  /\ Pending(r) => Up(job[r].value[1].offset)
  /\ pc[r] = "open" /\ job[r].then = "save" =>
       \E j \in 1..Len(PartNames) : PartsTo(j - 1) /\ job[r].path = PartNames[j]

Good(r) ==
  /\ Facts(r)
  /\ job[r].op = "patch" => ~FinalOf(r)
  /\ FinalOf(r) \/ Holds(r)

Keeps(r) == Working(r) /\ life \in {"made", "known"} => Good(r)

New == life = "new" => told = 0 /\ \A p \in Paths : files[p] = Absent
Rest == life = "known" /\ (\A r \in Reqs : ~Working(r)) => Settled
Sends == \A r \in Reqs : job[r].op = "patch" \/ pc[r] = "chunk" => job[r].n > 0

KeptInv == cancels = 0 => New /\ Rest /\ \A r \in Reqs : Keeps(r)

(* Files that an action leaves as they are.                                *)
LEMMA SameInfo ==
  ASSUME files'["info"] = files["info"]
  PROVE  Info' = Info /\ (Readable' <=> Readable)
BY DEF Info, Readable

LEMMA SameParts ==
  ASSUME \A p \in Parts : files'[p] = files[p]
  PROVE  /\ \A m : PartsTo(m)' <=> PartsTo(m)
         /\ Numbered' <=> Numbered
         /\ \A i : InParts(i)' <=> InParts(i)
         /\ \A n : Up(n)' <=> Up(n)
<1>1. \A m : PartsTo(m)' <=> PartsTo(m)
  BY PathFacts DEF PartsTo
<1>2. \A i : InParts(i)' <=> InParts(i)
  BY DEF InParts
<1>3. \A n : Up(n)' <=> Up(n)
  BY <1>2 DEF Up
<1> QED BY <1>1, <1>2, <1>3 DEF Numbered

LEMMA SameFiles ==
  ASSUME files' = files, told' = told
  PROVE  /\ Info' = Info /\ (Readable' <=> Readable)
         /\ (Building' <=> Building) /\ (Complete' <=> Complete) /\ (Settled' <=> Settled)
         /\ \A n : Up(n)' <=> Up(n)
         /\ \A m : PartsTo(m)' <=> PartsTo(m)
BY DEF Info, Readable, Building, Complete, Settled, Numbered, PartsTo, InParts, Up, InData, DataUp,
   IsComplete

LEMMA BuildingKeeps ==
  ASSUME Building, \A p \in Parts : files'[p] = files[p], told' = told,
         Readable' => Up(Info.offset)'
  PROVE  Building'
<1>1. Up(told)' <=> Up(told)
  BY SameParts DEF Up
<1> QED BY <1>1, SameParts DEF Building

LEMMA CompleteKeeps ==
  ASSUME Complete, files'["info"] = files["info"], files'["data"] = files["data"], told' = told
  PROVE  Complete'
BY SameInfo DEF Complete, IsComplete, DataUp, InData

(* The data file changes, then a part that was empty, then the info.       *)
LEMMA DataBuilding ==
  ASSUME TypeInv, NEW c, files' = [files EXCEPT !["data"] = c], told' = told
  PROVE  /\ Info' = Info /\ (Readable' <=> Readable) /\ (Building => Building')
         /\ \A p \in Parts : files'[p] = files[p]
         /\ files'["data"] = c
<1>1. /\ \A p \in Parts : files'[p] = files[p]
      /\ files'["info"] = files["info"] /\ files'["data"] = c
  BY PathFacts DEF TypeInv, FilesOK
<1>2. Info' = Info /\ (Readable' <=> Readable)
  BY <1>1, SameInfo
<1>3. Building => (Readable' => Up(Info.offset)')
  BY <1>1, <1>2, SameParts DEF Building, Up
<1> QED BY <1>1, <1>2, <1>3, BuildingKeeps

LEMMA PartBuilding ==
  ASSUME TypeInv, Building, NEW p \in Parts, NEW c, c # Absent, files[p] = <<>>,
         files' = [files EXCEPT ![p] = c], told' = told
  PROVE  Building'
<1>1. /\ files'[p] = c /\ files[p] # Absent /\ files'["info"] = files["info"]
      /\ \A q \in Parts : q # p => files'[q] = files[q]
  BY PathFacts, AbsentFacts DEF TypeInv, FilesOK
<1>2. \A m : PartsTo(m) => PartsTo(m)'
  BY <1>1, PathFacts DEF PartsTo
<1>3. \A i : InParts(i) => InParts(i)'
  <2>1. ToSet(files[p]) = {}
    BY EmptySeq DEF ToSet
  <2> QED BY <1>1, <2>1 DEF InParts
<1>4. Up(told)' /\ (Readable' => Up(Info.offset)')
  BY <1>1, <1>3, SameInfo DEF Building, Up
<1> QED BY <1>2, <1>4 DEF Building, Numbered

LEMMA InfoBuilding ==
  ASSUME TypeInv, Building, NEW c, files' = [files EXCEPT !["info"] = c], told' = told,
         NEW n, Up(n), Readable' => Info'.offset = n
  PROVE  Building'
<1>1. \A p \in Parts : files'[p] = files[p]
  BY PathFacts DEF TypeInv, FilesOK
<1>2. Up(n)'
  BY <1>1, SameParts
<1>3. Readable' => Up(Info.offset)'
  BY <1>2 DEF Up
<1> QED BY <1>1, <1>3, BuildingKeeps

(* The next part file is made.                                             *)
LEMMA PartOpened ==
  ASSUME TypeInv, NEW j \in 1..Len(PartNames), PartsTo(j - 1),
         files' = [files EXCEPT ![PartNames[j]] = <<>>]
  PROVE  PartsTo(j)'
<1> SUFFICES ASSUME NEW i \in 1..Len(PartNames)
             PROVE  files'[PartNames[i]] # Absent <=> i <= j
  BY DEF PartsTo
<1>1. PartNames[i] \in Paths /\ PartNames[j] \in Paths /\ (PartNames[i] = PartNames[j] => i = j)
  BY PathFacts
<1>2. files[PartNames[i]] # Absent <=> i <= j - 1
  BY DEF PartsTo
<1>3. CASE i = j
  BY <1>1, <1>3, AbsentFacts DEF TypeInv, FilesOK
<1>4. CASE i # j
  BY <1>1, <1>2, <1>4 DEF TypeInv, FilesOK
<1> QED BY <1>3, <1>4

(* A handler begins to write a file, or goes on at another point.          *)
LEMMA WriteStep ==
  ASSUME TypeInv, NEW r \in Reqs, NEW path, NEW value, NEW l, Write(r, path, value, l)
  PROVE  /\ pc'[r] = "open" /\ job'[r].path = path /\ job'[r].value = value /\ job'[r].then = l
         /\ job'[r].op = job[r].op /\ job'[r].at = job[r].at /\ job'[r].n = job[r].n
         /\ job'[r].info = job[r].info
BY DEF Write, Goto, TypeInv, Placed, Jobs

LEMMA GotoStep ==
  ASSUME TypeInv, NEW r \in Reqs, NEW l, Goto(r, l)
  PROVE  pc'[r] = l
BY DEF Goto, TypeInv, Placed

(* What the locals are at the program points of a POST or PATCH.           *)
LEMMA WorkFacts ==
  ASSUME TypeInv, NEW r \in Reqs
  PROVE  /\ job[r] \in Jobs /\ pc[r] \in Labels /\ Fits(pc[r], job[r])
         /\ Pending(r) => /\ job[r].value = <<job[r].value[1]>> /\ job[r].value[1] \in Infos
                          /\ job[r].then \notin {"save", "done"}
         /\ ~job[r].ghost /\ pc[r] \in Writes =>
              /\ WriteFits(job[r])
              /\ job[r].then = "save" => job[r].path \in Parts
              /\ job[r].then = "done" => job[r].path = "data"
              /\ \/ Pending(r)
                 \/ job[r].then = "save" /\ job[r].path \in Parts
                 \/ job[r].then = "done" /\ job[r].path = "data"
         /\ cancels = 0 => ~job[r].ghost /\ job[r].pos = 0
<1>1. job[r] \in Jobs /\ pc[r] \in Labels /\ Fits(pc[r], job[r]) /\ (job[r].ghost => cancels > 0)
  BY DEF TypeInv, Placed
<1>5. cancels = 0 => ~job[r].ghost /\ job[r].pos = 0
  BY <1>1 DEF Fits
<1>2. ASSUME pc[r] \in Writes, ~job[r].ghost \/ job[r].path = "info"
      PROVE  /\ WriteFits(job[r])
             /\ job[r].then = "save" <=> job[r].path \in Parts
             /\ job[r].then = "done" <=> job[r].path = "data"
             /\ job[r].then \notin {"save", "done"} =>
                  job[r].value \in Seq(Infos) /\ Len(job[r].value) = 1
             /\ job[r].path \in Paths
  BY <1>1, <1>2 DEF Fits, WriteFits, Leftover, Jobs
<1>3. ASSUME Pending(r)
      PROVE  /\ job[r].value = <<job[r].value[1]>> /\ job[r].value[1] \in Infos
             /\ job[r].then \notin {"save", "done"}
  <2>1. PICK v \in Seq(Infos) : v = job[r].value /\ Len(v) = 1
    BY <1>2, <1>3, PathFacts DEF Pending
  <2>2. v = <<v[1]>> /\ v[1] \in Infos
    BY <2>1
  <2> QED BY <1>2, <1>3, <2>1, <2>2, PathFacts DEF Pending
<1>4. \A p \in Paths : p = "info" \/ p = "data" \/ p \in Parts
  BY DEF Paths, Parts
<1> QED BY <1>1, <1>2, <1>3, <1>4, <1>5 DEF Pending

-----------------------------------------------------------------------------
(* The bytes kept: the file operations.                                    *)

LEMMA OpenGood ==
  ASSUME TypeInv, NEW r \in Reqs, OpenFile(r), Working(r), Good(r), cancels = 0
  PROVE  Good(r)' /\ (FinalOf(r)' <=> FinalOf(r))
<1> DEFINE p == job[r].path
<1>1. /\ pc[r] = "open" /\ pc'[r] = "fill" /\ job' = job /\ told' = told
      /\ files' = [files EXCEPT ![p] = <<>>] /\ p \in Paths /\ DOMAIN files = Paths
      /\ files'[p] = <<>> /\ \A q \in Paths : q # p => files'[q] = files[q]
  BY OpFacts, GotoStep DEF OpenFile, outside, Jobs, TypeInv, FilesOK
<1>2. \/ Pending(r) /\ p = "info" /\ job[r].then \notin {"save", "done"}
      \/ job[r].then = "save" /\ p \in Parts
      \/ job[r].then = "done" /\ p = "data"
  BY <1>1, WorkFacts DEF Writes, Pending
<1>3. CASE Pending(r) /\ p = "info" /\ job[r].then \notin {"save", "done"}
  <2>1. /\ ~Readable' /\ \A q \in Parts : files'[q] = files[q]
    BY <1>1, <1>3, PathFacts DEF Readable
  <2>2. Facts(r)'
    BY <1>1, <1>3, <2>1 DEF Good, Facts, AtPart, AtEnd, Pending, Writes
  <2>3. FinalOf(r)' <=> FinalOf(r)
    BY <1>1, <1>3, <2>1 DEF FinalOf, Pending, Writes, Good, Facts
  <2>4. Holds(r) => Building' /\ Up(job[r].value[1].offset)'
    <3> SUFFICES ASSUME Holds(r) PROVE Building' /\ Up(job[r].value[1].offset)'
      OBVIOUS
    <3>1. Building /\ Up(job[r].value[1].offset)
      BY <1>1, <1>3 DEF Holds
    <3>2. PICK n : n = job[r].value[1].offset
      OBVIOUS
    <3>3. Up(n)'
      BY <2>1, <3>1, <3>2, SameParts
    <3>4. Building'
      BY <1>1, <1>3, <2>1, <3>1, <3>2, InfoBuilding
    <3> QED BY <1>1, <3>2, <3>3, <3>4 DEF Up
  <2>5. Holds(r) => Holds(r)'
    BY <1>1, <1>3, <2>4 DEF Holds, Pending, Writes, Up
  <2> QED BY <1>1, <2>2, <2>3, <2>5 DEF Good
<1>4. CASE job[r].then = "save" /\ p \in Parts
  <2>1. /\ p # "info" /\ p # "data" /\ files'["info"] = files["info"] /\ ~Pending(r) /\ ~Pending(r)'
    BY <1>1, <1>4, PathFacts DEF Pending
  <2>2. Info' = Info /\ (Readable' <=> Readable)
    BY <2>1, SameInfo
  <2>3. Facts(r)'
    BY <1>1, <1>4, <2>1, <2>2 DEF Good, Facts, AtPart, AtEnd, Writes
  <2>4. FinalOf(r)' <=> FinalOf(r)
    BY <2>1, <2>2 DEF FinalOf
  <2>5. Holds(r) => Building'
    <3> SUFFICES ASSUME Holds(r) PROVE Building'
      OBVIOUS
    <3>1. Building
      BY <1>1, <1>4 DEF Holds
    <3>2. PICK j \in 1..Len(PartNames) : PartsTo(j - 1) /\ p = PartNames[j]
      BY <1>1, <1>4 DEF Holds
    <3>3. files[p] = Absent /\ Len(PartNames) \in Nat
      BY <3>2, PathFacts DEF PartsTo
    <3>4. PartsTo(j)'
      BY <1>1, <3>2, PartOpened
    <3>5. \A i : InParts(i) => InParts(i)'
      BY <1>1, <3>3, PathFacts DEF InParts
    <3>6. Up(told)' /\ (Readable' => Up(Info.offset)')
      BY <1>1, <2>2, <3>1, <3>5 DEF Building, Up
    <3> QED BY <3>3, <3>4, <3>6 DEF Building, Numbered
  <2>6. Holds(r) => Holds(r)'
    BY <1>1, <2>1, <2>5 DEF Holds
  <2> QED BY <1>1, <2>3, <2>4, <2>6 DEF Good
<1>5. CASE job[r].then = "done" /\ p = "data"
  <2>1. /\ files'["info"] = files["info"] /\ ~Pending(r) /\ ~Pending(r)'
        /\ \A q \in Parts : files'[q] = files[q]
    BY <1>1, <1>5, PathFacts DEF Pending
  <2>2. Info' = Info /\ (Readable' <=> Readable)
    BY <2>1, SameInfo
  <2>3. Facts(r)'
    BY <1>1, <1>5, <2>1, <2>2 DEF Good, Facts, AtPart, AtEnd, Writes, IsComplete
  <2>4. FinalOf(r)' <=> FinalOf(r)
    BY <2>1, <2>2 DEF FinalOf
  <2>5. Holds(r) => Building'
    BY <1>1, <1>5, DataBuilding DEF Holds
  <2>6. Holds(r) => Holds(r)'
    BY <1>1, <1>5, <2>1, <2>5 DEF Holds
  <2> QED BY <1>1, <2>3, <2>4, <2>6 DEF Good
<1> QED BY <1>2, <1>3, <1>4, <1>5

(* A file that was emptied, then written.                                  *)
LEMMA FreshFile ==
  ASSUME NEW v \in Seq(Infos) \union Seq(Nat)
  PROVE  Overlaid(<<>>, 0, v) = v
<1>1. CASE v \in Seq(Infos)
  <2>1. <<>> \in Seq(Infos) /\ Absent \notin Seq(Infos)
    BY EmptySeq, AbsentFacts
  <2> QED BY <1>1, <2>1, OverlaidFacts
<1>2. CASE v \in Seq(Nat)
  <2>1. <<>> \in Seq(Nat) /\ Absent \notin Seq(Nat)
    BY EmptySeq, AbsentFacts
  <2> QED BY <1>2, <2>1, OverlaidFacts
<1> QED BY <1>1, <1>2

LEMMA FillStep ==
  ASSUME TypeInv, NEW r \in Reqs, FillFile(r), Working(r), Good(r), cancels = 0
  PROVE  /\ pc[r] = "fill" /\ pc'[r] = job[r].then /\ job' = job /\ UNCHANGED outside
         /\ job[r].path \in Paths /\ DOMAIN files = Paths /\ files[job[r].path] = <<>>
         /\ files' = [files EXCEPT ![job[r].path] = job[r].value]
         /\ files'[job[r].path] = job[r].value
         /\ \A q \in Paths : q # job[r].path => files'[q] = files[q]
         /\ job[r].then \in {"combine", "body", "chunk", "save", "reread", "done"}
         /\ \/ Pending(r) /\ job[r].path = "info" /\ job[r].then \notin {"save", "done"}
            \/ job[r].then = "save" /\ job[r].path \in Parts
            \/ job[r].then = "done" /\ job[r].path = "data"
<1> DEFINE p == job[r].path
           v == job[r].value
<1>1. /\ pc[r] = "fill" /\ pc'[r] = job[r].then /\ job' = job /\ told' = told
      /\ p \in Paths /\ DOMAIN files = Paths /\ files[p] = <<>>
      /\ files' = [files EXCEPT ![p] = v]
      /\ files'[p] = v /\ \A q \in Paths : q # p => files'[q] = files[q]
  <2>1. /\ pc[r] = "fill" /\ ~job[r].ghost /\ p \in Paths /\ DOMAIN files = Paths
        /\ v \in Seq(Infos) \union Seq(Nat) /\ files[p] = <<>> /\ told' = told
        /\ job[r].pos = 0
    BY WorkFacts DEF FillFile, outside, Jobs, TypeInv, FilesOK, Good, Facts
  <2>2. Goto(r, job[r].then) /\ job' = job
    BY <2>1 DEF FillFile, Resume
  <2>3. Overlaid(files[p], job[r].pos, v) = v
    <3>1. PICK w \in Seq(Infos) \union Seq(Nat) : w = v
      BY <2>1
    <3> QED BY <2>1, <3>1, FreshFile
  <2> QED BY <2>1, <2>2, <2>3, GotoStep DEF FillFile
<1>2. /\ job[r].then \in {"combine", "body", "chunk", "save", "reread", "done"}
      /\ \/ Pending(r) /\ p = "info" /\ job[r].then \notin {"save", "done"}
         \/ job[r].then = "save" /\ p \in Parts
         \/ job[r].then = "done" /\ p = "data"
  <2>1. pc[r] \in Writes
    BY <1>1 DEF Writes
  <2>2. WriteFits(job[r])
    BY <2>1, WorkFacts
  <2>3. job[r].then \in {"combine", "body", "chunk", "save", "reread", "done"}
    BY <2>2 DEF WriteFits
  <2> QED BY <2>1, <2>3, WorkFacts DEF Pending
<1>3. UNCHANGED outside
  BY DEF FillFile
<1> QED BY <1>1, <1>2, <1>3

LEMMA FillGood ==
  ASSUME TypeInv, NEW r \in Reqs, FillFile(r), Working(r), Good(r), cancels = 0
  PROVE  Good(r)' /\ (FinalOf(r)' <=> FinalOf(r))
<1> DEFINE p == job[r].path
           v == job[r].value
<1>1. /\ pc[r] = "fill" /\ pc'[r] = job[r].then /\ job' = job /\ told' = told
      /\ p \in Paths /\ DOMAIN files = Paths /\ files[p] = <<>>
      /\ files' = [files EXCEPT ![p] = v]
      /\ files'[p] = v /\ \A q \in Paths : q # p => files'[q] = files[q]
  BY FillStep DEF outside
<1>2. /\ job[r].then \in {"combine", "body", "chunk", "save", "reread", "done"}
      /\ \/ Pending(r) /\ p = "info" /\ job[r].then \notin {"save", "done"}
         \/ job[r].then = "save" /\ p \in Parts
         \/ job[r].then = "done" /\ p = "data"
  BY FillStep
<1>3. CASE Pending(r) /\ p = "info" /\ job[r].then \notin {"save", "done"}
  <2>1. /\ Readable' /\ Info' = v[1] /\ ~Readable /\ \A q \in Parts : files'[q] = files[q]
    <3>1. v = <<v[1]>> /\ v[1] \in Infos
      BY <1>3, WorkFacts
    <3>2. v # <<>> /\ v # Absent
      <4>1. PICK i \in Infos : i = v[1]
        BY <3>1
      <4>2. v = <<i>>
        BY <3>1, <4>1
      <4>3. <<i>> \in Seq(Infos) /\ <<i>> # <<>>
        OBVIOUS
      <4> QED BY <4>2, <4>3, AbsentFacts
    <3> QED BY <1>1, <1>3, <3>2, PathFacts, AbsentFacts DEF Readable, Info
  <2>2. Facts(r)'
    BY <1>1, <1>2, <1>3, <2>1 DEF Good, Facts, AtPart, AtEnd, Pending, Writes
  <2>3. FinalOf(r)' <=> FinalOf(r)
    BY <1>1, <1>2, <1>3, <2>1 DEF FinalOf, Pending, Writes
  <2>4. Holds(r) => Building'
    <3>1. Holds(r) => Building /\ Up(job[r].value[1].offset)
      BY <1>1, <1>3 DEF Holds
    <3>2. PICK n, w : n = job[r].value[1].offset /\ w = v
      OBVIOUS
    <3> QED BY <1>1, <1>3, <2>1, <3>1, <3>2, InfoBuilding
  <2>5. Holds(r) => Holds(r)'
    BY <1>1, <1>2, <1>3, <2>4 DEF Holds, Pending, Writes
  <2> QED BY <1>1, <2>2, <2>3, <2>5 DEF Good
<1>4. CASE job[r].then = "save" /\ p \in Parts
  <2>1. /\ p # "info" /\ p # "data" /\ files'["info"] = files["info"] /\ ~Pending(r) /\ ~Pending(r)'
    BY <1>1, <1>4, PathFacts DEF Pending
  <2>2. Info' = Info /\ (Readable' <=> Readable)
    BY <2>1, SameInfo
  <2>3. Facts(r)'
    BY <1>1, <1>4, <2>1, <2>2 DEF Good, Facts, AtPart, AtEnd, Writes
  <2>4. FinalOf(r)' <=> FinalOf(r)
    BY <2>1, <2>2 DEF FinalOf
  <2>5. Holds(r) => Building'
    <3>1. Holds(r) => Building
      BY <1>1, <1>4 DEF Holds
    <3>2. v # Absent
      <4>1. v = Chunk(job[r].at, job[r].n)
        BY <1>1, <1>4 DEF Good, Facts, Writes
      <4>2. job[r].at \in Nat /\ job[r].n \in Nat
        BY WorkFacts DEF Jobs
      <4>3. Chunk(job[r].at, job[r].n) \in Seq(Nat)
        BY <4>2, ChunkFacts
      <4> QED BY <4>1, <4>3, AbsentFacts
    <3>3. PICK c : c = v
      OBVIOUS
    <3> QED BY <1>1, <1>4, <3>1, <3>2, <3>3, PartBuilding
  <2>6. Holds(r) => Holds(r)'
    BY <1>1, <1>4, <2>1, <2>5 DEF Holds
  <2> QED BY <1>1, <2>3, <2>4, <2>6 DEF Good
<1>5. CASE job[r].then = "done" /\ p = "data"
  <2>1. /\ files'["info"] = files["info"] /\ ~Pending(r) /\ ~Pending(r)'
        /\ \A q \in Parts : files'[q] = files[q]
    BY <1>1, <1>5, PathFacts DEF Pending
  <2>2. Info' = Info /\ (Readable' <=> Readable)
    BY <2>1, SameInfo
  <2>3. Facts(r)'
    BY <1>1, <1>5, <2>1, <2>2 DEF Good, Facts, AtPart, AtEnd, Writes, IsComplete
  <2>4. FinalOf(r)' <=> FinalOf(r)
    BY <2>1, <2>2 DEF FinalOf
  <2>5. Holds(r) => Building'
    <3>1. PICK w : w = v
      OBVIOUS
    <3> QED BY <1>1, <1>5, <3>1, DataBuilding DEF Holds
  <2>6. Holds(r) => Holds(r)'
    BY <1>1, <1>5, <2>1, <2>5 DEF Holds
  <2> QED BY <1>1, <2>3, <2>4, <2>6 DEF Good
<1> QED BY <1>2, <1>3, <1>4, <1>5

LEMMA RemoveGood ==
  ASSUME TypeInv, NEW r \in Reqs, RemoveFile(r), Working(r), Good(r), cancels = 0
  PROVE  Good(r)' /\ (FinalOf(r)' <=> FinalOf(r))
<1>1. /\ pc[r] = "remove" /\ pc'[r] = "sweep" /\ job' = job /\ told' = told
      /\ job[r].path \in Parts /\ files'["info"] = files["info"] /\ files'["data"] = files["data"]
  <2>1. pc[r] = "remove" /\ ~job[r].ghost /\ job[r].path \in Parts /\ DOMAIN files = Paths
    BY WorkFacts DEF RemoveFile, Good, Facts, TypeInv, FilesOK
  <2> QED BY <2>1, GotoStep, PathFacts DEF RemoveFile, Resume, outside
<1>2. Info' = Info /\ (Readable' <=> Readable)
  BY <1>1, SameInfo
<1>3. Facts(r)'
  BY <1>1, <1>2 DEF Good, Facts, AtPart, AtEnd, Pending, Writes, IsComplete
<1>4. FinalOf(r)' <=> FinalOf(r)
  BY <1>1, <1>2 DEF FinalOf, Pending, Writes
<1>5. Holds(r) => Holds(r)'
  BY <1>1, CompleteKeeps DEF Holds, Pending, Writes
<1> QED BY <1>1, <1>3, <1>4, <1>5 DEF Good

LEMMA SweepGood ==
  ASSUME TypeInv, NEW r \in Reqs, Sweep(r), Working(r), Good(r), cancels = 0
  PROVE  Good(r)' /\ (FinalOf(r)' <=> FinalOf(r))
<1>1. /\ pc[r] = "sweep" /\ files' = files /\ told' = told /\ job[r] \in Jobs
      /\ job[r].then = "done" /\ job[r].todo \in Seq(Parts)
  BY WorkFacts DEF Sweep, outside, Working, Fits, Good, Facts
<1>2. \/ job' = job /\ pc'[r] = "done"
      \/ /\ pc'[r] = "remove" /\ job'[r].path \in Parts /\ job'[r].todo \in Seq(Parts)
         /\ job'[r].op = job[r].op /\ job'[r].info = job[r].info
  <2>1. CASE job[r].todo = <<>>
    BY <1>1, <2>1, GotoStep DEF Sweep
  <2>2. CASE job[r].todo # <<>>
    <3>1. Head(job[r].todo) \in Parts /\ Tail(job[r].todo) \in Seq(Parts)
      BY <1>1, <2>2, HeadTailProperties
    <3>2. pc'[r] = "remove"
      BY <2>2, GotoStep DEF Sweep
    <3>3. /\ job'[r].path = Head(job[r].todo) /\ job'[r].todo = Tail(job[r].todo)
          /\ job'[r].op = job[r].op /\ job'[r].info = job[r].info
      BY <1>1, <2>2 DEF Sweep, TypeInv, Placed, Jobs
    <3> QED BY <3>1, <3>2, <3>3
  <2> QED BY <2>1, <2>2
<1>3. Facts(r)'
  BY <1>1, <1>2, SameFiles DEF Good, Facts, AtPart, AtEnd, Pending, Writes, IsComplete
<1>4. FinalOf(r)' <=> FinalOf(r)
  BY <1>1, <1>2, SameFiles DEF FinalOf, Pending, Writes
<1>5. Holds(r) => Holds(r)'
  <2>1. Holds(r) => Complete
    BY <1>1 DEF Holds
  <2>2. Complete => Complete'
    BY <1>1, SameFiles
  <2> QED BY <1>2, <2>1, <2>2 DEF Holds, Pending, Writes
<1>6. job'[r].op = job[r].op
  BY <1>2
<1> QED BY <1>3, <1>4, <1>5, <1>6 DEF Good

-----------------------------------------------------------------------------
(* The bytes kept: POST.                                                   *)

LEMMA PostArriveGood ==
  ASSUME TypeInv, NEW r \in Reqs, NEW size \in Sizes, NEW kind \in Kinds,
         PostArrive(r, size, kind), New
  PROVE  Good(r)'
<1> DEFINE i == [size |-> size, offset |-> 0, final |-> kind = "final"]
<1>1. /\ files' = files /\ told = 0 /\ told' = 0 /\ (\A p \in Paths : files[p] = Absent)
      /\ pc'[r] = "open"
  BY GotoStep DEF PostArrive, New
<1>2. /\ job'[r].op = "post" /\ job'[r].path = "info" /\ job'[r].value = <<i>>
      /\ job'[r].then = IF kind = "final" THEN "combine" ELSE "body"
  BY DEF PostArrive, Blank, TypeInv, Placed
<1>3. job'[r].value[1] = i /\ (job'[r].then = "combine" => job'[r].value[1].final)
  <2>1. job'[r].then = "combine" => i.final
    BY <1>2
  <2> HIDE DEF i
  <2>2. job'[r].value[1] = i
    BY <1>2
  <2> QED BY <2>1, <2>2
<1>4. ~Readable' /\ Pending(r)' /\ ~AtPart(r)' /\ ~AtEnd(r)'
  BY <1>1, <1>2, PathFacts DEF Readable, Pending, AtPart, AtEnd, Writes
<1>5. Facts(r)'
  BY <1>1, <1>2, <1>3, <1>4 DEF Facts, Writes
<1>6. Building' /\ Up(0)'
  <2>1. PartsTo(0)
    <3>1. \A p \in Parts : files[p] = Absent
      BY <1>1, PathFacts
    <3> QED BY <3>1, NoParts
  <2>2. PartsTo(0)'
    BY <1>1, <2>1 DEF PartsTo
  <2> QED BY <1>1, <1>4, <2>2, PathFacts DEF Building, Numbered, Up
<1>7. Holds(r)'
  BY <1>1, <1>2, <1>3, <1>6 DEF Holds, Up
<1> QED BY <1>2, <1>5, <1>7 DEF Good

LEMMA CombineGood ==
  ASSUME TypeInv, NEW r \in Reqs, Combine(r), Good(r)
  PROVE  Good(r)' /\ (FinalOf(r)' <=> FinalOf(r))
<1>1. /\ pc[r] = "combine" /\ pc'[r] = "combining" /\ job' = job /\ job[r].op = "post"
      /\ files'["info"] = files["info"]
  BY GotoStep, WorkFacts, PathFacts DEF Combine, Fits, TypeInv, FilesOK
<1>2. Readable' /\ Info'.final
  BY <1>1, SameInfo DEF Good, Facts
<1>3. Facts(r)'
  BY <1>1, <1>2 DEF Facts, AtPart, AtEnd, Pending, Writes
<1>4. FinalOf(r) /\ FinalOf(r)'
  BY <1>1, <1>2 DEF FinalOf, Good, Facts
<1> QED BY <1>1, <1>3, <1>4 DEF Good

LEMMA CombiningGood ==
  ASSUME TypeInv, NEW r \in Reqs, Combining(r), Good(r)
  PROVE  Good(r)' /\ (FinalOf(r)' <=> FinalOf(r))
<1> DEFINE i == [size |-> FinalLen, offset |-> FinalLen, final |-> TRUE]
<1>1. /\ pc[r] = "combining" /\ job[r].op = "post" /\ Readable /\ Info.final
  BY WorkFacts DEF Combining, Fits, Good, Facts
<1>2. CASE Len(files["data"]) < FinalLen
  <2>1. /\ pc'[r] = "combining" /\ job' = job /\ files'["info"] = files["info"]
    BY <1>1, <1>2, PathFacts DEF Combining, TypeInv, FilesOK
  <2>2. Readable' /\ Info'.final
    BY <1>1, <2>1, SameInfo
  <2>3. Facts(r)'
    BY <2>1, <2>2 DEF Facts, AtPart, AtEnd, Pending, Writes
  <2>4. FinalOf(r) /\ FinalOf(r)'
    BY <1>1, <2>2 DEF FinalOf
  <2> QED BY <1>1, <2>1, <2>3, <2>4 DEF Good
<1>3. CASE ~(Len(files["data"]) < FinalLen)
  <2>1. files' = files /\ Write(r, "info", <<i>>, "body")
    BY <1>3 DEF Combining
  <2>2. Readable' /\ Info'.final
    BY <1>1, <2>1, SameInfo
  <2> HIDE DEF i
  <2>3. /\ pc'[r] = "open" /\ job'[r].path = "info" /\ job'[r].value = <<i>>
        /\ job'[r].then = "body" /\ job'[r].op = "post"
    BY <1>1, <2>1, WriteStep
  <2>4. job'[r].value[1].final
    <3>1. job'[r].value[1] = i
      BY <2>3
    <3> QED BY <3>1 DEF i
  <2>5. Facts(r)'
    BY <2>2, <2>3, <2>4 DEF Facts, AtPart, AtEnd, Writes
  <2>6. FinalOf(r) /\ FinalOf(r)'
    BY <1>1, <2>2 DEF FinalOf
  <2> QED BY <2>3, <2>5, <2>6 DEF Good
<1> QED BY <1>2, <1>3

(* A handler that only goes on: from one point where the parts have the    *)
(* bytes to another.                                                       *)
LEMMA PlainGood ==
  ASSUME TypeInv, NEW r \in Reqs, NEW l, Goto(r, l), Good(r), UNCHANGED <<files, told>>,
         job'[r].op = job[r].op, job'[r].info = job[r].info \/ l \in {"chunk", "reread"},
         \/ pc[r] = "body" /\ l \in {"chunk", "reread"}
         \/ pc[r] = "finish" /\ l = "list"
  PROVE  Good(r)' /\ (FinalOf(r)' <=> FinalOf(r))
<1>1. pc'[r] = l
  BY GotoStep
<1>2. Facts(r)'
  BY <1>1, SameFiles DEF Good, Facts, AtPart, AtEnd, Pending, Writes, IsComplete
<1>3. FinalOf(r)' <=> FinalOf(r)
  BY <1>1, SameFiles DEF FinalOf, Pending, Writes
<1>4. Holds(r) => Holds(r)'
  <2>1. Holds(r) => Building
    BY DEF Holds
  <2>2. Building => Building'
    BY SameFiles
  <2> QED BY <1>1, <2>1, <2>2 DEF Holds, Pending, Writes
<1> QED BY <1>2, <1>3, <1>4 DEF Good

LEMMA PostBodyGood ==
  ASSUME TypeInv, NEW r \in Reqs, Good(r), PostNoBody(r) \/ \E n \in ChunkLens : PostBody(r, n)
  PROVE  Good(r)' /\ (FinalOf(r)' <=> FinalOf(r))
<1>1. /\ pc[r] = "body" /\ UNCHANGED <<files, told>> /\ job'[r].op = job[r].op
      /\ Goto(r, "reread") \/ Goto(r, "chunk")
  BY DEF PostNoBody, PostBody, outside, TypeInv, Placed, Jobs
<1> QED BY <1>1, PlainGood

LEMMA FinishGood ==
  ASSUME TypeInv, NEW r \in Reqs, Good(r), Finish(r)
  PROVE  Good(r)' /\ (FinalOf(r)' <=> FinalOf(r))
<1>1. pc[r] = "finish" /\ Goto(r, "list") /\ UNCHANGED <<files, told>> /\ job' = job
  BY DEF Finish, outside
<1> QED BY <1>1, PlainGood

-----------------------------------------------------------------------------
(* The bytes kept: PATCH.                                                  *)

LEMMA LoadPatchGood ==
  ASSUME TypeInv, NEW r \in Reqs, LoadPatch(r), Settled
  PROVE  Good(r)' /\ ~FinalOf(r)'
<1>1. /\ files' = files /\ told' = told /\ job' = job /\ Readable /\ ~Info.final
      /\ pc'[r] \in {"chunk", "declare"} /\ (pc'[r] = "declare" => Info.size = NoLen)
  BY GotoStep DEF LoadPatch, outside
<1>2. /\ Readable' /\ ~Info'.final /\ Settled' /\ Info' = Info
  BY <1>1, SameFiles
<1>3. Building' \/ Complete'
  BY <1>2 DEF Settled
<1>4. pc'[r] = "declare" => Building'
  BY <1>1, <1>2, <1>3 DEF Complete, IsComplete
<1>5. Facts(r)'
  BY <1>1 DEF Facts, AtPart, AtEnd, Pending, Writes
<1>6. ~FinalOf(r)'
  BY <1>1, <1>2 DEF FinalOf, Pending, Writes
<1>7. Holds(r)'
  BY <1>1, <1>3, <1>4 DEF Holds, Pending, Writes
<1> QED BY <1>5, <1>6, <1>7 DEF Good

LEMMA DeclareGood ==
  ASSUME TypeInv, NEW r \in Reqs, NEW n \in Sizes \ {NoLen}, Declare(r, n), Good(r)
  PROVE  Good(r)' /\ (FinalOf(r)' <=> FinalOf(r))
<1> DEFINE i == [Info EXCEPT !.size = n]
<1>1. /\ pc[r] = "declare" /\ files' = files /\ told' = told /\ Write(r, "info", <<i>>, "chunk")
      /\ Readable /\ Info \in Infos
  BY InfoFacts DEF Declare
<1>2. i.final = Info.final /\ i.offset = Info.offset
  BY <1>1 DEF Infos
<1> HIDE DEF i
<1>3. /\ pc'[r] = "open" /\ job'[r].path = "info" /\ job'[r].value = <<i>>
      /\ job'[r].then = "chunk" /\ job'[r].op = job[r].op
  BY <1>1, WriteStep
<1>4. job'[r].value[1] = i
  BY <1>3
<1>5. Facts(r)'
  BY <1>1, <1>2, <1>3, <1>4, SameFiles DEF Facts, AtPart, AtEnd, Pending, Writes
<1>6. FinalOf(r)' <=> FinalOf(r)
  BY <1>1, <1>2, <1>3, <1>4, SameFiles DEF FinalOf, Pending, Writes
<1>7. Holds(r) => Holds(r)'
  <2>1. Holds(r) => Building
    BY <1>1 DEF Holds
  <2>2. Building => Building'
    BY <1>1, SameFiles
  <2>3. PICK m : m = Info.offset
    OBVIOUS
  <2>4. Building => Up(m)'
    BY <1>1, <2>3, SameFiles DEF Building
  <2>5. job'[r].value[1].offset = m
    BY <1>2, <1>4, <2>3
  <2>6. Building => Up(job[r].value[1].offset)'
    BY <2>4, <2>5 DEF Up
  <2> QED BY <1>3, <2>1, <2>2, <2>6 DEF Holds
<1> QED BY <1>3, <1>5, <1>6, <1>7 DEF Good

LEMMA ReadChunkGood ==
  ASSUME TypeInv, NEW r \in Reqs, ReadChunk(r), Good(r), job[r].n > 0
  PROVE  Good(r)' /\ (FinalOf(r)' <=> FinalOf(r))
<1>1. /\ pc[r] = "chunk" /\ files' = files /\ told' = told /\ pc'[r] = "count"
      /\ Readable /\ Info \in Infos /\ Info.offset = job[r].at /\ job[r] \in Jobs
      /\ Info.size # NoLen => job[r].at + job[r].n <= Info.size
  BY InfoFacts, GotoStep, WorkFacts DEF ReadChunk, outside
<1>2. /\ job'[r].info = Info /\ job'[r].op = job[r].op /\ job'[r].at = job[r].at
  BY <1>1 DEF ReadChunk, TypeInv, Placed, Jobs
<1>3. ~IsComplete(Info)
  BY <1>1 DEF IsComplete, Infos, Jobs
<1>4. Facts(r)'
  BY <1>1, <1>2, SameFiles DEF Facts, AtPart, AtEnd, Pending, Writes
<1>5. FinalOf(r)' <=> FinalOf(r)
  BY <1>1, SameFiles DEF FinalOf, Pending, Writes
<1>6. Holds(r) => Holds(r)'
  <2>1. Holds(r) => Building
    BY <1>1, <1>3 DEF Holds, Complete
  <2>2. Building => Building'
    BY <1>1, SameFiles
  <2> QED BY <1>1, <2>1, <2>2 DEF Holds, Pending, Writes
<1> QED BY <1>2, <1>4, <1>5, <1>6 DEF Good

(* When the parts are the first m, list_part_paths_sorted counts them.     *)
LEMMA SortedFirst ==
  ASSUME NEW m \in 0..Len(PartNames), PartsTo(m)
  PROVE  PartsSorted = SubSeq(PartNames, 1, m) /\ Len(PartsSorted) = m
<1>1. PartNames \in Seq(Parts) /\ DOMAIN PartNames = 1..Len(PartNames) /\ Len(PartNames) \in Nat
  BY PathFacts, LenProperties
<1>2. \A i \in 1..Len(PartNames) :
        Listed(PartNames[i]) = IF i <= m THEN <<PartNames[i]>> ELSE <<>>
  BY DEF PartsTo, Listed
<1>3. PartsSorted = FlattenSeq([i \in 1..Len(PartNames) |->
                                  IF i <= m THEN <<PartNames[i]>> ELSE <<>>])
  <2>1. [i \in DOMAIN PartNames |-> Listed(PartNames[i])]
          = [i \in 1..Len(PartNames) |-> IF i <= m THEN <<PartNames[i]>> ELSE <<>>]
    BY <1>1, <1>2
  <2> QED BY <2>1 DEF PartsSorted
<1>4. PartsSorted = SubSeq(PartNames, 1, m)
  BY <1>1, <1>3, FlattenFirst
<1> QED BY <1>1, <1>4

LEMMA WritePartGood ==
  ASSUME TypeInv, NEW r \in Reqs, WritePart(r), Good(r)
  PROVE  Good(r)' /\ (FinalOf(r)' <=> FinalOf(r))
<1> DEFINE p == PartNames[Len(PartsSorted) + 1]
           v == Chunk(job[r].at, job[r].n)
<1>1. /\ pc[r] = "count" /\ files' = files /\ told' = told /\ Write(r, p, v, "save")
      /\ p \in Parts
  <2>1. Len(PartsSorted) + 1 \in 1..Len(PartNames)
    BY SortedFacts, PathFacts, LenProperties DEF WritePart
  <2> QED BY <2>1, PathFacts DEF WritePart, outside
<1>2. Holds(r) => \E j \in 1..Len(PartNames) : PartsTo(j - 1) /\ p = PartNames[j]
  <2> SUFFICES ASSUME Holds(r)
               PROVE  \E j \in 1..Len(PartNames) : PartsTo(j - 1) /\ p = PartNames[j]
    OBVIOUS
  <2>1. Building
    BY <1>1 DEF Holds
  <2>2. PICK m \in 0..Len(PartNames) : PartsTo(m)
    BY <2>1 DEF Building, Numbered
  <2>3. Len(PartsSorted) = m /\ m < Len(PartNames) /\ Len(PartNames) \in Nat
    BY <2>2, SortedFirst, PathFacts DEF WritePart
  <2>4. m + 1 \in 1..Len(PartNames) /\ (m + 1) - 1 = m
    BY <2>3
  <2> QED BY <2>2, <2>3, <2>4
<1> HIDE DEF p, v
<1>3. /\ pc'[r] = "open" /\ job'[r].path = p /\ job'[r].value = v
      /\ job'[r].then = "save" /\ job'[r].op = job[r].op /\ job'[r].info = job[r].info
      /\ job'[r].at = job[r].at /\ job'[r].n = job[r].n
  BY <1>1, WriteStep
<1>4. ~Pending(r)' /\ ~Pending(r)
  BY <1>1, <1>3, PathFacts DEF Pending, Writes
<1>5. Facts(r)'
  BY <1>1, <1>3, <1>4, SameFiles DEF Good, Facts, AtPart, AtEnd, Writes, v
<1>6. FinalOf(r)' <=> FinalOf(r)
  BY <1>1, <1>4, SameFiles DEF FinalOf
<1>7. Holds(r) => Holds(r)'
  <2>1. Holds(r) => Building
    BY <1>1 DEF Holds
  <2>2. Building => Building'
    BY <1>1, SameFiles
  <2>3. Holds(r) => \E j \in 1..Len(PartNames) : PartsTo(j - 1)' /\ p = PartNames[j]
    BY <1>1, <1>2, SameFiles
  <2> QED BY <1>3, <1>4, <2>1, <2>2, <2>3 DEF Holds
<1> QED BY <1>3, <1>5, <1>6, <1>7 DEF Good

LEMMA SaveOffsetGood ==
  ASSUME TypeInv, NEW r \in Reqs, SaveOffset(r), Good(r)
  PROVE  Good(r)' /\ (FinalOf(r)' <=> FinalOf(r))
<1>1. /\ pc[r] = "save" /\ files' = files /\ told' = told /\ job[r] \in Jobs
      /\ Readable /\ job[r].info = Info /\ Info \in Infos /\ Info.offset = job[r].at
  BY WorkFacts, InfoFacts DEF SaveOffset, Good, Facts, AtPart, outside
<1>2. PICK i \in Infos : i = [job[r].info EXCEPT !.offset = job[r].at + job[r].n]
  <2>1. job[r].info \in Infos /\ job[r].at \in Nat /\ job[r].n \in Nat
    BY <1>1 DEF Jobs
  <2>2. [job[r].info EXCEPT !.offset = job[r].at + job[r].n] \in Infos
    BY <2>1 DEF Infos
  <2> QED BY <2>2
<1>3. i.final = Info.final /\ i.offset = job[r].at + job[r].n
  BY <1>1, <1>2 DEF Infos
<1>4. /\ pc'[r] = "open" /\ job'[r].path = "info" /\ job'[r].value = <<i>>
      /\ job'[r].then = "reread" /\ job'[r].op = job[r].op
  BY <1>2, WriteStep DEF SaveOffset
<1>5. job'[r].value[1] = i
  BY <1>4
<1>6. Facts(r)'
  BY <1>1, <1>3, <1>4, <1>5, SameFiles DEF Facts, AtPart, AtEnd, Pending, Writes
<1>7. FinalOf(r)' <=> FinalOf(r)
  BY <1>1, <1>3, <1>4, <1>5, SameFiles DEF FinalOf, Pending, Writes
<1>8. Holds(r) => Holds(r)'
  <2> SUFFICES ASSUME Holds(r) PROVE Holds(r)'
    OBVIOUS
  <2>1. Building /\ Building'
    BY <1>1, SameFiles DEF Holds
  <2>2. PICK p \in Parts : files[p] = Chunk(job[r].at, job[r].n)
    BY <1>1 DEF Good, Facts
  <2>3. ASSUME NEW k \in 1..i.offset PROVE InParts(k)
    <3>1. CASE k <= job[r].at
      BY <1>1, <2>1, <2>3, <3>1 DEF Building, Up, Jobs
    <3>2. CASE ~(k <= job[r].at)
      <4>1. PICK at \in Nat, n \in Nat : at = job[r].at /\ n = job[r].n
        BY <1>1 DEF Jobs
      <4>2. PICK c \in Seq(Nat) : c = Chunk(at, n)
        BY <4>1, ChunkFacts
      <4>3. k - at \in 1..n /\ c[k - at] = k /\ Len(c) = n
        <5>1. k - at \in 1..n
          BY <1>3, <2>3, <3>2, <4>1
        <5>2. c[k - at] = at + (k - at) /\ Len(c) = n
          BY <4>1, <4>2, <5>1, ChunkFacts
        <5> QED BY <4>1, <5>1, <5>2
      <4>4. k \in ToSet(c) /\ c # Absent
        BY <4>2, <4>3, AbsentFacts, LenProperties DEF ToSet
      <4> QED BY <2>2, <4>1, <4>2, <4>4 DEF InParts
    <3> QED BY <3>1, <3>2
  <2>4. Up(i.offset)'
    BY <1>1, <2>3, SameFiles DEF Up
  <2>5. Up(job[r].value[1].offset)'
    BY <1>5, <2>4 DEF Up
  <2> QED BY <1>4, <2>1, <2>5 DEF Holds
<1> QED BY <1>4, <1>6, <1>7, <1>8 DEF Good

(* The upload is complete: it will be finished.                            *)
LEMMA RereadGood ==
  ASSUME TypeInv, NEW r \in Reqs, Reread(r), IsComplete(Info), Good(r)
  PROVE  Good(r)' /\ (FinalOf(r)' <=> FinalOf(r))
<1>1. /\ pc[r] = "reread" /\ files' = files /\ told' = told /\ job[r] \in Jobs /\ Readable
      /\ pc'[r] = "finish"
  BY WorkFacts, GotoStep DEF Reread
<1>2. job'[r].info = Info /\ job'[r].op = job[r].op
  BY <1>1 DEF Reread, TypeInv, Placed, Jobs
<1>3. Facts(r)'
  BY <1>1, <1>2, SameFiles DEF Facts, AtPart, AtEnd, Pending, Writes, IsComplete
<1>4. FinalOf(r)' <=> FinalOf(r)
  BY <1>1, SameFiles DEF FinalOf, Pending, Writes
<1>5. Holds(r) => Holds(r)'
  <2>1. Holds(r) => Building
    BY <1>1 DEF Holds
  <2>2. Building => Building'
    BY <1>1, SameFiles
  <2> QED BY <1>1, <2>1, <2>2 DEF Holds, Pending, Writes
<1> QED BY <1>2, <1>3, <1>4, <1>5 DEF Good

(* Clients are told of the offset, or of what they knew already.           *)
LEMMA ToldKeeps ==
  ASSUME files' = files, told' = told \/ (told' = Info.offset /\ Readable)
  PROVE  (Building => Building') /\ (Complete => Complete')
<1>1. Info' = Info /\ (Readable' <=> Readable)
  BY SameInfo
<1>2. (Numbered' <=> Numbered) /\ \A i : (InParts(i)' <=> InParts(i)) /\ (InData(i)' <=> InData(i))
  BY SameParts DEF InData
<1>3. Building => Building'
  BY <1>1, <1>2 DEF Building, Up
<1>4. Complete => Complete'
  BY <1>1, <1>2 DEF Complete, DataUp, IsComplete
<1> QED BY <1>3, <1>4

LEMMA ToldSettled ==
  ASSUME files' = files, told' = told \/ (told' = Info.offset /\ Readable), Settled
  PROVE  Settled'
BY ToldKeeps, SameInfo DEF Settled

LEMMA RereadSettles ==
  ASSUME TypeInv, NEW r \in Reqs, Reread(r), ~IsComplete(Info), Good(r)
  PROVE  Settled'
<1>1. /\ pc[r] = "reread" /\ files' = files /\ Readable /\ Tell(Info.offset)
  BY DEF Reread
<1>2. told' \in {told, Info.offset}
  BY <1>1 DEF Tell
<1>3. Settled
  BY <1>1 DEF Good, FinalOf, Holds, Settled, Pending, Writes
<1> QED BY <1>1, <1>2, <1>3, ToldSettled

LEMMA DoneSettles ==
  ASSUME TypeInv, NEW r \in Reqs, Done(r), Good(r)
  PROVE  Settled'
<1>1. /\ pc[r] = "done" /\ files' = files /\ Readable /\ job[r].info = Info
      /\ Tell(job[r].info.offset)
  BY DEF Done, Good, Facts, AtEnd
<1>2. told' \in {told, Info.offset}
  BY <1>1 DEF Tell
<1>3. Settled
  BY <1>1 DEF Good, FinalOf, Holds, Settled, Pending, Writes
<1> QED BY <1>1, <1>2, <1>3, ToldSettled

LEMMA ListPartsGood ==
  ASSUME TypeInv, NEW r \in Reqs, ListParts(r), Good(r)
  PROVE  Good(r)' /\ (FinalOf(r)' <=> FinalOf(r))
<1>1. /\ pc[r] = "list" /\ told' = told /\ job[r] \in Jobs /\ DOMAIN files = Paths
      /\ Readable /\ job[r].info = Info /\ IsComplete(Info) /\ (Holds(r) => Building)
  BY WorkFacts DEF ListParts, outside, Good, Facts, AtEnd, Holds, TypeInv, FilesOK
<1>2. /\ \A p \in Parts : files'[p] = files[p]
      /\ files'["info"] = files["info"]
  BY <1>1, PathFacts DEF ListParts
<1>3. Info' = Info /\ (Readable' <=> Readable)
  BY <1>2, SameInfo
<1>4. Building => Building'
  <2>1. Building => (Readable' => Up(Info.offset)')
    BY <1>2, <1>3, SameParts DEF Building, Up
  <2> QED BY <1>1, <1>2, <2>1, BuildingKeeps
<1>5. CASE PartsSorted = <<>>
  <2>1. /\ pc'[r] = "open" /\ job'[r].path = "data" /\ job'[r].value = <<>>
        /\ job'[r].then = "done" /\ job'[r].op = job[r].op /\ job'[r].info = job[r].info
    BY <1>5, WriteStep DEF ListParts
  <2>2. ~Pending(r)' /\ ~Pending(r)
    BY <1>1, <2>1 DEF Pending, Writes
  <2>3. Facts(r)'
    BY <1>1, <1>3, <2>1, <2>2 DEF Facts, AtPart, AtEnd, Writes, IsComplete
  <2>4. FinalOf(r)' <=> FinalOf(r)
    BY <1>3, <2>2 DEF FinalOf
  <2>5. Holds(r) => Holds(r)'
    BY <1>1, <1>4, <2>1, <2>2 DEF Holds
  <2> QED BY <2>1, <2>3, <2>4, <2>5 DEF Good
<1>6. CASE PartsSorted # <<>>
  <2>1. /\ pc'[r] = "copy" /\ files'["data"] = <<>>
        /\ job'[r].todo = PartsSorted /\ job'[r].k = 1 /\ job'[r].then = "done"
        /\ job'[r].op = job[r].op /\ job'[r].info = job[r].info
    BY <1>1, <1>6, GotoStep, PathFacts DEF ListParts, TypeInv, Placed, Jobs
  <2>2. ~Pending(r)' /\ ~Pending(r)
    BY <1>1, <2>1 DEF Pending, Writes
  <2>3. ToSet(job'[r].todo) = {p \in Parts : files'[p] # Absent} /\ files'["data"] # Absent
    BY <1>2, <2>1, SortedFacts, AbsentFacts
  <2>4. CopiedTo(job[r].k, job[r].todo)'
    BY <2>1 DEF CopiedTo
  <2>5. Facts(r)'
    BY <1>1, <1>3, <2>1, <2>2, <2>3, <2>4 DEF Facts, AtPart, AtEnd, Writes, IsComplete
  <2>6. FinalOf(r)' <=> FinalOf(r)
    BY <1>3, <2>2 DEF FinalOf
  <2>7. Holds(r) => Holds(r)'
    BY <1>1, <1>4, <2>1, <2>2 DEF Holds
  <2> QED BY <2>1, <2>5, <2>6, <2>7 DEF Good
<1> QED BY <1>5, <1>6

(* What is appended to the data file comes after what it had.              *)
LEMMA DataGrows ==
  ASSUME TypeInv, files["data"] # Absent, NEW bytes \in Seq(Nat)
  PROVE  /\ DataWith(bytes) \in Seq(Nat) /\ DataWith(bytes) # Absent
         /\ ToSet(DataWith(bytes)) = ToSet(files["data"]) \union ToSet(bytes)
<1>1. PICK d \in Seq(Nat) : d = files["data"]
  BY PathFacts DEF TypeInv, FilesOK
<1>2. DataWith(bytes) = d \o bytes /\ d \o bytes \in Seq(Nat)
  BY <1>1, ConcatProperties DEF DataWith
<1>3. ToSet(d \o bytes) = ToSet(d) \union ToSet(bytes)
  <2>1. /\ Len(d) \in Nat /\ Len(bytes) \in Nat /\ Len(d \o bytes) = Len(d) + Len(bytes)
        /\ DOMAIN d = 1..Len(d) /\ DOMAIN bytes = 1..Len(bytes)
        /\ DOMAIN (d \o bytes) = 1..(Len(d) + Len(bytes))
        /\ \A i \in 1..(Len(d) + Len(bytes)) :
             (d \o bytes)[i] = IF i <= Len(d) THEN d[i] ELSE bytes[i - Len(d)]
    BY <1>2, LenProperties, ConcatProperties
  <2>2. ASSUME NEW i \in 1..Len(bytes) PROVE bytes[i] \in ToSet(d \o bytes)
    <3>1. Len(d) + i \in 1..(Len(d) + Len(bytes)) /\ ~(Len(d) + i <= Len(d)) /\ (Len(d) + i) - Len(d) = i
      BY <2>1
    <3>2. (d \o bytes)[Len(d) + i] = bytes[i]
      BY <2>1, <3>1
    <3> QED BY <2>1, <3>1, <3>2 DEF ToSet
  <2>3. ASSUME NEW i \in 1..Len(d) PROVE d[i] \in ToSet(d \o bytes)
    BY <2>1 DEF ToSet
  <2>4. ASSUME NEW i \in 1..(Len(d) + Len(bytes))
        PROVE  (d \o bytes)[i] \in ToSet(d) \union ToSet(bytes)
    <3>1. CASE i <= Len(d)
      BY <2>1, <3>1 DEF ToSet
    <3>2. CASE ~(i <= Len(d))
      <4>1. i - Len(d) \in 1..Len(bytes)
        BY <2>1, <3>2
      <4> QED BY <2>1, <3>2, <4>1 DEF ToSet
    <3> QED BY <3>1, <3>2
  <2> QED BY <2>1, <2>2, <2>3, <2>4 DEF ToSet
<1> QED BY <1>1, <1>2, <1>3, AbsentFacts

LEMMA CopyPartGood ==
  ASSUME TypeInv, NEW r \in Reqs, CopyPart(r), Good(r)
  PROVE  Good(r)' /\ (FinalOf(r)' <=> FinalOf(r))
<1> DEFINE todo == job[r].todo
           k == job[r].k
<1>1. /\ pc[r] = "copy" /\ told' = told /\ job[r] \in Jobs /\ files[PartAtHand(r)] # Absent
      /\ Readable /\ job[r].info = Info /\ IsComplete(Info) /\ (Holds(r) => Building)
      /\ ToSet(todo) = {p \in Parts : files[p] # Absent} /\ files["data"] # Absent
      /\ \A j \in 1..(k - 1) : ToSet(files[todo[j]]) \subseteq ToSet(files["data"])
      /\ todo \in Seq(Parts) /\ k \in 1..Len(todo) /\ Len(todo) \in Nat
      /\ \A j \in 1..Len(todo) : todo[j] \in Parts
  <2>1. /\ pc[r] = "copy" /\ told' = told /\ files[PartAtHand(r)] # Absent
    BY DEF CopyPart, outside
  <2>2. Facts(r)
    BY DEF Good
  <2>3. todo \in Seq(Parts) /\ k \in 1..Len(todo) /\ Len(todo) \in Nat
    BY <2>1, PartFacts
  <2>4. \A j \in 1..Len(todo) : todo[j] \in Parts
    BY <2>3, ElementOfSeq
  <2>5. Readable /\ job[r].info = Info /\ IsComplete(Info)
    BY <2>1, <2>2 DEF Facts, AtEnd
  <2>6. /\ ToSet(todo) = {p \in Parts : files[p] # Absent} /\ files["data"] # Absent
        /\ \A j \in 1..(k - 1) : ToSet(files[todo[j]]) \subseteq ToSet(files["data"])
    BY <2>1, <2>2 DEF Facts, CopiedTo
  <2>7. Holds(r) => Building
    BY <2>1 DEF Holds
  <2> QED BY <2>1, <2>3, <2>4, <2>5, <2>6, <2>7, WorkFacts
<1>2. PICK bytes \in Seq(Nat) : bytes = files[todo[k]]
  BY <1>1, PartFacts DEF PartAtHand
<1>3. PICK c : /\ c = DataWith(bytes) /\ c # Absent /\ files' = [files EXCEPT !["data"] = c]
               /\ ToSet(c) = ToSet(files["data"]) \union ToSet(bytes)
  BY <1>1, <1>2, DataGrows DEF CopyPart, PartAtHand
<1>4. /\ Info' = Info /\ (Readable' <=> Readable) /\ (Building => Building')
      /\ \A p \in Parts : files'[p] = files[p]
      /\ files'["data"] = c
  BY <1>1, <1>3, DataBuilding
<1>5. \A j \in 1..k : ToSet(files'[todo[j]]) \subseteq ToSet(files'["data"])
  <2> SUFFICES ASSUME NEW j \in 1..k PROVE ToSet(files[todo[j]]) \subseteq ToSet(c)
    BY <1>1, <1>4
  <2>1. j = k \/ j \in 1..(k - 1)
    BY <1>1
  <2> QED BY <1>1, <1>2, <1>3, <2>1
<1>6. CASE k < Len(todo)
  <2>1. /\ pc'[r] = "copy" /\ job'[r].todo = todo /\ job'[r].k = k + 1
        /\ job'[r].op = job[r].op /\ job'[r].info = job[r].info
    BY <1>1, <1>6 DEF CopyPart, TypeInv, Placed, Jobs
  <2>2. ~Pending(r)' /\ ~Pending(r)
    BY <1>1, <2>1 DEF Pending, Writes
  <2>3. CopiedTo(job[r].k, job[r].todo)'
    <3>1. 1..(job'[r].k - 1) = 1..k
      BY <1>1, <2>1
    <3> QED BY <1>5, <2>1, <3>1 DEF CopiedTo
  <2>4. ToSet(job'[r].todo) = {p \in Parts : files'[p] # Absent} /\ files'["data"] # Absent
    BY <1>1, <1>3, <1>4, <2>1
  <2>5. Facts(r)'
    BY <1>1, <1>4, <2>1, <2>2, <2>3, <2>4 DEF Facts, AtPart, AtEnd, Writes, IsComplete
  <2>6. FinalOf(r)' <=> FinalOf(r)
    BY <1>4, <2>2 DEF FinalOf
  <2>7. Holds(r) => Holds(r)'
    BY <1>1, <1>4, <2>1, <2>2 DEF Holds
  <2> QED BY <2>1, <2>5, <2>6, <2>7 DEF Good
<1>7. CASE ~(k < Len(todo))
  <2>1. pc'[r] = "sweep" /\ job' = job
    BY <1>1, <1>7, GotoStep DEF CopyPart
  <2>2. ~Pending(r)' /\ ~Pending(r)
    BY <1>1, <2>1 DEF Pending, Writes
  <2>3. Facts(r)'
    BY <1>1, <1>4, <2>1, <2>2 DEF Facts, AtPart, AtEnd, Writes, IsComplete
  <2>4. FinalOf(r)' <=> FinalOf(r)
    BY <1>4, <2>2 DEF FinalOf
  <2>5. Building => Complete'
    <3> SUFFICES ASSUME Building PROVE Complete'
      OBVIOUS
    <3>1. \A i : InParts(i) => InData(i)'
      <4> SUFFICES ASSUME NEW i, NEW p \in Parts, files[p] # Absent, i \in ToSet(files[p])
                   PROVE  i \in ToSet(c)
        BY <1>3, <1>4 DEF InParts, InData
      <4>1. PICK j \in 1..Len(todo) : p = todo[j]
        BY <1>1, LenProperties DEF ToSet
      <4>2. j \in 1..k
        BY <1>1, <1>7
      <4> QED BY <1>4, <1>5, <4>1, <4>2
    <3>2. DataUp(told)' /\ DataUp(Info.offset)'
      BY <1>1, <1>4, <3>1 DEF Building, Up, DataUp
    <3> QED BY <1>1, <1>4, <3>2 DEF Complete, IsComplete
  <2>6. Holds(r) => Holds(r)'
    BY <1>1, <2>1, <2>2, <2>5 DEF Holds
  <2> QED BY <2>1, <2>3, <2>4, <2>6 DEF Good
<1> QED BY <1>6, <1>7

-----------------------------------------------------------------------------
(* The bytes kept: failures.                                               *)

LEMMA StopSettles ==
  ASSUME TypeInv, NEW r \in Reqs, Good(r), job[r].op = "patch", UNCHANGED <<files, told>>
  PROVE  Settled'
<1>1. Settled
  BY DEF Good, Holds, Settled
<1> QED BY <1>1, SameFiles

LEMMA FirstsFacts ==
  ASSUME NEW S, NEW s \in Seq(S), NEW f \in Firsts(s)
  PROVE  f \in Seq(S) /\ (Len(s) = 1 => f = <<>> \/ f = s)
<1>1. PICK n \in 0..Len(s) : f = SubSeq(s, 1, n)
  BY DEF Firsts
<1>2. Len(s) \in Nat /\ \A i \in 1..Len(s) : s[i] \in S
  BY LenProperties, ElementOfSeq
<1>3. f \in Seq(S) /\ Len(f) = n /\ \A i \in 1..n : f[i] = s[i]
  BY <1>1, <1>2
<1>4. CASE n = 0
  BY <1>3, <1>4, EmptySeq
<1>5. CASE n = Len(s)
  <2>1. f = s
    BY <1>3, <1>5, SeqEqual
  <2> QED BY <1>3, <2>1
<1> QED BY <1>2, <1>3, <1>4, <1>5

LEMMA OperationFailsSettles ==
  ASSUME TypeInv, NEW r \in Reqs, OperationFails(r), Good(r), job[r].op = "patch", cancels = 0
  PROVE  Settled'
<1> DEFINE p == job[r].path
           v == job[r].value
<1>1. told' = told /\ p \in Paths /\ DOMAIN files = Paths /\ job[r] \in Jobs /\ job[r].pos = 0
  BY WorkFacts DEF OperationFails, Jobs, TypeInv, FilesOK
<1>2. Holds(r)
  BY DEF Good
<1>3. CASE files' = files
  BY <1>1, <1>3, StopSettles
<1>4. CASE /\ pc[r] = "fill"
           /\ \E some \in Firsts(v) : files' = [files EXCEPT ![p] = Overlaid(@, job[r].pos, some)]
  <2>1. files[p] = <<>> /\ Building /\ v \in Seq(Infos) \union Seq(Nat)
    BY <1>1, <1>2, <1>4 DEF Good, Facts, Holds, Jobs
  <2>2. PICK some : some \in Firsts(v) /\ files' = [files EXCEPT ![p] = Overlaid(@, 0, some)]
    BY <1>1, <1>4
  <2>3. /\ some \in Seq(Infos) \union Seq(Nat)
        /\ v \in Seq(Infos) /\ Len(v) = 1 => some = <<>> \/ some = v
    <3>1. PICK w \in Seq(Infos) \union Seq(Nat) : w = v
      BY <2>1
    <3>2. CASE w \in Seq(Infos)
      BY <2>2, <3>1, <3>2, FirstsFacts
    <3>3. CASE w \in Seq(Nat)
      BY <2>2, <3>1, <3>3, FirstsFacts
    <3> QED BY <3>1, <3>2, <3>3
  <2>4. files' = [files EXCEPT ![p] = some] /\ some # Absent
    BY <1>1, <2>1, <2>2, <2>3, FreshFile, AbsentFacts
  <2>5. \/ Pending(r) /\ p = "info"
        \/ p \in Parts
        \/ p = "data"
    BY <1>4, WorkFacts DEF Writes, Pending
  <2>6. CASE Pending(r) /\ p = "info"
    <3>1. PICK i \in Infos : v = <<i>> /\ Up(i.offset)
      <4>1. v = <<v[1]>> /\ v[1] \in Infos /\ Up(v[1].offset)
        BY <1>2, <2>6, WorkFacts DEF Holds
      <4> QED BY <4>1
    <3>2. some = <<>> \/ some = <<i>>
      BY <2>3, <3>1
    <3>3. files'["info"] = some
      BY <1>1, <2>4, <2>6
    <3>4. Readable' => Info'.offset = i.offset
      BY <3>1, <3>2, <3>3 DEF Readable, Info
    <3>5. Building'
      BY <1>1, <2>1, <2>4, <2>6, <3>1, <3>4, InfoBuilding
    <3> QED BY <3>5 DEF Settled
  <2>7. CASE p \in Parts
    BY <1>1, <2>1, <2>4, <2>7, PartBuilding DEF Settled
  <2>8. CASE p = "data"
    BY <1>1, <2>1, <2>4, <2>8, DataBuilding DEF Settled
  <2> QED BY <2>5, <2>6, <2>7, <2>8
<1>5. CASE /\ pc[r] = "copy" /\ files[PartAtHand(r)] # Absent
           /\ \E some \in Firsts(files[PartAtHand(r)]) : files' = [files EXCEPT !["data"] = DataWith(some)]
  <2>1. PICK some, c : files' = [files EXCEPT !["data"] = c] /\ c = DataWith(some)
    BY <1>5
  <2>2. Building
    BY <1>2, <1>5 DEF Holds
  <2> QED BY <1>1, <2>1, <2>2, DataBuilding DEF Settled
<1> QED BY <1>3, <1>4, <1>5 DEF OperationFails

-----------------------------------------------------------------------------
(* No body is empty: what a request writes, it writes a byte of.           *)

Sent(r) == job[r].op = "patch" \/ "chunk" \in {pc[r], job[r].then} => job[r].n > 0

(* A handler that goes on with the same body.                              *)
LEMMA SameBody ==
  ASSUME TypeInv, NEW r \in Reqs, Sent(r), job[r].op # "none",
         job'[r].op = job[r].op, job'[r].n = job[r].n,
         \/ job[r].op = "patch"
         \/ pc'[r] \in {pc[r], job[r].then} /\ job'[r].then = job[r].then
         \/ pc'[r] # "chunk" /\ job'[r].then # "chunk"
         \/ pc'[r] # "chunk" /\ job'[r].then = job[r].then
  PROVE  Sent(r)'
BY DEF Sent

LEMMA SentBlank ==
  ASSUME NEW r \in Reqs, pc'[r] = "idle", job'[r] = Blank
  PROVE  Sent(r)'
BY DEF Sent, Blank

LEMMA SentSame ==
  ASSUME NEW r \in Reqs, Sent(r), pc'[r] = pc[r], job'[r] = job[r]
  PROVE  Sent(r)'
BY DEF Sent

LEMMA SentFiles ==
  ASSUME TypeInv, NEW r \in Reqs, FileStep(r), Sent(r)
  PROVE  Sent(r)'
<1>1. job[r] \in Jobs /\ pc[r] # "idle" /\ job[r].op # "none"
  BY OpFacts DEF FileStep, OpenFile, FillFile, RemoveFile, Sweep
<1>2. CASE OpenFile(r)
  BY <1>1, <1>2, GotoStep, SameBody DEF OpenFile
<1>3. CASE FillFile(r) \/ RemoveFile(r)
  <2>1. PICK l \in {job[r].then, "sweep"} : Resume(r, l)
    BY <1>3 DEF FillFile, RemoveFile
  <2>2. CASE job[r].ghost
    BY <2>1, <2>2, SentBlank DEF Resume, Goto, TypeInv, Placed
  <2>3. CASE ~job[r].ghost
    <3>1. pc'[r] = l /\ job' = job
      BY <2>1, <2>3, GotoStep DEF Resume
    <3> QED BY <1>1, <3>1, SameBody
  <2> QED BY <2>2, <2>3
<1>4. CASE Sweep(r)
  <2>1. job'[r].op = job[r].op /\ job'[r].n = job[r].n /\ job'[r].then = job[r].then
    BY <1>1, <1>4 DEF Sweep, TypeInv, Placed, Jobs
  <2>2. pc'[r] \in {job[r].then, "remove"}
    BY <1>4, GotoStep DEF Sweep
  <2> QED BY <1>1, <2>1, <2>2, SameBody
<1> QED BY <1>2, <1>3, <1>4 DEF FileStep

LEMMA SentPost ==
  ASSUME TypeInv, NEW r \in Reqs, Post(r), Sent(r), 0 \notin ChunkLens
  PROVE  Sent(r)'
<1>1. CASE \E size \in Sizes, kind \in Kinds : PostArrive(r, size, kind)
  BY <1>1 DEF PostArrive, Sent, Goto, Blank, TypeInv, Placed
<1>2. CASE Combine(r) \/ PostNoBody(r)
  <2>1. /\ job' = job /\ pc'[r] \in {"combining", "reread"} /\ job[r].op # "none"
    BY <1>2, GotoStep, OpFacts DEF Combine, PostNoBody
  <2> QED BY <2>1, SameBody
<1>3. CASE Combining(r)
  <2>1. job[r].op # "none"
    BY <1>3, OpFacts DEF Combining
  <2>2. CASE Len(files["data"]) < FinalLen
    BY <1>3, <2>2, SentSame DEF Combining
  <2>3. CASE ~(Len(files["data"]) < FinalLen)
    <3>1. PICK v : Write(r, "info", v, "body")
      BY <1>3, <2>3 DEF Combining
    <3> QED BY <2>1, <3>1, WriteStep, SameBody
  <2> QED BY <2>2, <2>3
<1>4. CASE \E n \in ChunkLens : PostBody(r, n)
  <2>1. PICK n \in ChunkLens : PostBody(r, n)
    BY <1>4
  <2>2. job'[r].n = n /\ n \in Nat /\ n # 0
    BY <2>1, FsAssumption DEF PostBody, TypeInv, Placed, Jobs
  <2> QED BY <2>2 DEF Sent
<1> QED BY <1>1, <1>2, <1>3, <1>4 DEF Post

LEMMA SentPatch ==
  ASSUME TypeInv, NEW r \in Reqs, Patch(r), Sent(r), 0 \notin ChunkLens
  PROVE  Sent(r)'
<1>1. CASE \E at \in 0..MaxLen, n \in ChunkLens : Arrive(r, "patch", at, n)
  <2>1. PICK n \in ChunkLens : job'[r].n = n
    BY <1>1 DEF Arrive, Blank, TypeInv, Placed
  <2>2. n \in Nat /\ n # 0
    BY FsAssumption
  <2> QED BY <2>1, <2>2 DEF Sent
<1>2. CASE LoadPatch(r) \/ Finish(r)
  <2>1. /\ job' = job /\ job[r].op # "none"
        /\ job[r].op = "patch" \/ pc'[r] = "list"
    BY <1>2, OpFacts, GotoStep DEF LoadPatch, Finish
  <2> QED BY <2>1, SameBody
<1>3. CASE (\E n \in Sizes \ {NoLen} : Declare(r, n)) \/ WritePart(r) \/ SaveOffset(r)
  <2>1. /\ job[r].op # "none" /\ pc[r] \in {"declare", "count", "save"}
        /\ pc[r] = "declare" => job[r].op = "patch"
    BY <1>3, OpFacts DEF Declare, WritePart, SaveOffset, Fits
  <2>2. PICK p, v, l : Write(r, p, v, l) /\ (pc[r] # "declare" => l \in {"save", "reread"})
    BY <1>3 DEF Declare, WritePart, SaveOffset
  <2>3. /\ pc'[r] = "open" /\ job'[r].then = l
        /\ job'[r].op = job[r].op /\ job'[r].n = job[r].n
    BY <2>2, WriteStep
  <2> QED BY <2>1, <2>2, <2>3, SameBody
<1>4. CASE ReadChunk(r) \/ (Reread(r) /\ IsComplete(Info))
  <2>1. /\ job[r].op # "none" /\ pc'[r] \in {"count", "finish"}
        /\ job' = [job EXCEPT ![r].info = Info]
    BY <1>4, OpFacts, GotoStep DEF ReadChunk, Reread
  <2>2. /\ job'[r].op = job[r].op /\ job'[r].n = job[r].n /\ job'[r].then = job[r].then
    BY <2>1, OpFacts DEF TypeInv, Placed, Jobs
  <2> QED BY <2>1, <2>2, SameBody
<1>5. CASE (Reread(r) /\ ~IsComplete(Info)) \/ Done(r)
  BY <1>5, EndMine, SentBlank DEF Reread, Done, End, Goto, TypeInv, Placed
<1>6. CASE ListParts(r)
  <2>1. job[r].op # "none" /\ job[r] \in Jobs
    BY <1>6, OpFacts DEF ListParts
  <2>2. CASE PartsSorted = <<>>
    <3>1. PICK v : Write(r, "data", v, "done")
      BY <1>6, <2>2 DEF ListParts
    <3> QED BY <2>1, <3>1, WriteStep, SameBody
  <2>3. CASE PartsSorted # <<>>
    <3>1. /\ pc'[r] = "copy" /\ job'[r].op = job[r].op /\ job'[r].n = job[r].n
          /\ job'[r].then = "done"
      BY <1>6, <2>1, <2>3, GotoStep DEF ListParts, TypeInv, Placed, Jobs
    <3> QED BY <2>1, <3>1, SameBody
  <2> QED BY <2>2, <2>3
<1>7. CASE CopyPart(r)
  <2>1. pc[r] = "copy" /\ job[r].op # "none" /\ job[r] \in Jobs
    BY <1>7, OpFacts DEF CopyPart
  <2>2. /\ pc'[r] \in {"copy", "sweep"} /\ job'[r].op = job[r].op /\ job'[r].n = job[r].n
        /\ job'[r].then = job[r].then
    BY <1>7, <2>1, GotoStep DEF CopyPart, TypeInv, Placed, Jobs
  <2> QED BY <2>1, <2>2, SameBody
<1> QED BY <1>1, <1>2, <1>3, <1>4, <1>5, <1>6, <1>7 DEF Patch

LEMMA SentOthers ==
  ASSUME TypeInv, NEW r \in Reqs, Others(r), Sent(r)
  PROVE  Sent(r)'
<1>1. CASE \E op \in {"get", "delete"} : Arrive(r, op, 0, 0)
  BY <1>1 DEF Arrive, Sent, Goto, Blank, TypeInv, Placed
<1>2. CASE HeadRequest(r)
  BY <1>2, SentSame DEF HeadRequest
<1>3. CASE Lock(r)
  <2>1. job' = job /\ pc'[r] = "load" /\ job[r].op # "none"
    BY <1>3, OpFacts, GotoStep DEF Lock
  <2> QED BY <2>1, SameBody
<1>4. CASE LoadGet(r) \/ LoadDelete(r) \/ ListLeft(r)
  <2>1. pc[r] # "idle" /\ job[r].op # "none" /\ job[r] \in Jobs /\ job \in [Reqs -> Jobs]
    BY <1>4, OpFacts DEF LoadGet, LoadDelete, ListLeft, TypeInv, Placed
  <2>2. pc'[r] \in {"read", "sweep"}
    BY <1>4, GotoStep DEF LoadGet, LoadDelete, ListLeft
  <2>3. /\ job'[r].op = job[r].op /\ job'[r].n = job[r].n
        /\ job'[r].then \in {job[r].then, "list_left", "deleted"}
    BY <1>4, <2>1 DEF LoadGet, LoadDelete, ListLeft, Jobs
  <2> QED BY <2>1, <2>2, <2>3, SameBody
<1>5. CASE GetRead(r) \/ Deleted(r)
  BY <1>5, SentBlank DEF GetRead, Deleted, End, Goto, TypeInv, Placed
<1> QED BY <1>1, <1>2, <1>3, <1>4, <1>5 DEF Others

LEMMA SentActs ==
  ASSUME TypeInv, NEW r \in Reqs, Acts(r), Sent(r), cancels = 0, cancels' = 0, 0 \notin ChunkLens
  PROVE  Sent(r)'
<1>1. CASE Stops(r)
  <2>1. ~Cancel(r)
    BY DEF Cancel
  <2>2. End(r)
    BY <1>1, <2>1 DEF Stops, Fail, OperationFails
  <2> QED BY <2>2, SentBlank DEF End, Goto, TypeInv, Placed
<1> QED BY <1>1, SentFiles, SentPost, SentPatch, SentOthers DEF Acts

-----------------------------------------------------------------------------
(* The bytes kept: every step.                                             *)

LEMMA LifeFacts ==
  ASSUME TypeInv, NEW r \in Reqs, Acts(r)
  PROVE  \/ life' = life
         \/ life = "new" /\ life' = "made" /\ told' = told
         \/ life = "made" /\ life' = "known"
         \/ life' = "doomed"
         \/ life' = "gone" /\ life # "new"
<1>1. CASE FileStep(r)
  BY <1>1 DEF FileStep, OpenFile, FillFile, RemoveFile, Sweep, outside
<1>2. CASE Post(r)
  BY <1>2, PostArriveFacts, PostBodyFacts DEF Post, Combine, Combining, PostNoBody, outside
<1>3. CASE Patch(r)
  BY <1>3, ArriveFacts, DeclareFacts DEF Patch, LoadPatch, ReadChunk, WritePart, SaveOffset, Reread, Finish,
     ListParts, CopyPart, Done, outside
<1>4. CASE Others(r)
  BY <1>4, ArriveFacts DEF Others, Lock, HeadRequest, LoadGet, GetRead, LoadDelete, ListLeft,
     Deleted, TypeInv, Order, outside
<1>5. CASE Stops(r)
  BY <1>5 DEF Stops, Fail, Cancel, OperationFails, outside
<1> QED BY <1>1, <1>2, <1>3, <1>4, <1>5 DEF Acts

(* What a request at work does.                                            *)
LEMMA WorkPath ==
  ASSUME TypeInv, NEW r \in Reqs, Acts(r), Working(r), cancels = 0, cancels' = 0
  PROVE  \/ FileStep(r)
         \/ Combine(r) \/ Combining(r) \/ PostNoBody(r) \/ (\E n \in ChunkLens : PostBody(r, n))
         \/ (\E n \in Sizes \ {NoLen} : Declare(r, n)) \/ ReadChunk(r) \/ WritePart(r)
         \/ SaveOffset(r) \/ Reread(r) \/ Finish(r) \/ ListParts(r) \/ CopyPart(r) \/ Done(r)
         \/ Fail(r) \/ OperationFails(r)
<1>1. pc[r] \notin {"idle", "lock", "load"} /\ job[r].op \in {"post", "patch"}
      /\ Fits(pc[r], job[r])
  BY OpFacts DEF Working
<1>2. pc[r] # "read" /\ pc[r] # "list_left" /\ pc[r] # "deleted"
  BY <1>1 DEF Fits
<1>3. ~Others(r)
  BY <1>1, <1>2, ArriveFacts DEF Others, Lock, HeadRequest, LoadGet, GetRead, LoadDelete, ListLeft,
     Deleted
<1>4. /\ \A size \in Sizes, kind \in Kinds : ~PostArrive(r, size, kind)
      /\ \A at \in 0..MaxLen, n \in ChunkLens : ~Arrive(r, "patch", at, n)
      /\ ~LoadPatch(r)
  BY <1>1, PostArriveFacts, ArriveFacts DEF LoadPatch
<1>5. ~Cancel(r)
  BY DEF Cancel
<1> QED BY <1>3, <1>4, <1>5 DEF Acts, Post, Patch, Stops

LEMMA WorkKeeps ==
  ASSUME TypeInv, NEW r \in Reqs, Acts(r), Working(r), Good(r), Sent(r), cancels = 0, cancels' = 0
  PROVE  Good(r)' \/ (pc'[r] = "idle" /\ (life' = "known" => Settled'))
<1>1. CASE FileStep(r)
  BY <1>1, OpenGood, FillGood, RemoveGood, SweepGood DEF FileStep
<1>2. CASE Combine(r) \/ Combining(r) \/ PostNoBody(r) \/ (\E n \in ChunkLens : PostBody(r, n))
  BY <1>2, CombineGood, CombiningGood, PostBodyGood
<1>3. CASE \/ (\E n \in Sizes \ {NoLen} : Declare(r, n)) \/ WritePart(r) \/ SaveOffset(r)
           \/ Finish(r) \/ ListParts(r) \/ CopyPart(r)
  BY <1>3, DeclareGood, WritePartGood, SaveOffsetGood, FinishGood, ListPartsGood, CopyPartGood
<1>4. CASE ReadChunk(r)
  <2>1. job[r].n > 0
    BY <1>4 DEF Sent, ReadChunk
  <2> QED BY <1>4, <2>1, ReadChunkGood
<1>5. CASE Reread(r)
  <2>1. CASE IsComplete(Info)
    BY <1>5, <2>1, RereadGood
  <2>2. CASE ~IsComplete(Info)
    <3>1. End(r)
      BY <1>5, <2>2 DEF Reread
    <3> QED BY <1>5, <2>2, <3>1, RereadSettles DEF End, Goto, TypeInv, Placed
  <2> QED BY <2>1, <2>2
<1>6. CASE Done(r)
  BY <1>6, DoneSettles DEF Done, End, Goto, TypeInv, Placed
<1>7. CASE Fail(r) \/ OperationFails(r)
  <2>1. pc'[r] = "idle" /\ life' = life
    BY <1>7 DEF Fail, OperationFails, End, Goto, TypeInv, Placed, outside
  <2>2. CASE job[r].op = "post"
    BY <2>1, <2>2 DEF TypeInv, Order
  <2>3. CASE job[r].op = "patch"
    <3>1. Fail(r) => UNCHANGED <<files, told>>
      BY DEF Fail, outside
    <3> QED BY <1>7, <2>1, <2>3, <3>1, StopSettles, OperationFailsSettles
  <2> QED BY <2>1, <2>2, <2>3 DEF Working
<1> QED BY <1>1, <1>2, <1>3, <1>4, <1>5, <1>6, <1>7, WorkPath

(* A request that reads the info under the lock, or a download.            *)
LEMMA LoadPath ==
  ASSUME TypeInv, DeletedInv, NEW r \in Reqs, Acts(r), Active(r), ~Working(r),
         life \in {"made", "known"}, cancels = 0, cancels' = 0
  PROVE  /\ UNCHANGED <<files, told, finished>> /\ life = "known"
         /\ LoadPatch(r) \/ life' # "known" \/ job'[r].op \notin {"post", "patch"}
<1>1. /\ job[r] \in Jobs /\ Fits(pc[r], job[r]) /\ pc[r] \notin {"idle", "lock"}
      /\ job[r].op # "none" /\ Deleting(r)
  BY OpFacts DEF Active, DeletedInv
<1>2. /\ pc[r] \in {"load", "read"}
      /\ job[r].op # "post"
  <2>1. CASE pc[r] = "load"
    BY <1>1, <2>1 DEF Fits
  <2>2. CASE pc[r] # "load"
    <3>1. job[r].op \in {"get", "delete"}
      BY <1>1, <2>2 DEF Working, Jobs
    <3>2. pc[r] \in {"read", "sweep", "remove", "list_left", "deleted"}
      BY <1>1, <2>2, <3>1, WorkFacts DEF Fits, WriteFits, Labels, FileOps, Writes
    <3>3. pc[r] = "read" \/ job[r].op = "delete"
      BY <1>1, <3>1, <3>2 DEF Fits
    <3> QED BY <1>1, <3>1, <3>2, <3>3 DEF Deleting, Removal
  <2> QED BY <2>1, <2>2
<1>3. life = "known"
  BY <1>1, <1>2 DEF TypeInv, Order, Jobs
<1>4. LoadPatch(r) \/ LoadGet(r) \/ LoadDelete(r) \/ GetRead(r) \/ Fail(r)
  <2>1. ~FileStep(r)
    BY <1>2 DEF FileStep, OpenFile, FillFile, RemoveFile, Sweep
  <2>4. ~Post(r)
    BY <1>2, PostArriveFacts, PostBodyFacts DEF Post, Combine, Combining, PostNoBody
  <2>5. ~Cancel(r) /\ ~OperationFails(r)
    BY <1>2 DEF Cancel, OperationFails
  <2>2. Patch(r) => LoadPatch(r)
    BY <1>2, ArriveFacts, DeclareFacts DEF Patch, ReadChunk, WritePart, SaveOffset, Reread, Finish,
       ListParts, CopyPart, Done
  <2>3. Others(r) => LoadGet(r) \/ LoadDelete(r) \/ GetRead(r)
    BY <1>2, ArriveFacts DEF Others, Lock, HeadRequest, ListLeft, Deleted
  <2> QED BY <2>1, <2>2, <2>3, <2>4, <2>5 DEF Acts, Stops
<1>5. UNCHANGED <<files, told, finished>>
  BY <1>4 DEF LoadPatch, LoadGet, LoadDelete, GetRead, Fail, outside
<1>6. LoadGet(r) => job'[r].op = "get"
  BY <1>1 DEF LoadGet, TypeInv, Placed, Jobs
<1>7. LoadDelete(r) => life' # "known"
  BY DEF LoadDelete
<1>8. GetRead(r) \/ Fail(r) => job'[r].op = "none"
  BY BlankFits DEF GetRead, Fail, End, TypeInv, Placed
<1> QED BY <1>3, <1>4, <1>5, <1>6, <1>7, <1>8

LEMMA GoodSettles ==
  ASSUME TypeInv', NEW r \in Reqs, Good(r)', life' = "known"
  PROVE  Settled'
<1>1. Fits(pc'[r], job'[r]) /\ (job'[r].op = "post" => life' = "made")
  BY DEF TypeInv, Placed, Order
<1>2. CASE Pending(r)'
  <2>1. job'[r].op = "patch"
    BY <1>1, <1>2, PathFacts DEF Pending, Fits, WriteFits, Leftover
  <2> QED BY <2>1 DEF Good, Holds, Settled
<1>3. CASE ~Pending(r)'
  BY <1>3 DEF Good, FinalOf, Holds, Settled
<1> QED BY <1>2, <1>3

LEMMA ToldGood ==
  ASSUME NEW q \in Reqs, files' = files, pc'[q] = pc[q], job'[q] = job[q], Good(q),
         told' = told \/ (told' = Info.offset /\ Readable)
  PROVE  Good(q)'
<1>1. /\ Info' = Info /\ (Readable' <=> Readable)
      /\ (Building => Building') /\ (Complete => Complete')
  BY SameInfo, ToldKeeps
<1>2. (\A m : PartsTo(m)' <=> PartsTo(m)) /\ (\A i : InParts(i)' <=> InParts(i))
  BY SameParts
<1>3. (AtPart(q)' <=> AtPart(q)) /\ (AtEnd(q)' <=> AtEnd(q)) /\ (Pending(q)' <=> Pending(q))
  BY DEF AtPart, AtEnd, Pending
<1>4. Facts(q)'
  BY <1>1, <1>3 DEF Good, Facts, CopiedTo, IsComplete
<1>5. FinalOf(q)' <=> FinalOf(q)
  BY <1>1, <1>3 DEF FinalOf
<1>6. Holds(q) => Holds(q)'
  BY <1>1, <1>2, <1>3 DEF Holds, Up
<1> QED BY <1>4, <1>5, <1>6 DEF Good

LEMMA KeptActs ==
  ASSUME TypeInv, TypeInv', DeletedInv, KeptInv, NEW r \in Reqs, Acts(r), Sent(r),
         cancels = 0, cancels' = 0
  PROVE  New' /\ Rest' /\ \A q \in Reqs : Keeps(q)'
<1>1. /\ New /\ Rest /\ (\A q \in Reqs : Keeps(q))
      /\ \A q \in Reqs : q # r => pc'[q] = pc[q] /\ job'[q] = job[q]
  BY Frame DEF KeptInv, Mine
<1>2. CASE Active(r) /\ life \notin {"made", "known"}
  <2>1. life # "new" /\ life \in {"doomed", "gone"}
    BY <1>2 DEF TypeInv, Counters, Order, Active
  <2>2. life' \in {"doomed", "gone"}
    BY <2>1, LifeFacts
  <2> QED BY <2>2 DEF New, Rest, Keeps
<1>3. CASE Active(r) /\ life \in {"made", "known"}
  <2>1. life' # "new"
    BY <1>3, LifeFacts
  <2>2. \A q \in Reqs : q # r => ~Working(q) /\ ~Working(q)'
    BY <1>1, <1>3, Solo DEF Active, Working
  <2>3. CASE Working(r)
    <3>1. Good(r)
      BY <1>1, <1>3, <2>3 DEF Keeps
    <3>2. Good(r)' \/ (pc'[r] = "idle" /\ (life' = "known" => Settled'))
      BY <2>3, <3>1, WorkKeeps
    <3>3. life' = "known" => Settled'
      BY <3>2, GoodSettles
    <3>4. pc'[r] = "idle" => ~Working(r)'
      BY DEF Working
    <3> QED BY <2>1, <2>2, <3>2, <3>3, <3>4 DEF New, Rest, Keeps
  <2>4. CASE ~Working(r)
    <3>1. /\ UNCHANGED <<files, told>> /\ life = "known"
          /\ LoadPatch(r) \/ life' # "known" \/ job'[r].op \notin {"post", "patch"}
      BY <1>3, <2>4, LoadPath
    <3>2. \A q \in Reqs : ~Working(q)
      BY <2>2, <2>4
    <3>3. Settled /\ Settled'
      BY <1>1, <3>1, <3>2, SameFiles DEF Rest
    <3>4. life' # "made"
      BY <3>1, LifeFacts
    <3>5. LoadPatch(r) => Good(r)'
      BY <3>3, LoadPatchGood
    <3>6. Keeps(r)'
      BY <3>1, <3>4, <3>5 DEF Keeps, Working
    <3> QED BY <2>1, <2>2, <3>3, <3>6 DEF New, Rest, Keeps
  <2> QED BY <2>3, <2>4
<1>4. CASE ~Active(r)
  <2>1. /\ files' = files /\ ~Working(r)
        /\ \/ \E size \in Sizes, kind \in Kinds : PostArrive(r, size, kind)
           \/ \E at \in 0..MaxLen, n \in ChunkLens : Arrive(r, "patch", at, n)
           \/ \E op \in {"get", "delete"} : Arrive(r, op, 0, 0)
           \/ Lock(r) \/ HeadRequest(r) \/ Fail(r)
    BY <1>4, Waiting DEF Active, Working
  <2>2. CASE \E size \in Sizes, kind \in Kinds : PostArrive(r, size, kind)
    <3>1. life = "new" /\ life' = "made"
      BY <2>2, PostArriveFacts
    <3>2. \A q \in Reqs : q # r => ~Working(q)'
      BY <1>1, <3>1 DEF TypeInv, Order, Working
    <3>3. Good(r)'
      BY <1>1, <2>2, PostArriveGood
    <3> QED BY <3>1, <3>2, <3>3 DEF New, Rest, Keeps
  <2>3. CASE ~(\E size \in Sizes, kind \in Kinds : PostArrive(r, size, kind))
    <3>1. pc'[r] \in {"idle", "lock", "load"} /\ life' = life
      BY <1>4, <2>1, <2>3, ArriveFacts, GotoStep DEF Lock, HeadRequest, Fail, End, Goto, outside,
         TypeInv, Placed, Active
    <3>2. ~Working(r)' /\ \A q \in Reqs : Working(q)' <=> Working(q)
      BY <1>1, <2>1, <3>1 DEF Working
    <3>3. /\ told' = told \/ (told' = Info.offset /\ Readable)
          /\ life = "new" => told' = told
      BY <2>1, <2>3, ArriveFacts DEF Lock, HeadRequest, Fail, Tell, outside
    <3>4. New'
      BY <1>1, <2>1, <3>1, <3>3 DEF New
    <3>5. Settled => Settled'
      BY <2>1, <3>3, ToldSettled
    <3>6. Rest'
      BY <1>1, <3>1, <3>2, <3>5 DEF Rest
    <3>7. ASSUME NEW q \in Reqs PROVE Keeps(q)'
      <4> SUFFICES ASSUME Working(q), life \in {"made", "known"} PROVE Good(q)'
        BY <3>1, <3>2 DEF Keeps
      <4>1. q # r /\ pc'[q] = pc[q] /\ job'[q] = job[q] /\ Good(q)
        BY <1>1, <2>1 DEF Keeps
      <4> QED BY <2>1, <3>3, <4>1, ToldGood
    <3> QED BY <3>4, <3>6, <3>7
  <2> QED BY <2>2, <2>3
<1> QED BY <1>2, <1>3, <1>4

(* Between requests and in the middle of one.                              *)
LEMMA KeptSettled ==
  ASSUME TypeInv, KeptInv, cancels = 0, life = "known"
  PROVE  Settled
<1>1. CASE \A r \in Reqs : ~Working(r)
  BY <1>1 DEF KeptInv, Rest
<1>2. ASSUME NEW r \in Reqs, Working(r) PROVE Settled
  <2>1. Good(r) /\ job[r].op = "patch"
    BY <1>2 DEF KeptInv, Keeps, Working, TypeInv, Order
  <2> QED BY <2>1 DEF Good, Holds, Settled
<1> QED BY <1>1, <1>2

SentInv == cancels = 0 => \A r \in Reqs : Sent(r)

LEMMA KeptStep ==
  ASSUME TypeInv, TypeInv', DeletedInv, KeptInv, SentInv, [Next]_vars, 0 \notin ChunkLens
  PROVE  KeptInv' /\ SentInv'
<1> SUFFICES ASSUME cancels' = 0
             PROVE  /\ New' /\ Rest' /\ \A q \in Reqs : Keeps(q)'
                    /\ \A q \in Reqs : Sent(q)'
  BY DEF KeptInv, SentInv
<1>1. CASE UNCHANGED vars
  <2>1. /\ cancels = 0 /\ files' = files /\ told' = told /\ life' = life /\ pc' = pc /\ job' = job
    BY <1>1 DEF vars
  <2>2. \A q \in Reqs : (Working(q)' <=> Working(q)) /\ (Good(q) => Good(q)')
    BY <2>1, ToldGood DEF Working
  <2>3. Settled => Settled'
    BY <2>1, ToldSettled
  <2>4. \A q \in Reqs : Sent(q)'
    BY <2>1 DEF SentInv, Sent
  <2> QED BY <2>1, <2>2, <2>3, <2>4 DEF KeptInv, New, Rest, Keeps
<1>2. CASE Crash
  <2>1. /\ cancels = 0 /\ files' = files /\ told' = told /\ life' = life
        /\ \A q \in Reqs : pc'[q] = "idle" /\ job'[q] = Blank
    BY <1>2 DEF Crash
  <2>2. life = "known" => Settled'
    BY <2>1, KeptSettled, ToldSettled
  <2> QED BY <2>1, <2>2, SentBlank DEF KeptInv, New, Rest, Keeps, Working
<1>3. ASSUME NEW r \in Reqs, Acts(r)
      PROVE  /\ New' /\ Rest' /\ \A q \in Reqs : Keeps(q)'
             /\ \A q \in Reqs : Sent(q)'
  <2>1. cancels = 0
    BY <1>3, Frame, FsAssumption DEF Mine, TypeInv, Counters
  <2>2. \A q \in Reqs : Sent(q)
    BY <2>1 DEF SentInv
  <2>3. ASSUME NEW q \in Reqs PROVE Sent(q)'
    <3>1. CASE q = r
      BY <1>3, <2>1, <2>2, <3>1, SentActs
    <3>2. CASE q # r
      BY <1>3, <2>2, <3>2, Frame, SentSame DEF Mine
    <3> QED BY <3>1, <3>2
  <2> QED BY <1>3, <2>1, <2>2, <2>3, KeptActs
<1> QED BY <1>1, <1>2, <1>3, Steps

LEMMA KeptInit == Init => KeptInv /\ SentInv
<1> SUFFICES ASSUME Init PROVE KeptInv /\ SentInv
  OBVIOUS
<1>1. /\ life = "new" /\ told = 0 /\ \A p \in Paths : files[p] = Absent
      /\ \A r \in Reqs : pc[r] = "idle" /\ job[r] = Blank
  BY DEF Init
<1> QED BY <1>1 DEF KeptInv, SentInv, New, Rest, Keeps, Working, Sent, Blank

LEMMA KeptInvariance ==
  ASSUME 0 \notin ChunkLens
  PROVE  Spec => [](TypeInv /\ DeletedInv /\ KeptInv /\ SentInv)
<1>1. TypeInv /\ TypeInv' /\ DeletedInv /\ KeptInv /\ SentInv /\ [Next]_vars => KeptInv' /\ SentInv'
  BY KeptStep
<1> QED BY <1>1, KeptInit, TypeInvariance, DeletedInvariance, PTL DEF Spec

(* info.rs:159, "bytes successfully written so far": as long as no request *)
(* is dropped and no body is empty, every byte below an Upload-Offset that *)
(* a client was told is on disk, in the middle of a write and of finalize, *)
(* and after crashes and disks that are full.                              *)
THEOREM ToldKept == ASSUME 0 \notin ChunkLens PROVE Spec => []ToldBytesOnDisk
<1>1. TypeInv /\ KeptInv => ToldBytesOnDisk
  <2> SUFFICES ASSUME TypeInv, KeptInv, life = "known", cancels = 0, ~(Readable /\ Info.final),
                      NEW i \in 1..told
               PROVE  OnDisk(i)
    BY DEF ToldBytesOnDisk
  <2>1. Building \/ Complete
    BY KeptSettled DEF Settled
  <2>2. InParts(i) \/ InData(i)
    BY <2>1 DEF Building, Complete, Up, DataUp
  <2> QED BY <2>2, PathFacts DEF InParts, InData, OnDisk
<1> QED BY <1>1, KeptInvariance, PTL

-----------------------------------------------------------------------------
(* Without failures the parts are the beginning of the file, byte by byte, *)
(* and the data file is all of it.                                         *)

(* What the first m parts hold; they are all there are, and hold the first *)
(* n bytes of the file.                                                    *)
HeldIn(f, m) == FlattenSeq([i \in 1..m |-> f[PartNames[i]]])
Held(m) == HeldIn(files, m)
Has(n) == \E m \in 0..Len(PartNames) : PartsTo(m) /\ Held(m) = Whole(n)

Fresh == files["data"] = Absent /\ ~finished
Exactly == Readable /\ Fresh /\ Has(Info.offset)
Assembled == Readable /\ IsComplete(Info) /\ files["data"] = Whole(Info.size)
Resting == Readable /\ (IF Info.final THEN IsComplete(Info) ELSE Exactly \/ Assembled)

(* The part that is written is the last one.                               *)
OnPart(l, path, at) ==
  \E j \in 1..Len(PartNames) :
    /\ path = PartNames[j]
    /\ PartsTo(IF l = "open" THEN j - 1 ELSE j)
    /\ Held(j - 1) = Whole(at)

(* Parts 1 to k - 1 have been copied.                                      *)
OnCopy(k, todo) ==
  \E m \in 0..Len(PartNames) :
    /\ PartsTo(m) /\ Held(m) = Whole(Info.offset)
    /\ todo = SubSeq(PartNames, 1, m)
    /\ files["data"] = Held(k - 1)

Exact(r) ==
  /\ pc[r] \in {"declare", "count", "body", "reread", "finish", "list"} => Exactly
  /\ pc[r] = "chunk" => Exactly \/ Assembled
  /\ Pending(r) => Fresh /\ Has(job[r].value[1].offset)
  /\ pc[r] \in Writes /\ job[r].then = "save" => Fresh /\ OnPart(pc[r], job[r].path, job[r].at)
  /\ pc[r] = "save" => Fresh /\ Has(job[r].at + job[r].n)
  /\ pc[r] \in Writes /\ job[r].then = "done" => Info.size = 0 /\ job[r].value = <<>>
  /\ pc[r] = "copy" => OnCopy(job[r].k, job[r].todo)
  /\ pc[r] \in {"sweep", "remove", "done"} => Assembled
  /\ pc[r] # "chunk" => ~finished

(* A final upload counts all of its bytes when the client hears of it.     *)
Final(r) ==
  \/ pc[r] \in {"combine", "combining"} \/ (Pending(r) /\ job[r].then = "combine")
  \/ Pending(r) /\ job[r].then = "body" /\ IsComplete(job[r].value[1])
  \/ Readable /\ IsComplete(Info) /\ ~AtPart(r) /\ ~Pending(r)

ExactFor(r) == IF FinalOf(r) THEN Final(r) ELSE Exact(r)
Reading(r) == pc[r] = "read" => Readable /\ IsComplete(Info) /\ job[r].info = Info
Doomed ==
  life = "doomed" =>
    \E r \in Reqs : job[r].op = "delete" /\ pc[r] \in Removal

ExactInv ==
  cancels = 0 /\ faults = 0 =>
    /\ \A r \in Reqs : Working(r) /\ life \in {"made", "known"} => ExactFor(r)
    /\ \A r \in Reqs : Reading(r)
    /\ Doomed
    /\ life = "new" => ~finished
    /\ life = "known" /\ (\A r \in Reqs : ~Working(r)) => Resting

LEMMA WholeFacts ==
  ASSUME NEW at \in Nat, NEW n \in Nat
  PROVE  Whole(at) \o Chunk(at, n) = Whole(at + n) /\ Whole(0) = <<>>
<1>1. /\ Whole(at) \in Seq(Nat) /\ Len(Whole(at)) = at /\ \A i \in 1..at : Whole(at)[i] = i
      /\ Chunk(at, n) \in Seq(Nat) /\ Len(Chunk(at, n)) = n /\ \A i \in 1..n : Chunk(at, n)[i] = at + i
      /\ Whole(at + n) \in Seq(Nat) /\ Len(Whole(at + n)) = at + n
      /\ \A i \in 1..(at + n) : Whole(at + n)[i] = i
  BY DEF Whole, Chunk
<1>2. Whole(0) = <<>>
  BY DEF Whole
<1> HIDE DEF Whole, Chunk
<1>3. PICK w, c, v : w = Whole(at) /\ c = Chunk(at, n) /\ v = Whole(at + n)
  OBVIOUS
<1>4. w \o c = v
  <2>1. /\ w \in Seq(Nat) /\ Len(w) = at /\ (\A i \in 1..at : w[i] = i)
        /\ c \in Seq(Nat) /\ Len(c) = n /\ (\A i \in 1..n : c[i] = at + i)
        /\ v \in Seq(Nat) /\ Len(v) = at + n /\ \A i \in 1..(at + n) : v[i] = i
    BY <1>1, <1>3
  <2>2. /\ w \o c \in Seq(Nat) /\ Len(w \o c) = at + n
        /\ \A i \in 1..(at + n) : (w \o c)[i] = IF i <= at THEN w[i] ELSE c[i - at]
    BY <2>1, ConcatProperties
  <2>3. ASSUME NEW i \in 1..(at + n) PROVE (w \o c)[i] = v[i]
    <3>1. CASE i <= at
      BY <2>1, <2>2, <3>1
    <3>2. CASE ~(i <= at)
      <4>1. i - at \in 1..n /\ at + (i - at) = i
        BY <3>2
      <4>2. (w \o c)[i] = c[i - at] /\ c[i - at] = at + (i - at) /\ v[i] = i
        BY <2>1, <2>2, <3>2, <4>1
      <4> QED BY <4>1, <4>2
    <3> QED BY <3>1, <3>2
  <2> QED BY <2>1, <2>2, <2>3, SeqEqual
<1> QED BY <1>2, <1>3, <1>4

(* The parts hold sequences of bytes, one after the other.                 *)
LEMMA HeldInFacts ==
  ASSUME NEW f, NEW m \in Nat, \A i \in 1..m : f[PartNames[i]] \in Seq(Nat)
  PROVE  /\ HeldIn(f, 0) = <<>>
         /\ \A k \in 0..m : HeldIn(f, k) \in Seq(Nat)
         /\ \A k \in 1..m : HeldIn(f, k) = HeldIn(f, k - 1) \o f[PartNames[k]]
<1> DEFINE upto(k) == [i \in 1..k |-> f[PartNames[i]]]
<1>1. \A k \in 0..m : HeldIn(f, k) = FlattenSeq(upto(k))
  BY DEF HeldIn
<1>2. \A k \in 0..m : upto(k) \in Seq(Seq(Nat))
  OBVIOUS
<1>3. ASSUME NEW k \in 1..m PROVE upto(k) = Append(upto(k - 1), f[PartNames[k]])
  <2>1. k - 1 \in 0..m /\ k \in 0..m /\ (k - 1) + 1 = k
    OBVIOUS
  <2>2. /\ Append(upto(k - 1), f[PartNames[k]]) \in Seq(Seq(Nat))
        /\ Len(upto(k)) = k /\ Len(upto(k - 1)) = k - 1
        /\ Len(Append(upto(k - 1), f[PartNames[k]])) = k
        /\ \A i \in 1..k : Append(upto(k - 1), f[PartNames[k]])[i] = f[PartNames[i]]
    BY <1>2, <2>1, AppendProperties
  <2> QED BY <1>2, <2>1, <2>2, SeqEqual
<1>4. upto(0) = <<>> /\ FlattenSeq(<<>>) = <<>>
  BY DEF FlattenSeq
<1> HIDE DEF upto
<1>5. HeldIn(f, 0) = <<>>
  <2>1. 0 \in 0..m
    OBVIOUS
  <2> QED BY <1>1, <1>4, <2>1
<1>6. ASSUME NEW k \in 1..m PROVE HeldIn(f, k) = HeldIn(f, k - 1) \o f[PartNames[k]]
  <2>1. k - 1 \in 0..m /\ k \in 0..m
    OBVIOUS
  <2>2. upto(k - 1) \in Seq(Seq(Nat)) /\ f[PartNames[k]] \in Seq(Nat)
    BY <1>2, <2>1
  <2>3. FlattenSeq(Append(upto(k - 1), f[PartNames[k]])) = FlattenSeq(upto(k - 1)) \o f[PartNames[k]]
    BY <2>2, FlattenAppend
  <2> QED BY <1>1, <1>3, <2>1, <2>3
<1> QED BY <1>1, <1>2, <1>5, <1>6, FlattenFacts

LEMMA HeldFacts ==
  ASSUME TypeInv, NEW m \in 0..Len(PartNames), PartsTo(m)
  PROVE  /\ Held(0) = <<>>
         /\ \A k \in 0..m : Held(k) \in Seq(Nat)
         /\ \A k \in 1..m : Held(k) = Held(k - 1) \o files[PartNames[k]]
<1>1. PICK f : f = files
  OBVIOUS
<1>2. m \in Nat /\ \A i \in 1..m : f[PartNames[i]] \in Seq(Nat)
  <2>1. m \in Nat /\ \A i \in 1..m : i \in 1..Len(PartNames) /\ i <= m
    BY PathFacts
  <2>2. \A i \in 1..m : PartNames[i] \in Paths \ {"info"}
    BY <2>1, PathFacts
  <2>3. \A i \in 1..m : files[PartNames[i]] # Absent
    BY <2>1 DEF PartsTo
  <2> QED BY <1>1, <2>1, <2>2, <2>3 DEF TypeInv, FilesOK
<1>3. \A k : Held(k) = HeldIn(f, k)
  BY <1>1 DEF Held
<1> QED BY <1>1, <1>2, <1>3, HeldInFacts

(* The parts are read as they were, or from the first on.                  *)
LEMMA SameHeld ==
  ASSUME NEW m \in 0..Len(PartNames),
         \A i \in 1..m : files'[PartNames[i]] = files[PartNames[i]]
  PROVE  Held(m)' = Held(m)
<1>1. [i \in 1..m |-> files'[PartNames[i]]] = [i \in 1..m |-> files[PartNames[i]]]
  OBVIOUS
<1> QED BY <1>1 DEF Held, HeldIn

LEMMA SameHas ==
  ASSUME \A p \in Parts : files'[p] = files[p]
  PROVE  /\ \A n : Has(n)' <=> Has(n)
         /\ \A m \in 0..Len(PartNames) : Held(m)' = Held(m)
         /\ \A m : PartsTo(m)' <=> PartsTo(m)
<1>1. \A m \in 0..Len(PartNames) : Held(m)' = Held(m)
  <2> TAKE m \in 0..Len(PartNames)
  <2>1. \A i \in 1..m : PartNames[i] \in Parts
    BY PathFacts
  <2> QED BY <2>1, SameHeld
<1>2. \A m : PartsTo(m)' <=> PartsTo(m)
  BY SameParts
<1> QED BY <1>1, <1>2 DEF Has

LEMMA SameExact ==
  ASSUME files' = files, finished' = finished
  PROVE  /\ (Exactly' <=> Exactly) /\ (Assembled' <=> Assembled) /\ (Resting' <=> Resting)
         /\ (Fresh' <=> Fresh) /\ \A n : Has(n)' <=> Has(n)
         /\ Info' = Info /\ (Readable' <=> Readable)
<1>1. \A n : Has(n)' <=> Has(n)
  BY SameHas
<1>2. Info' = Info /\ (Readable' <=> Readable)
  BY SameInfo
<1>3. (Fresh' <=> Fresh) /\ (Assembled' <=> Assembled)
  BY <1>2 DEF Fresh, Assembled, IsComplete
<1>4. Exactly' <=> Exactly
  BY <1>1, <1>2, <1>3 DEF Exactly
<1> QED BY <1>1, <1>2, <1>3, <1>4 DEF Resting, IsComplete

(* What finalize reads is what the parts hold.                             *)
LEMMA StoredHeld ==
  ASSUME NEW m \in 0..Len(PartNames), PartsTo(m)
  PROVE  Stored = Held(m)
<1>1. PartsSorted = SubSeq(PartNames, 1, m) /\ PartNames \in Seq(Parts) /\ Len(PartNames) \in Nat
  BY SortedFirst, PathFacts
<1>2. DOMAIN PartsSorted = 1..m /\ \A i \in 1..m : PartsSorted[i] = PartNames[i]
  BY <1>1
<1>3. [i \in DOMAIN PartsSorted |-> files[PartsSorted[i]]] = [i \in 1..m |-> files[PartNames[i]]]
  BY <1>2
<1> QED BY <1>3 DEF Stored, Held, HeldIn

(* The next part extends what the parts hold.                              *)
LEMMA PartAppended ==
  ASSUME TypeInv, NEW j \in 1..Len(PartNames), PartsTo(j), NEW c \in Seq(Nat),
         files' = [files EXCEPT ![PartNames[j]] = c]
  PROVE  /\ PartsTo(j)' /\ Held(j - 1)' = Held(j - 1) /\ Held(j)' = Held(j - 1) \o c
         /\ \A m \in 0..(j - 1) : Held(m)' = Held(m)
<1>1. /\ Len(PartNames) \in Nat /\ DOMAIN files = Paths
      /\ \A i \in 1..Len(PartNames) : PartNames[i] \in Paths /\ (PartNames[i] = PartNames[j] => i = j)
  BY PathFacts DEF TypeInv, FilesOK
<1>2. /\ j \in 1..j /\ \A i \in 1..j : i \in 1..Len(PartNames)
      /\ \A i \in 1..j : files[PartNames[i]] \in Seq(Nat)
  <2>1. j \in 1..j /\ \A i \in 1..j : i \in 1..Len(PartNames) /\ i <= j
    BY <1>1
  <2>2. \A i \in 1..j : PartNames[i] \in Paths \ {"info"}
    <3>1. \A i \in 1..Len(PartNames) : PartNames[i] \in Paths \ {"info"}
      BY <1>1, PathFacts
    <3> QED BY <2>1, <3>1
  <2>3. \A i \in 1..j : files[PartNames[i]] # Absent
    BY <2>1 DEF PartsTo
  <2> QED BY <2>1, <2>2, <2>3 DEF TypeInv, FilesOK
<1>3. PICK f : f = files'
  OBVIOUS
<1>4. /\ f[PartNames[j]] = c /\ c # Absent
      /\ \A i \in 1..Len(PartNames) : i # j => f[PartNames[i]] = files[PartNames[i]]
  BY <1>1, <1>3, AbsentFacts
<1>5. PartsTo(j)'
  <2> SUFFICES ASSUME NEW i \in 1..Len(PartNames) PROVE f[PartNames[i]] # Absent <=> i <= j
    BY <1>3 DEF PartsTo
  <2>1. files[PartNames[i]] # Absent <=> i <= j
    BY DEF PartsTo
  <2> QED BY <1>4, <2>1
<1>6. \A m \in 0..(j - 1) : Held(m)' = Held(m)
  <2> TAKE m \in 0..(j - 1)
  <2>1. m \in 0..Len(PartNames) /\ \A i \in 1..m : i \in 1..Len(PartNames) /\ i # j
    BY <1>1
  <2>2. \A i \in 1..m : files'[PartNames[i]] = files[PartNames[i]]
    BY <1>3, <1>4, <2>1
  <2> QED BY <2>1, <2>2, SameHeld
<1>7. HeldIn(f, j) = HeldIn(f, j - 1) \o c
  <2>1. j \in Nat /\ \A i \in 1..j : f[PartNames[i]] \in Seq(Nat)
    BY <1>2, <1>4
  <2> QED BY <1>2, <1>4, <2>1, HeldInFacts
<1>8. Held(j)' = HeldIn(f, j) /\ Held(j - 1)' = HeldIn(f, j - 1)
  BY <1>3 DEF Held
<1>9. j - 1 \in 0..(j - 1)
  OBVIOUS
<1> QED BY <1>5, <1>6, <1>7, <1>8, <1>9

-----------------------------------------------------------------------------
(* Byte by byte: the file operations.                                      *)

LEMMA OpenExact ==
  ASSUME TypeInv, NEW r \in Reqs, OpenFile(r), Working(r), Exact(r), cancels = 0
  PROVE  Exact(r)'
<1> DEFINE p == job[r].path
<1>1. /\ pc[r] = "open" /\ pc'[r] = "fill" /\ job' = job /\ finished' = finished
      /\ files' = [files EXCEPT ![p] = <<>>] /\ p \in Paths /\ DOMAIN files = Paths
      /\ \A q \in Paths : q # p => files'[q] = files[q]
  BY OpFacts, GotoStep DEF OpenFile, outside, Jobs, TypeInv, FilesOK
<1>2. \/ Pending(r) /\ p = "info" /\ job[r].then \notin {"save", "done"}
      \/ job[r].then = "save" /\ p \in Parts
      \/ job[r].then = "done" /\ p = "data"
  BY <1>1, WorkFacts DEF Writes, Pending
<1>3. CASE Pending(r) /\ p = "info" /\ job[r].then \notin {"save", "done"}
  <2>1. Fresh' /\ \A n : Has(n)' <=> Has(n)
    <3>1. files'["data"] = files["data"] /\ \A q \in Parts : files'[q] = files[q]
      BY <1>1, <1>3, PathFacts
    <3>2. Fresh
      BY <1>3 DEF Exact
    <3> QED BY <1>1, <3>1, <3>2, SameHas DEF Fresh
  <2>2. PICK n : n = job[r].value[1].offset
    OBVIOUS
  <2>3. Has(n)'
    BY <1>3, <2>1, <2>2 DEF Exact
  <2>4. Has(job[r].value[1].offset)'
    BY <1>1, <2>2, <2>3 DEF Has
  <2> QED BY <1>1, <1>3, <2>1, <2>4 DEF Exact, Writes
<1>4. CASE job[r].then = "save" /\ p \in Parts
  <2>1. ~Pending(r)' /\ p # "data" /\ p # "info"
    BY <1>1, <1>4, PathFacts DEF Pending
  <2>2. PICK j \in 1..Len(PartNames) : p = PartNames[j] /\ PartsTo(j - 1) /\ Held(j - 1) = Whole(job[r].at)
    BY <1>1, <1>4 DEF Exact, OnPart, Writes
  <2>3. PartsTo(j)'
    BY <1>1, <2>2, PartOpened
  <2>4. Held(j - 1)' = Held(j - 1)
    <3>1. j - 1 \in 0..Len(PartNames) /\ Len(PartNames) \in Nat
      BY PathFacts
    <3>2. \A i \in 1..(j - 1) : i \in 1..Len(PartNames) /\ i # j
      BY <3>1
    <3>3. \A i \in 1..(j - 1) : PartNames[i] \in Paths /\ PartNames[i] # p
      BY <2>2, <3>2, PathFacts
    <3> QED BY <1>1, <3>1, <3>3, SameHeld
  <2>5. Fresh'
    BY <1>1, <1>4, <2>1, PathFacts DEF Exact, Fresh, Writes
  <2>6. OnPart(pc[r], job[r].path, job[r].at)'
    BY <1>1, <2>2, <2>3, <2>4 DEF OnPart
  <2> QED BY <1>1, <1>4, <2>1, <2>5, <2>6 DEF Exact, Writes
<1>5. CASE job[r].then = "done" /\ p = "data"
  <2>1. files'["info"] = files["info"] /\ ~Pending(r)'
    BY <1>1, <1>5, PathFacts DEF Pending
  <2>2. Info' = Info
    BY <2>1, SameInfo
  <2> QED BY <1>1, <1>5, <2>1, <2>2 DEF Exact, Writes
<1> QED BY <1>2, <1>3, <1>4, <1>5

LEMMA FillExact ==
  ASSUME TypeInv, NEW r \in Reqs, FillFile(r), Working(r), Good(r), ~FinalOf(r), Exact(r), cancels = 0
  PROVE  Exact(r)'
<1> DEFINE p == job[r].path
           v == job[r].value
<1>1. /\ pc[r] = "fill" /\ pc'[r] = job[r].then /\ job' = job /\ finished' = finished
      /\ p \in Paths /\ DOMAIN files = Paths
      /\ files' = [files EXCEPT ![p] = v]
      /\ files'[p] = v /\ \A q \in Paths : q # p => files'[q] = files[q]
  BY FillStep DEF outside
<1>2. /\ job[r].then \in {"combine", "body", "chunk", "save", "reread", "done"}
      /\ \/ Pending(r) /\ p = "info" /\ job[r].then \notin {"save", "done"}
         \/ job[r].then = "save" /\ p \in Parts
         \/ job[r].then = "done" /\ p = "data"
  BY FillStep
<1>3. CASE Pending(r) /\ p = "info" /\ job[r].then \notin {"save", "done"}
  <2>1. job[r].then \in {"body", "chunk", "reread"}
    BY <1>2, <1>3 DEF Good, Facts, FinalOf
  <2>2. PICK i \in Infos : i = v[1] /\ v = <<i>>
    BY <1>3, WorkFacts
  <2>3. Readable' /\ Info' = i
    <3>1. <<i>> \in Seq(Infos) /\ <<i>> # <<>>
      OBVIOUS
    <3> QED BY <1>1, <1>3, <2>2, <3>1, AbsentFacts DEF Readable, Info
  <2>4. Fresh' /\ Has(i.offset)'
    <3>1. files'["data"] = files["data"] /\ \A q \in Parts : files'[q] = files[q]
      BY <1>1, <1>3, PathFacts
    <3>2. Fresh /\ Has(i.offset)
      BY <1>3, <2>2 DEF Exact
    <3> QED BY <1>1, <3>1, <3>2, SameHas DEF Fresh
  <2>5. Exactly'
    BY <2>3, <2>4 DEF Exactly, Has
  <2> QED BY <1>1, <2>1, <2>5 DEF Exact, Pending, Writes
<1>4. CASE job[r].then = "save" /\ p \in Parts
  <2>1. p # "data" /\ p # "info"
    BY <1>4, PathFacts
  <2>2. PICK j \in 1..Len(PartNames) : p = PartNames[j] /\ PartsTo(j) /\ Held(j - 1) = Whole(job[r].at)
    BY <1>1, <1>4 DEF Exact, OnPart, Writes
  <2>3. PICK at \in Nat, n \in Nat : at = job[r].at /\ n = job[r].n
    BY WorkFacts DEF Jobs
  <2>4. v = Chunk(at, n) /\ Chunk(at, n) \in Seq(Nat)
    BY <1>1, <1>4, <2>3, ChunkFacts DEF Good, Facts, Writes
  <2>5. files' = [files EXCEPT ![PartNames[j]] = Chunk(at, n)]
    BY <1>1, <2>2, <2>4
  <2>6. PartsTo(j)' /\ Held(j)' = Held(j - 1) \o Chunk(at, n)
    BY <2>2, <2>4, <2>5, PartAppended
  <2>7. Held(j)' = Whole(at + n)
    BY <2>2, <2>3, <2>6, WholeFacts
  <2>8. Has(job[r].at + job[r].n)'
    <3>1. j \in 0..Len(PartNames)
      BY PathFacts
    <3> QED BY <1>1, <2>3, <2>6, <2>7, <3>1 DEF Has
  <2>9. Fresh'
    BY <1>1, <1>4, <2>1, PathFacts DEF Exact, Fresh, Writes
  <2> QED BY <1>1, <1>4, <2>8, <2>9 DEF Exact, Pending, Writes
<1>5. CASE job[r].then = "done" /\ p = "data"
  <2>1. files'["info"] = files["info"] /\ files'["data"] = <<>>
    BY <1>1, <1>5, PathFacts DEF Exact, Writes
  <2>2. Info' = Info /\ Readable' /\ IsComplete(Info) /\ Info.size = 0
    BY <1>1, <1>5, <2>1, SameInfo DEF Good, Facts, AtEnd, Exact, Writes
  <2>3. Assembled'
    BY <2>1, <2>2, WholeFacts DEF Assembled, IsComplete
  <2> QED BY <1>1, <1>5, <2>3 DEF Exact, Pending, Writes
<1> QED BY <1>2, <1>3, <1>4, <1>5

LEMMA RemoveExact ==
  ASSUME TypeInv, NEW r \in Reqs, RemoveFile(r), Working(r), Good(r), Exact(r), cancels = 0
  PROVE  Exact(r)'
<1>1. /\ pc[r] = "remove" /\ pc'[r] = "sweep" /\ job' = job /\ finished' = finished
      /\ files'["info"] = files["info"] /\ files'["data"] = files["data"]
  <2>1. pc[r] = "remove" /\ ~job[r].ghost /\ job[r].path \in Parts /\ DOMAIN files = Paths
    BY WorkFacts DEF RemoveFile, Good, Facts, TypeInv, FilesOK
  <2> QED BY <2>1, GotoStep, PathFacts DEF RemoveFile, Resume, outside
<1>2. Assembled'
  BY <1>1, SameInfo DEF Exact, Assembled, IsComplete
<1> QED BY <1>1, <1>2 DEF Exact, Pending, Writes

LEMMA SweepExact ==
  ASSUME TypeInv, NEW r \in Reqs, Sweep(r), Working(r), Exact(r)
  PROVE  Exact(r)'
<1>1. /\ pc[r] = "sweep" /\ files' = files /\ finished' = finished /\ job[r].then = "done"
  BY WorkFacts DEF Sweep, outside, Working, Fits
<1>2. pc'[r] \in {"done", "remove"}
  BY <1>1, GotoStep DEF Sweep
<1>3. Assembled'
  BY <1>1, SameExact DEF Exact
<1> QED BY <1>1, <1>2, <1>3 DEF Exact, Pending, Writes

-----------------------------------------------------------------------------
(* Byte by byte: POST, and PATCH up to the new offset.                     *)

LEMMA PostArriveExact ==
  ASSUME TypeInv, NEW r \in Reqs, NEW size \in Sizes, NEW kind \in Kinds,
         PostArrive(r, size, kind), New, ~finished
  PROVE  ExactFor(r)'
<1>1. /\ files' = files /\ finished' = finished /\ (\A p \in Paths : files[p] = Absent)
      /\ pc'[r] = "open"
  BY PostArriveFacts, GotoStep DEF New
<1>2. PICK i : i = [size |-> size, offset |-> 0, final |-> kind = "final"]
  OBVIOUS
<1>3. /\ job'[r].op = "post" /\ job'[r].path = "info" /\ job'[r].value = <<i>>
      /\ job'[r].then = IF kind = "final" THEN "combine" ELSE "body"
  BY <1>2 DEF PostArrive, Blank, TypeInv, Placed
<1>4. job'[r].value[1] = i /\ i.offset = 0 /\ i.final = (kind = "final")
  BY <1>2, <1>3
<1>5. ~Readable' /\ Pending(r)' /\ ~AtPart(r)'
  BY <1>1, <1>3, PathFacts DEF Readable, Pending, AtPart, Writes
<1>6. CASE kind = "final"
  <2>1. Final(r)'
    BY <1>3, <1>5, <1>6 DEF Final
  <2>2. FinalOf(r)'
    BY <1>4, <1>5, <1>6 DEF FinalOf
  <2> QED BY <2>1, <2>2 DEF ExactFor
<1>7. CASE kind # "final"
  <2>1. Has(0)
    <3>1. PartsTo(0) /\ 0 \in 0..Len(PartNames)
      <4>1. \A p \in Parts : files[p] = Absent
        BY <1>1, PathFacts
      <4>2. 0 \in 0..Len(PartNames)
        BY PathFacts
      <4> QED BY <4>1, <4>2, NoParts
    <3> QED BY <3>1, HeldFacts, WholeFacts DEF Has
  <2>2. Has(0)' /\ Fresh'
    BY <1>1, <2>1, SameExact, PathFacts DEF Fresh
  <2>3. Has(job[r].value[1].offset)'
    BY <1>4, <2>2 DEF Has
  <2>4. Exact(r)'
    BY <1>1, <1>3, <1>7, <2>2, <2>3 DEF Exact, Writes
  <2>5. ~FinalOf(r)'
    BY <1>4, <1>5, <1>7 DEF FinalOf
  <2> QED BY <2>4, <2>5 DEF ExactFor
<1> QED BY <1>6, <1>7

LEMMA PlainExact ==
  ASSUME TypeInv, NEW r \in Reqs, Exact(r), ~FinalOf(r),
         PostNoBody(r) \/ Finish(r) \/ \E n \in ChunkLens : PostBody(r, n)
  PROVE  Exact(r)'
<1>1. /\ files' = files /\ finished' = finished /\ pc'[r] \in {"reread", "chunk", "list"}
      /\ pc[r] \in {"body", "finish"}
  BY GotoStep DEF PostNoBody, PostBody, Finish, outside
<1>2. Exactly'
  BY <1>1, SameExact DEF Exact
<1> QED BY <1>1, <1>2 DEF Exact, Pending, Writes

LEMMA LoadPatchExact ==
  ASSUME TypeInv, NEW r \in Reqs, LoadPatch(r), Resting
  PROVE  Exact(r)'
<1>1. /\ files' = files /\ finished' = finished /\ ~Info.final
      /\ pc'[r] \in {"chunk", "declare"} /\ (pc'[r] = "declare" => Info.size = NoLen)
  BY GotoStep DEF LoadPatch, outside
<1>2. Exactly \/ Assembled
  BY <1>1 DEF Resting
<1>3. pc'[r] = "declare" => Exactly
  BY <1>1, <1>2 DEF Assembled, IsComplete
<1>4. (Exactly \/ Assembled)' /\ (pc'[r] = "declare" => Exactly')
  BY <1>1, <1>2, <1>3, SameExact
<1> QED BY <1>1, <1>4 DEF Exact, Exactly, Fresh, Pending, Writes

LEMMA DeclareExact ==
  ASSUME TypeInv, NEW r \in Reqs, NEW n \in Sizes \ {NoLen}, Declare(r, n), Exact(r)
  PROVE  Exact(r)'
<1>1. /\ pc[r] = "declare" /\ files' = files /\ finished' = finished
      /\ Readable /\ Info \in Infos
  BY InfoFacts DEF Declare
<1>2. PICK i, m : i = [Info EXCEPT !.size = n] /\ m = Info.offset
  OBVIOUS
<1>3. /\ pc'[r] = "open" /\ job'[r].path = "info" /\ job'[r].value = <<i>>
      /\ job'[r].then = "chunk"
  BY <1>2, WriteStep DEF Declare
<1>4. job'[r].value[1] = i /\ i.offset = m
  BY <1>1, <1>2, <1>3 DEF Infos
<1>5. Fresh' /\ Has(m)'
  BY <1>1, <1>2, SameExact DEF Exact, Exactly
<1>6. Has(job[r].value[1].offset)'
  BY <1>4, <1>5 DEF Has
<1> QED BY <1>1, <1>3, <1>5, <1>6 DEF Exact, Pending, Writes

LEMMA ReadChunkExact ==
  ASSUME TypeInv, NEW r \in Reqs, ReadChunk(r), Exact(r), job[r].n > 0
  PROVE  Exact(r)' /\ ~IsComplete(Info)
<1>1. /\ pc[r] = "chunk" /\ files' = files /\ finished' = finished /\ pc'[r] = "count"
      /\ Readable /\ Info \in Infos /\ Info.offset = job[r].at /\ job[r] \in Jobs
      /\ Info.size # NoLen => job[r].at + job[r].n <= Info.size
  BY InfoFacts, GotoStep, WorkFacts DEF ReadChunk, outside
<1>2. ~IsComplete(Info)
  BY <1>1 DEF IsComplete, Infos, Jobs
<1>3. Exactly'
  BY <1>1, <1>2, SameExact DEF Exact, Assembled
<1> QED BY <1>1, <1>2, <1>3 DEF Exact, Exactly, Fresh, Pending, Writes

LEMMA WritePartExact ==
  ASSUME TypeInv, NEW r \in Reqs, WritePart(r), Good(r), Exact(r)
  PROVE  Exact(r)'
<1>1. /\ pc[r] = "count" /\ files' = files /\ finished' = finished
      /\ Len(PartsSorted) < Len(PartNames) /\ Info.offset = job[r].at /\ Exactly
  BY DEF WritePart, outside, Good, Facts, AtPart, Exact
<1>2. PICK p, v, at : p = PartNames[Len(PartsSorted) + 1] /\ v = Chunk(job[r].at, job[r].n) /\ at = job[r].at
  OBVIOUS
<1>3. /\ pc'[r] = "open" /\ job'[r].path = p /\ job'[r].then = "save" /\ job'[r].at = at
  BY <1>2, WriteStep DEF WritePart
<1>4. PICK m \in 0..Len(PartNames) : PartsTo(m) /\ Held(m) = Whole(at)
  BY <1>1, <1>2 DEF Exactly, Has
<1>5. m + 1 \in 1..Len(PartNames) /\ p = PartNames[m + 1] /\ (m + 1) - 1 = m
  <2>1. Len(PartsSorted) = m /\ Len(PartNames) \in Nat
    BY <1>4, SortedFirst, PathFacts
  <2> QED BY <1>1, <1>2, <2>1
<1>6. PartsTo(m)' /\ Held(m)' = Whole(at) /\ Fresh'
  BY <1>1, <1>4, SameHas, SameExact DEF Exactly
<1>7. OnPart(pc[r], job[r].path, job[r].at)'
  BY <1>3, <1>5, <1>6 DEF OnPart
<1>8. ~Pending(r)'
  BY <1>3, <1>5, PathFacts DEF Pending
<1> QED BY <1>3, <1>6, <1>7, <1>8 DEF Exact, Fresh, Writes

LEMMA SaveOffsetExact ==
  ASSUME TypeInv, NEW r \in Reqs, SaveOffset(r), Good(r), Exact(r)
  PROVE  Exact(r)'
<1>1. /\ pc[r] = "save" /\ files' = files /\ finished' = finished /\ job[r] \in Jobs
      /\ job[r].info \in Infos
  BY WorkFacts DEF SaveOffset, outside, Fits
<1>2. PICK i, m : i = [job[r].info EXCEPT !.offset = job[r].at + job[r].n] /\ m = job[r].at + job[r].n
  OBVIOUS
<1>3. /\ pc'[r] = "open" /\ job'[r].path = "info" /\ job'[r].value = <<i>>
      /\ job'[r].then = "reread"
  BY <1>2, WriteStep DEF SaveOffset
<1>4. job'[r].value[1] = i /\ i.offset = m
  BY <1>1, <1>2, <1>3 DEF Infos
<1>5. Fresh' /\ Has(m)'
  BY <1>1, <1>2, SameExact DEF Exact
<1>6. Has(job[r].value[1].offset)'
  BY <1>4, <1>5 DEF Has
<1> QED BY <1>3, <1>5, <1>6 DEF Exact, Fresh, Pending, Writes

LEMMA RereadExact ==
  ASSUME TypeInv, NEW r \in Reqs, Reread(r), ~FinalOf(r), Exact(r)
  PROVE  IF IsComplete(Info) THEN Exact(r)' ELSE Resting'
<1>1. /\ pc[r] = "reread" /\ files' = files /\ finished' = finished /\ Exactly
      /\ IsComplete(Info) => pc'[r] = "finish"
  BY GotoStep DEF Reread, Exact
<1>2. Exactly' /\ Info' = Info /\ Readable'
  BY <1>1, SameExact DEF Exactly
<1>3. ~Info.final
  BY <1>1 DEF FinalOf, Exactly
<1>4. CASE IsComplete(Info)
  BY <1>1, <1>2, <1>4 DEF Exact, Pending, Writes
<1>5. CASE ~IsComplete(Info)
  BY <1>2, <1>3, <1>5 DEF Resting
<1> QED BY <1>4, <1>5

-----------------------------------------------------------------------------
(* Byte by byte: finalize.                                                 *)

LEMMA ListPartsExact ==
  ASSUME TypeInv, NEW r \in Reqs, ListParts(r), Good(r), Exact(r)
  PROVE  Exact(r)'
<1>1. /\ pc[r] = "list" /\ finished' = finished /\ job[r] \in Jobs /\ DOMAIN files = Paths
      /\ Readable /\ Info \in Infos /\ IsComplete(Info) /\ Exactly
  BY WorkFacts, InfoFacts DEF ListParts, outside, Good, Facts, AtEnd, Exact, TypeInv, FilesOK
<1>2. PICK n \in Nat : n = Info.offset /\ n = Info.size
  BY <1>1 DEF IsComplete, Infos
<1>3. PICK m \in 0..Len(PartNames) : PartsTo(m) /\ Held(m) = Whole(n)
  BY <1>1, <1>2 DEF Exactly, Has
<1>4. PartsSorted = SubSeq(PartNames, 1, m) /\ Len(PartsSorted) = m
  BY <1>3, SortedFirst
<1>5. CASE PartsSorted = <<>>
  <2>1. n = 0
    <3>1. m = 0
      BY <1>4, <1>5
    <3>2. Whole(n) = <<>>
      BY <1>3, <3>1, HeldFacts
    <3> QED BY <3>2, ChunkFacts
  <2>2. /\ pc'[r] = "open" /\ job'[r].path = "data" /\ job'[r].value = <<>> /\ job'[r].then = "done"
        /\ files' = files
    BY <1>5, WriteStep DEF ListParts
  <2>3. Info'.size = 0
    BY <1>2, <2>1, <2>2, SameInfo
  <2> QED BY <1>1, <2>2, <2>3 DEF Exact, Pending, Writes
<1>6. CASE PartsSorted # <<>>
  <2>1. /\ pc'[r] = "copy" /\ files'["data"] = <<>> /\ files'["info"] = files["info"]
        /\ (\A p \in Parts : files'[p] = files[p])
        /\ job'[r].todo = PartsSorted /\ job'[r].k = 1
    BY <1>1, <1>6, GotoStep, PathFacts DEF ListParts, TypeInv, Placed, Jobs
  <2>2. PartsTo(m)' /\ Held(m)' = Whole(n) /\ Info' = Info
    BY <1>3, <2>1, SameHas, SameInfo
  <2>3. Held(0)' = <<>>
    <3>1. 0 \in 0..Len(PartNames)
      BY PathFacts
    <3>2. Held(0)' = Held(0)
      BY <2>1, <3>1, SameHas
    <3>3. Held(0) = <<>>
      BY <1>3, HeldFacts
    <3> QED BY <3>2, <3>3
  <2>4. OnCopy(job[r].k, job[r].todo)'
    <3>1. job'[r].k - 1 = 0 /\ job'[r].todo = SubSeq(PartNames, 1, m)
      BY <1>4, <2>1
    <3>2. files'["data"] = Held(job[r].k - 1)'
      BY <2>1, <2>3, <3>1 DEF Held
    <3> QED BY <1>2, <1>3, <2>2, <3>1, <3>2 DEF OnCopy
  <2> QED BY <1>1, <2>1, <2>4 DEF Exact, Pending, Writes
<1> QED BY <1>5, <1>6

LEMMA CopyPartExact ==
  ASSUME TypeInv, NEW r \in Reqs, CopyPart(r), Good(r), Exact(r)
  PROVE  Exact(r)'
<1>1. /\ pc[r] = "copy" /\ finished' = finished /\ job[r] \in Jobs /\ DOMAIN files = Paths
      /\ Readable /\ IsComplete(Info) /\ OnCopy(job[r].k, job[r].todo)
      /\ job[r].k \in 1..Len(job[r].todo)
  BY WorkFacts, PartFacts DEF CopyPart, outside, Good, Facts, AtEnd, Exact, TypeInv, FilesOK
<1>2. PICK k, todo, n : k = job[r].k /\ todo = job[r].todo /\ n = Info.offset
  OBVIOUS
<1>3. PICK m \in 0..Len(PartNames) : /\ PartsTo(m) /\ Held(m) = Whole(n)
                                     /\ todo = SubSeq(PartNames, 1, m)
                                     /\ files["data"] = Held(k - 1)
  BY <1>1, <1>2 DEF OnCopy
<1>4. Len(todo) = m /\ k \in 1..m /\ todo[k] = PartNames[k] /\ m \in Nat
  <2>1. PartNames \in Seq(Parts) /\ Len(PartNames) \in Nat
    BY PathFacts
  <2>2. Len(todo) = m /\ m \in Nat
    BY <1>3, <2>1
  <2>3. k \in 1..m
    BY <1>1, <1>2, <2>2
  <2>4. todo[k] = PartNames[k]
    BY <1>3, <2>1, <2>3
  <2> QED BY <2>2, <2>3, <2>4
<1>5. PICK c : c = Held(k)
  OBVIOUS
<1>6. files' = [files EXCEPT !["data"] = c]
  <2>1. /\ files["data"] \in Seq(Nat)
        /\ c = files["data"] \o files[PartNames[k]]
    <3>1. k - 1 \in 0..m
      BY <1>4
    <3>2. Held(k - 1) \in Seq(Nat) /\ Held(k) = Held(k - 1) \o files[PartNames[k]]
      BY <1>3, <1>4, <3>1, HeldFacts
    <3> QED BY <1>3, <1>5, <3>2
  <2>2. files["data"] # Absent
    BY <2>1, AbsentFacts
  <2>3. PartAtHand(r) = PartNames[k]
    BY <1>2, <1>4 DEF PartAtHand
  <2> QED BY <2>1, <2>2, <2>3 DEF CopyPart, DataWith
<1>7. /\ files'["data"] = c /\ files'["info"] = files["info"]
      /\ \A p \in Parts : files'[p] = files[p]
  BY <1>1, <1>6, PathFacts
<1>8. /\ Info' = Info /\ (Readable' <=> Readable) /\ PartsTo(m)' /\ Held(m)' = Whole(n)
      /\ files'["data"] = Held(k)'
  <2>1. k \in 0..Len(PartNames)
    BY <1>4, PathFacts
  <2> QED BY <1>3, <1>5, <1>7, <2>1, SameHas, SameInfo
<1>9. CASE k < Len(todo)
  <2>1. pc'[r] = "copy" /\ job'[r].todo = todo /\ job'[r].k = k + 1
    BY <1>1, <1>2, <1>9 DEF CopyPart, TypeInv, Placed, Jobs
  <2>2. (k + 1) - 1 = k
    BY <1>4
  <2>3. OnCopy(job[r].k, job[r].todo)'
    BY <1>2, <1>3, <1>8, <2>1, <2>2 DEF OnCopy
  <2> QED BY <1>1, <2>1, <2>3 DEF Exact, Pending, Writes
<1>10. CASE ~(k < Len(todo))
  <2>1. pc'[r] = "sweep"
    BY <1>2, <1>10, GotoStep DEF CopyPart
  <2>2. k = m
    BY <1>4, <1>10
  <2>3. files'["data"] = Whole(Info.size)
    BY <1>1, <1>2, <1>3, <1>5, <1>7, <2>2 DEF IsComplete
  <2>4. Assembled'
    BY <1>1, <1>8, <2>3 DEF Assembled, IsComplete
  <2> QED BY <1>1, <2>1, <2>4 DEF Exact, Pending, Writes
<1> QED BY <1>9, <1>10

LEMMA DoneExact ==
  ASSUME TypeInv, NEW r \in Reqs, Done(r), ~FinalOf(r), Exact(r)
  PROVE  Resting'
<1>1. pc[r] = "done" /\ files' = files /\ Assembled /\ ~Info.final
  BY DEF Done, Exact, FinalOf, Assembled
<1>2. Info' = Info /\ Assembled'
  BY <1>1, SameInfo DEF Assembled, IsComplete
<1> QED BY <1>1, <1>2 DEF Resting, Assembled

LEMMA FailExact ==
  ASSUME TypeInv, NEW r \in Reqs, Fail(r), Working(r), Good(r), ~FinalOf(r), Exact(r)
  PROVE  Resting'
<1>1. files' = files /\ finished' = finished
  BY DEF Fail, outside
<1>2. pc[r] \in {"declare", "body", "chunk", "reread", "finish"}
  <2>1. pc[r] \notin {"lock", "load", "read"}
    BY WorkFacts DEF Working, Fits
  <2>2. pc[r] = "copy" => files[PartAtHand(r)] # Absent
    <3> SUFFICES ASSUME pc[r] = "copy" PROVE files[PartAtHand(r)] # Absent
      OBVIOUS
    <3>1. /\ ToSet(job[r].todo) = {p \in Parts : files[p] # Absent}
          /\ job[r].todo \in Seq(Parts) /\ job[r].k \in 1..Len(job[r].todo)
      BY PartFacts DEF Good, Facts
    <3>2. PartAtHand(r) \in ToSet(job[r].todo)
      BY <3>1, LenProperties DEF ToSet, PartAtHand
    <3> QED BY <3>1, <3>2
  <2> QED BY <2>1, <2>2 DEF Fail
<1>3. Exactly \/ Assembled
  BY <1>2 DEF Exact
<1>4. ~Info.final
  BY <1>3 DEF FinalOf, Exactly, Assembled
<1>5. Resting
  BY <1>3, <1>4 DEF Resting, Exactly, Assembled
<1> QED BY <1>1, <1>5, SameExact

-----------------------------------------------------------------------------
(* A final upload: once its info counts the bytes it stays as it is.       *)

Counted(r) == Readable /\ IsComplete(Info) /\ ~AtPart(r) /\ ~Pending(r)

LEMMA CountedKeeps ==
  ASSUME NEW r \in Reqs, Counted(r), files'["info"] = files["info"],
         pc'[r] \notin {"count", "save"},
         pc'[r] \in Writes => job'[r].then # "save" /\ job'[r].path # "info"
  PROVE  Final(r)'
<1>1. Info' = Info /\ (Readable' <=> Readable)
  BY SameInfo
<1>2. ~AtPart(r)' /\ ~Pending(r)'
  BY DEF AtPart, Pending
<1> QED BY <1>1, <1>2 DEF Final, Counted, IsComplete

LEMMA FinalOpen ==
  ASSUME TypeInv, NEW r \in Reqs, OpenFile(r), Working(r), Final(r), cancels = 0
  PROVE  Final(r)'
<1>1. /\ pc[r] = "open" /\ pc'[r] = "fill" /\ job' = job /\ DOMAIN files = Paths
      /\ files' = [files EXCEPT ![job[r].path] = <<>>]
  BY GotoStep DEF OpenFile, TypeInv, FilesOK
<1>2. CASE Pending(r)
  <2>1. Pending(r)' /\ (IsComplete(job[r].value[1]) => IsComplete(job[r].value[1])')
    BY <1>1, <1>2 DEF Pending, Writes, IsComplete
  <2> QED BY <1>1, <1>2, <2>1 DEF Final
<1>3. CASE ~Pending(r)
  <2>1. Counted(r) /\ job[r].path # "info" /\ job[r].then # "save"
    BY <1>1, <1>3 DEF Final, Counted, Pending, AtPart, Writes
  <2>2. files'["info"] = files["info"]
    BY <1>1, <2>1, PathFacts
  <2> QED BY <1>1, <2>1, <2>2, CountedKeeps
<1> QED BY <1>2, <1>3

LEMMA FinalFill ==
  ASSUME TypeInv, NEW r \in Reqs, FillFile(r), Working(r), Good(r), Final(r), cancels = 0
  PROVE  Final(r)'
<1>1. /\ pc[r] = "fill" /\ pc'[r] = job[r].then /\ job' = job
      /\ files'[job[r].path] = job[r].value
      /\ \A q \in Paths : q # job[r].path => files'[q] = files[q]
      /\ job[r].then \in {"combine", "body", "chunk", "save", "reread", "done"}
  BY FillStep
<1>2. CASE Pending(r)
  <2>1. CASE job[r].then = "combine"
    BY <1>1, <2>1 DEF Final
  <2>2. CASE job[r].then # "combine"
    <3>1. job[r].then = "body" /\ IsComplete(job[r].value[1])
      BY <1>1, <1>2, <2>2 DEF Final
    <3>2. PICK i \in Infos : i = job[r].value[1] /\ job[r].value = <<i>>
      BY <1>2, WorkFacts
    <3>3. Readable' /\ Info' = i
      <4>1. <<i>> \in Seq(Infos) /\ <<i>> # <<>>
        OBVIOUS
      <4> QED BY <1>1, <1>2, <3>2, <4>1, AbsentFacts DEF Readable, Info, Pending
    <3>4. IsComplete(Info)'
      BY <3>1, <3>2, <3>3 DEF IsComplete
    <3> QED BY <1>1, <3>1, <3>3, <3>4 DEF Final, AtPart, Pending, Writes
  <2> QED BY <2>1, <2>2
<1>3. CASE ~Pending(r)
  <2>1. Counted(r) /\ job[r].path # "info" /\ job[r].then # "save"
    BY <1>1, <1>3 DEF Final, Counted, Pending, AtPart, Writes
  <2>2. files'["info"] = files["info"]
    BY <1>1, <2>1, PathFacts
  <2> QED BY <1>1, <2>1, <2>2, CountedKeeps DEF Writes
<1> QED BY <1>2, <1>3

LEMMA FinalFiles ==
  ASSUME TypeInv, NEW r \in Reqs, FileStep(r), Working(r), Good(r), Final(r), cancels = 0
  PROVE  Final(r)'
<1>1. CASE RemoveFile(r)
  <2>1. pc[r] = "remove" /\ ~job[r].ghost /\ job[r].path \in Parts /\ DOMAIN files = Paths
    BY <1>1, WorkFacts DEF RemoveFile, Good, Facts, TypeInv, FilesOK
  <2>2. pc'[r] = "sweep" /\ files'["info"] = files["info"]
    BY <1>1, <2>1, GotoStep, PathFacts DEF RemoveFile, Resume
  <2> QED BY <2>1, <2>2, CountedKeeps DEF Final, Counted, Pending, Writes
<1>2. CASE Sweep(r)
  <2>1. pc[r] = "sweep" /\ files' = files /\ job[r].then = "done"
    BY <1>2, WorkFacts DEF Sweep, Working, Fits
  <2>2. pc'[r] \in {"done", "remove"}
    BY <1>2, <2>1, GotoStep DEF Sweep
  <2> QED BY <2>1, <2>2, CountedKeeps DEF Final, Counted, Pending, Writes
<1> QED BY <1>1, <1>2, FinalOpen, FinalFill DEF FileStep

LEMMA FinalCombine ==
  ASSUME TypeInv, NEW r \in Reqs, Combine(r) \/ Combining(r)
  PROVE  Final(r)'
<1>1. CASE Combine(r)
  BY <1>1, GotoStep DEF Combine, Final
<1>2. CASE Combining(r) /\ Len(files["data"]) < FinalLen
  BY <1>2 DEF Combining, Final
<1>3. CASE Combining(r) /\ ~(Len(files["data"]) < FinalLen)
  <2>1. PICK i : i = [size |-> FinalLen, offset |-> FinalLen, final |-> TRUE]
    OBVIOUS
  <2>2. /\ pc'[r] = "open" /\ job'[r].path = "info" /\ job'[r].value = <<i>>
        /\ job'[r].then = "body"
    <3>1. Write(r, "info", <<i>>, "body")
      BY <1>3, <2>1 DEF Combining
    <3> QED BY <3>1, WriteStep
  <2>3. job'[r].value[1] = i /\ i.size = FinalLen /\ i.offset = FinalLen /\ FinalLen # NoLen
    BY <2>1, <2>2, FsAssumption
  <2>4. IsComplete(job[r].value[1])'
    BY <2>3 DEF IsComplete
  <2> QED BY <2>2, <2>4 DEF Final, Pending, Writes
<1> QED BY <1>1, <1>2, <1>3

LEMMA FinalFinish ==
  ASSUME TypeInv, NEW r \in Reqs, Good(r), Final(r),
         \/ PostNoBody(r) \/ (\E n \in ChunkLens : PostBody(r, n)) \/ Reread(r) \/ Finish(r)
         \/ ListParts(r) \/ CopyPart(r)
  PROVE  Final(r)'
<1>1. CASE PostNoBody(r) \/ (\E n \in ChunkLens : PostBody(r, n)) \/ Finish(r)
  <2>1. /\ files' = files /\ pc'[r] \in {"reread", "chunk", "list"} /\ pc[r] \in {"body", "finish"}
    BY <1>1, GotoStep DEF PostNoBody, PostBody, Finish
  <2> QED BY <2>1, CountedKeeps DEF Final, Counted, Pending, Writes
<1>2. CASE Reread(r)
  <2>1. pc[r] = "reread" /\ files' = files /\ IsComplete(Info)
    BY <1>2 DEF Reread, Final, Pending, Writes
  <2>2. pc'[r] = "finish"
    BY <1>2, <2>1, GotoStep DEF Reread
  <2> QED BY <2>1, <2>2, CountedKeeps DEF Final, Counted, Pending, Writes
<1>3. CASE ListParts(r)
  <2>1. pc[r] = "list" /\ DOMAIN files = Paths /\ job[r] \in Jobs
    BY <1>3, WorkFacts DEF ListParts, TypeInv, FilesOK
  <2>2. files'["info"] = files["info"]
    BY <1>3, <2>1, PathFacts DEF ListParts
  <2>3. CASE PartsSorted = <<>>
    <3>1. pc'[r] = "open" /\ job'[r].path = "data" /\ job'[r].then = "done"
      BY <1>3, <2>3, WriteStep DEF ListParts
    <3> QED BY <2>1, <2>2, <3>1, CountedKeeps DEF Final, Counted, Pending, Writes
  <2>4. CASE PartsSorted # <<>>
    <3>1. pc'[r] = "copy"
      BY <1>3, <2>4, GotoStep DEF ListParts
    <3> QED BY <2>1, <2>2, <3>1, CountedKeeps DEF Final, Counted, Pending, Writes
  <2> QED BY <2>3, <2>4
<1>4. CASE CopyPart(r)
  <2>1. pc[r] = "copy" /\ DOMAIN files = Paths
    BY <1>4 DEF CopyPart, TypeInv, FilesOK
  <2>2. files'["info"] = files["info"] /\ pc'[r] \in {"copy", "sweep"}
    BY <1>4, <2>1, GotoStep, PathFacts DEF CopyPart
  <2> QED BY <2>1, <2>2, CountedKeeps DEF Final, Counted, Pending, Writes
<1> QED BY <1>1, <1>2, <1>3, <1>4

(* It takes no more bytes, and is complete when it has been finished.      *)
LEMMA FinalRefuses ==
  ASSUME TypeInv, NEW r \in Reqs, Final(r)
  PROVE  (job[r].n > 0 => ~ReadChunk(r)) /\ ~WritePart(r) /\ ~SaveOffset(r)
<1>1. job[r].n > 0 => ~ReadChunk(r)
  <2> SUFFICES ASSUME ReadChunk(r), job[r].n > 0 PROVE FALSE
    OBVIOUS
  <2>1. Readable /\ IsComplete(Info) /\ Info \in Infos /\ job[r] \in Jobs
    BY InfoFacts, WorkFacts DEF ReadChunk, Final, Pending, Writes
  <2> QED BY <2>1 DEF ReadChunk, IsComplete, Infos, Jobs
<1>2. ~WritePart(r) /\ ~SaveOffset(r)
  BY DEF WritePart, SaveOffset, Final, AtPart, Pending, Writes
<1> QED BY <1>1, <1>2

LEMMA FinalDone ==
  ASSUME TypeInv, NEW r \in Reqs, Done(r), FinalOf(r), Final(r)
  PROVE  Resting'
<1>1. pc[r] = "done" /\ files' = files /\ Readable /\ IsComplete(Info) /\ Info.final
  BY DEF Done, Final, FinalOf, Pending, Writes
<1>2. Info' = Info /\ Readable'
  BY <1>1, SameInfo
<1> QED BY <1>1, <1>2 DEF Resting, IsComplete

-----------------------------------------------------------------------------
(* Byte by byte: every step.                                               *)

Answers(r) == (Reread(r) /\ ~IsComplete(Info)) \/ Done(r) \/ Fail(r) \/ OperationFails(r)

LEMMA WorkStays ==
  ASSUME TypeInv, NEW r \in Reqs, Acts(r), Working(r), cancels = 0, cancels' = 0
  PROVE  Working(r)' \/ (Answers(r) /\ pc'[r] = "idle")
<1>1. /\ job[r] \in Jobs /\ Fits(pc[r], job[r]) /\ ~job[r].ghost /\ job \in [Reqs -> Jobs]
      /\ pc[r] \notin {"idle", "lock", "load"} /\ job[r].op \in {"post", "patch"}
  BY WorkFacts DEF Working, TypeInv, Placed
<1>2. CASE Answers(r)
  BY <1>2 DEF Answers, Reread, Done, Fail, OperationFails, End, Goto, TypeInv, Placed
<1>3. CASE OpenFile(r) \/ FillFile(r) \/ RemoveFile(r)
  <2>1. job' = job /\ pc'[r] \in {"fill", "sweep", job[r].then}
    BY <1>1, <1>3, GotoStep DEF OpenFile, FillFile, RemoveFile, Resume
  <2>2. FillFile(r) => pc'[r] = job[r].then
    BY <1>1, GotoStep DEF FillFile, Resume
  <2>3. ~FillFile(r) => pc'[r] \in {"fill", "sweep"}
    BY <1>1, <1>3, GotoStep DEF OpenFile, RemoveFile, Resume
  <2>4. FillFile(r) => job[r].then \notin {"idle", "lock", "load"}
    BY <1>1, WorkFacts DEF FillFile, WriteFits, Writes
  <2> QED BY <1>1, <2>1, <2>2, <2>3, <2>4 DEF Working
<1>4. CASE Sweep(r)
  <2>1. pc[r] = "sweep" /\ job[r].then = "done"
    BY <1>1, <1>4 DEF Sweep, Fits
  <2>2. pc'[r] \in {"remove", "done"} /\ job'[r].op = job[r].op
    BY <1>1, <1>4, <2>1, GotoStep DEF Sweep, Jobs
  <2> QED BY <1>1, <2>2 DEF Working
<1>5. CASE Combine(r) \/ Combining(r) \/ PostNoBody(r) \/ (\E n \in ChunkLens : PostBody(r, n))
  <2>1. CASE Combining(r) /\ ~(Len(files["data"]) < FinalLen)
    <3>1. \E value : Write(r, "info", value, "body")
      BY <2>1 DEF Combining
    <3> QED BY <1>1, <3>1, WriteStep DEF Working
  <2>2. CASE Combining(r) /\ Len(files["data"]) < FinalLen
    BY <1>1, <2>2 DEF Combining, Working
  <2>3. CASE ~Combining(r)
    BY <1>1, <1>5, <2>3, GotoStep DEF Combine, PostNoBody, PostBody, Jobs, Working
  <2> QED BY <2>1, <2>2, <2>3
<1>6. CASE (\E n \in Sizes \ {NoLen} : Declare(r, n)) \/ WritePart(r) \/ SaveOffset(r)
  <2>1. \E path, value, l : Write(r, path, value, l)
    BY <1>6 DEF Declare, WritePart, SaveOffset
  <2> QED BY <1>1, <2>1, WriteStep DEF Working
<1>7. CASE ListParts(r) /\ PartsSorted = <<>>
  <2>1. Write(r, "data", <<>>, "done")
    BY <1>7 DEF ListParts
  <2> QED BY <1>1, <2>1, WriteStep DEF Working
<1>8. CASE \/ ReadChunk(r) \/ (Reread(r) /\ IsComplete(Info)) \/ Finish(r)
           \/ (ListParts(r) /\ PartsSorted # <<>>) \/ CopyPart(r)
  <2>1. /\ job'[r].op = job[r].op
        /\ pc'[r] \in {"count", "finish", "list", "copy", "sweep"}
    BY <1>1, <1>8, GotoStep DEF ReadChunk, Reread, Finish, ListParts, CopyPart, Jobs
  <2> QED BY <1>1, <2>1 DEF Working
<1> QED BY <1>2, <1>3, <1>4, <1>5, <1>6, <1>7, <1>8, WorkPath DEF Answers, FileStep

LEMMA AnswerExact ==
  ASSUME TypeInv, NEW r \in Reqs, Answers(r), Working(r), Good(r), ExactFor(r),
         faults = 0, faults' = 0, life' = "known"
  PROVE  Resting'
<1>1. ~OperationFails(r)
  BY DEF OperationFails
<1>2. CASE FinalOf(r)
  <2>1. Final(r) /\ job[r].op = "post" /\ life = "made"
    BY <1>2 DEF ExactFor, Good, Working, TypeInv, Order
  <2>2. ~Fail(r)
    BY <2>1 DEF Fail, outside
  <2>3. ~(Reread(r) /\ ~IsComplete(Info))
    BY <2>1 DEF Reread, Final, Pending, Writes
  <2> QED BY <1>1, <1>2, <2>1, <2>2, <2>3, FinalDone DEF Answers
<1>3. CASE ~FinalOf(r)
  <2>1. Exact(r)
    BY <1>3 DEF ExactFor
  <2> QED BY <1>1, <1>3, <2>1, RereadExact, DoneExact, FailExact DEF Answers
<1> QED BY <1>2, <1>3

LEMMA FinalKeeps ==
  ASSUME TypeInv, NEW r \in Reqs, Acts(r), Working(r), Good(r), Sent(r),
         cancels = 0, cancels' = 0, ~Answers(r)
  PROVE  FinalOf(r)' => FinalOf(r)
<1>1. CASE FileStep(r)
  BY <1>1, OpenGood, FillGood, RemoveGood, SweepGood DEF FileStep
<1>2. CASE Combine(r) \/ Combining(r) \/ PostNoBody(r) \/ (\E n \in ChunkLens : PostBody(r, n))
  BY <1>2, CombineGood, CombiningGood, PostBodyGood
<1>3. CASE (\E n \in Sizes \ {NoLen} : Declare(r, n)) \/ WritePart(r) \/ SaveOffset(r)
  BY <1>3, DeclareGood, WritePartGood, SaveOffsetGood
<1>4. CASE ReadChunk(r)
  <2>1. job[r].n > 0
    BY <1>4 DEF Sent, ReadChunk
  <2> QED BY <1>4, <2>1, ReadChunkGood
<1>5. CASE Reread(r) /\ IsComplete(Info)
  BY <1>5, RereadGood
<1>6. CASE Finish(r) \/ ListParts(r) \/ CopyPart(r)
  BY <1>6, FinishGood, ListPartsGood, CopyPartGood
<1> QED BY <1>1, <1>2, <1>3, <1>4, <1>5, <1>6, WorkPath DEF Answers

LEMMA WorkFinal ==
  ASSUME TypeInv, NEW r \in Reqs, Acts(r), Working(r), Good(r), Sent(r), FinalOf(r), Final(r),
         cancels = 0, cancels' = 0, ~Answers(r)
  PROVE  Final(r)' /\ FinalOf(r)'
<1>1. job[r].op = "post"
  BY DEF Good, Working
<1>2. ~ReadChunk(r) /\ ~WritePart(r) /\ ~SaveOffset(r) /\ ~(\E n \in Sizes \ {NoLen} : Declare(r, n))
  <2>1. pc[r] # "declare"
    BY <1>1, WorkFacts DEF Fits
  <2>2. ReadChunk(r) => job[r].n > 0
    BY DEF Sent, ReadChunk
  <2> QED BY <2>1, <2>2, DeclareFacts, FinalRefuses
<1>3. Final(r)'
  BY <1>2, WorkPath, FinalFiles, FinalCombine, FinalFinish DEF Answers
<1>4. FinalOf(r)'
  <2>1. CASE FileStep(r)
    BY <2>1, OpenGood, FillGood, RemoveGood, SweepGood DEF FileStep
  <2>2. CASE Combine(r) \/ Combining(r) \/ PostNoBody(r) \/ (\E n \in ChunkLens : PostBody(r, n))
    BY <2>2, CombineGood, CombiningGood, PostBodyGood
  <2>3. CASE Reread(r) /\ IsComplete(Info)
    BY <2>3, RereadGood
  <2>4. CASE Finish(r) \/ ListParts(r) \/ CopyPart(r)
    BY <2>4, FinishGood, ListPartsGood, CopyPartGood
  <2> QED BY <1>2, <2>1, <2>2, <2>3, <2>4, WorkPath DEF Answers
<1> QED BY <1>3, <1>4

LEMMA WorkExact ==
  ASSUME TypeInv, NEW r \in Reqs, Acts(r), Working(r), Good(r), Sent(r), ExactFor(r),
         cancels = 0, cancels' = 0, ~Answers(r)
  PROVE  ExactFor(r)'
<1>1. CASE FinalOf(r)
  BY <1>1, WorkFinal DEF ExactFor
<1>2. CASE ~FinalOf(r)
  <2>1. Exact(r) /\ ~FinalOf(r)'
    BY <1>2, FinalKeeps DEF ExactFor
  <2> SUFFICES Exact(r)'
    BY <2>1 DEF ExactFor
  <2>2. CASE FileStep(r)
    BY <1>2, <2>1, <2>2, OpenExact, FillExact, RemoveExact, SweepExact DEF FileStep
  <2>3. CASE PostNoBody(r) \/ (\E n \in ChunkLens : PostBody(r, n)) \/ Finish(r)
    BY <1>2, <2>1, <2>3, PlainExact
  <2>4. CASE Combine(r) \/ Combining(r)
    BY <1>2, <2>4 DEF Combine, Combining, Good, Facts, FinalOf
  <2>5. CASE \E n \in Sizes \ {NoLen} : Declare(r, n)
    BY <2>1, <2>5, DeclareExact
  <2>6. CASE ReadChunk(r)
    <3>1. job[r].n > 0
      BY <2>6 DEF Sent, ReadChunk
    <3> QED BY <2>1, <2>6, <3>1, ReadChunkExact
  <2>7. CASE WritePart(r) \/ SaveOffset(r)
    BY <2>1, <2>7, WritePartExact, SaveOffsetExact
  <2>8. CASE Reread(r) /\ IsComplete(Info)
    BY <1>2, <2>1, <2>8, RereadExact
  <2>9. CASE ListParts(r) \/ CopyPart(r)
    BY <2>1, <2>9, ListPartsExact, CopyPartExact
  <2> QED BY <2>2, <2>3, <2>4, <2>5, <2>6, <2>7, <2>8, <2>9, WorkPath DEF Answers
<1> QED BY <1>1, <1>2

LEMMA ExactSame ==
  ASSUME NEW q \in Reqs, files' = files, finished' = finished,
         pc'[q] = pc[q], job'[q] = job[q], ExactFor(q)
  PROVE  ExactFor(q)'
<1>1. /\ (Exactly' <=> Exactly) /\ (Assembled' <=> Assembled) /\ (Fresh' <=> Fresh)
      /\ (\A n : Has(n)' <=> Has(n)) /\ Info' = Info /\ (Readable' <=> Readable)
  BY SameExact
<1>2. /\ \A m : PartsTo(m)' <=> PartsTo(m)
      /\ \A m : Held(m)' = Held(m)
  BY SameParts DEF Held
<1>3. (AtPart(q)' <=> AtPart(q)) /\ (Pending(q)' <=> Pending(q))
  BY DEF AtPart, Pending
<1>4. FinalOf(q)' <=> FinalOf(q)
  BY <1>1, <1>3 DEF FinalOf
<1>5. Final(q) => Final(q)'
  BY <1>1, <1>3 DEF Final, IsComplete
<1>6. Exact(q) => Exact(q)'
  <2>1. /\ \A l, p, at : OnPart(l, p, at) => OnPart(l, p, at)'
        /\ \A k, todo : OnCopy(k, todo) => OnCopy(k, todo)'
    BY <1>1, <1>2 DEF OnPart, OnCopy
  <2>2. PICK j : j = job[q]
    OBVIOUS
  <2>3. PICK l : l = pc[q]
    OBVIOUS
  <2>4. OnPart(l, j.path, j.at)' <=> OnPart(pc[q], job[q].path, job[q].at)'
    BY <2>2, <2>3 DEF OnPart
  <2>5. Has(j.at + j.n)' <=> Has(job[q].at + job[q].n)'
    BY <2>2 DEF Has
  <2>6. OnCopy(j.k, j.todo)' <=> OnCopy(job[q].k, job[q].todo)'
    BY <2>2 DEF OnCopy, Held
  <2>7. Has(j.value[1].offset)' <=> Has(job[q].value[1].offset)'
    BY <2>2 DEF Has
  <2> QED BY <1>1, <1>3, <2>1, <2>2, <2>3, <2>4, <2>5, <2>6, <2>7 DEF Exact
<1> QED BY <1>4, <1>5, <1>6 DEF ExactFor

(* A download reads what it found under the lock.                          *)
LEMMA ReadPath ==
  ASSUME TypeInv, NEW r \in Reqs, Acts(r), pc'[r] = "read", cancels' = cancels
  PROVE  LoadGet(r)
<1>1. /\ job[r] \in Jobs /\ Fits(pc[r], job[r]) /\ pc \in [Reqs -> Labels] /\ cancels \in Nat
  BY WorkFacts, FsAssumption DEF TypeInv, Placed, Counters
<1>2. ~FileStep(r)
  <2>1. ~OpenFile(r)
    BY <1>1, GotoStep DEF OpenFile
  <2>2. ~FillFile(r)
    <3>1. CASE job[r].ghost
      BY <1>1, <3>1, GotoStep DEF FillFile, Resume
    <3>2. CASE ~job[r].ghost
      <4>1. FillFile(r) => WriteFits(job[r]) /\ pc'[r] = job[r].then
        BY <3>2, WorkFacts, GotoStep DEF FillFile, Resume, Writes
      <4> QED BY <1>1, <4>1 DEF WriteFits
    <3> QED BY <3>1, <3>2
  <2>3. RemoveFile(r) => pc'[r] \in {"idle", "sweep"}
    BY <1>1, GotoStep DEF RemoveFile, Resume
  <2>4. ~Sweep(r)
    BY <1>1, GotoStep DEF Sweep, Fits
  <2> QED BY <2>1, <2>2, <2>3, <2>4 DEF FileStep
<1>3. ~Post(r)
  BY <1>1, PostArriveFacts, PostBodyFacts DEF Post, Combine, Combining, PostNoBody, Write, Goto
<1>4. ~Patch(r)
  <2>1. ~(\E at \in 0..MaxLen, n \in ChunkLens : Arrive(r, "patch", at, n))
    BY <1>1, ArriveFacts DEF Goto
  <2>2. ~(LoadPatch(r) \/ (\E n \in Sizes \ {NoLen} : Declare(r, n)) \/ ReadChunk(r))
    BY <1>1, DeclareFacts DEF LoadPatch, ReadChunk, Goto
  <2>3. ~(WritePart(r) \/ SaveOffset(r) \/ Finish(r) \/ ListParts(r))
    BY <1>1 DEF WritePart, SaveOffset, Finish, ListParts, Write, Goto
  <2>4. ~(CopyPart(r) \/ Reread(r) \/ Done(r))
    BY <1>1 DEF CopyPart, Reread, Done, End, Goto
  <2> QED BY <2>1, <2>2, <2>3, <2>4 DEF Patch
<1>5. Others(r) => LoadGet(r)
  BY <1>1, ArriveFacts DEF Others, Lock, HeadRequest, GetRead, LoadDelete, ListLeft, Deleted, End, Goto
<1>6. ~Stops(r)
  BY <1>1 DEF Stops, Fail, Cancel, OperationFails, End, Goto, FileOps
<1> QED BY <1>2, <1>3, <1>4, <1>5, <1>6 DEF Acts

LEMMA ReadingKeeps ==
  ASSUME TypeInv, NEW r \in Reqs, Acts(r), cancels = 0, cancels' = 0, \A q \in Reqs : Reading(q)
  PROVE  \A q \in Reqs : Reading(q)'
<1> SUFFICES ASSUME NEW q \in Reqs, pc'[q] = "read"
             PROVE  Readable' /\ IsComplete(Info)' /\ job'[q].info = Info'
  BY DEF Reading
<1>1. CASE q = r
  <2>1. LoadGet(r)
    BY <1>1, ReadPath
  <2>2. files' = files /\ Readable /\ IsComplete(Info) /\ job'[r].info = Info
    BY <2>1 DEF LoadGet, TypeInv, Placed, Jobs
  <2> QED BY <1>1, <2>2, SameInfo DEF IsComplete
<1>2. CASE q # r
  <2>1. pc[q] = "read" /\ job'[q] = job[q] /\ Reading(q)
    BY <1>2, Frame DEF Mine
  <2>2. files' = files
    BY <1>2, <2>1, Solo, Waiting DEF Active
  <2> QED BY <2>1, <2>2, SameInfo DEF Reading, IsComplete
<1> QED BY <1>1, <1>2

(* A DELETE that began keeps the lock until its 204.                       *)
LEMMA DoomPath ==
  ASSUME TypeInv, NEW r \in Reqs, Acts(r), life' = "doomed", life # "doomed"
  PROVE  LoadDelete(r)
<1>1. ~FileStep(r)
  BY DEF FileStep, OpenFile, FillFile, RemoveFile, Sweep, outside
<1>2. ~Post(r)
  BY PostArriveFacts, PostBodyFacts DEF Post, Combine, Combining, PostNoBody, outside
<1>3. ~Patch(r)
  BY ArriveFacts, DeclareFacts DEF Patch, LoadPatch, ReadChunk, WritePart, SaveOffset, Reread, Finish,
     ListParts, CopyPart, Done, outside
<1>4. Others(r) => LoadDelete(r)
  BY ArriveFacts DEF Others, Lock, HeadRequest, LoadGet, GetRead, ListLeft, Deleted, outside
<1>5. ~Stops(r)
  BY DEF Stops, Fail, Cancel, OperationFails, outside
<1> QED BY <1>1, <1>2, <1>3, <1>4, <1>5 DEF Acts

LEMMA DoomedKeeps ==
  ASSUME TypeInv, NEW r \in Reqs, Acts(r), Doomed, cancels = 0, cancels' = 0, faults = 0, faults' = 0
  PROVE  Doomed'
<1> SUFFICES ASSUME life' = "doomed"
             PROVE  \E q \in Reqs : job'[q].op = "delete" /\ pc'[q] \in Removal
  BY DEF Doomed
<1>1. CASE life # "doomed"
  <2>1. LoadDelete(r) /\ job[r] \in Jobs
    BY <1>1, DoomPath, WorkFacts
  <2>2. pc'[r] = "sweep" /\ job'[r].op = "delete"
    BY <2>1, GotoStep DEF LoadDelete, Jobs, TypeInv, Placed
  <2> QED BY <2>2 DEF Removal
<1>2. CASE life = "doomed"
  <2>1. PICK q \in Reqs : job[q].op = "delete" /\ pc[q] \in Removal
    BY <1>2 DEF Doomed
  <2>2. CASE q # r
    BY <2>1, <2>2, Frame DEF Mine
  <2>3. CASE q = r
    <3>1. job[r] \in Jobs /\ Fits(pc[r], job[r]) /\ ~job[r].ghost
      BY WorkFacts
    <3>2. RemoveFile(r) \/ Sweep(r) \/ ListLeft(r)
      <4>1. FileStep(r) => RemoveFile(r) \/ Sweep(r)
        BY <2>1, <2>3 DEF FileStep, OpenFile, FillFile, Removal
      <4>2. ~Post(r)
        BY <2>1, <2>3, PostArriveFacts, PostBodyFacts DEF Post, Combine, Combining, PostNoBody, Removal
      <4>3. ~Patch(r)
        <5>1. pc[r] # "done"
          BY <2>1, <2>3 DEF Removal
        <5> QED BY <2>1, <2>3, <5>1, ArriveFacts, DeclareFacts DEF Patch, LoadPatch, ReadChunk,
              WritePart, SaveOffset, Reread, Finish, ListParts, CopyPart, Done, Removal
      <4>4. Others(r) => ListLeft(r)
        BY <2>1, <2>3, ArriveFacts DEF Others, Lock, HeadRequest, LoadGet, GetRead, LoadDelete,
           Deleted, Removal
      <4>5. ~Stops(r)
        BY <2>1, <2>3 DEF Stops, Fail, Cancel, OperationFails, Removal
      <4> QED BY <4>1, <4>2, <4>3, <4>4, <4>5 DEF Acts
    <3>3. CASE RemoveFile(r)
      BY <2>1, <2>3, <3>1, <3>3, GotoStep DEF RemoveFile, Resume, Removal
    <3>4. CASE Sweep(r)
      <4>1. job[r].then \in {"list_left", "deleted"}
        BY <2>1, <2>3, <3>1, <3>4 DEF Sweep, Fits
      <4>2. pc'[r] \in Removal
        BY <3>4, <4>1, GotoStep DEF Sweep, Removal
      <4>3. job'[r].op = job[r].op
        BY <3>1, <3>4 DEF Sweep, TypeInv, Placed, Jobs
      <4> QED BY <2>1, <2>3, <4>2, <4>3
    <3>5. CASE ListLeft(r)
      <4>1. /\ pc'[r] = "sweep"
            /\ job' = [job EXCEPT ![r].todo = PartsSorted, ![r].then = "deleted"]
        BY <3>5, GotoStep DEF ListLeft
      <4> QED BY <2>1, <2>3, <3>1, <4>1 DEF TypeInv, Placed, Jobs, Removal
    <3> QED BY <3>2, <3>3, <3>4, <3>5
  <2> QED BY <2>2, <2>3
<1> QED BY <1>1, <1>2

LEMMA FaultsGrow ==
  ASSUME TypeInv, NEW r \in Reqs, Acts(r)
  PROVE  faults' \in {faults, faults + 1}
<1>1. CASE FileStep(r)
  BY <1>1 DEF FileStep, OpenFile, FillFile, RemoveFile, Sweep, outside
<1>2. CASE Post(r)
  BY <1>2, PostArriveFacts, PostBodyFacts DEF Post, Combine, Combining, PostNoBody, outside
<1>3. CASE Patch(r)
  BY <1>3, ArriveFacts, DeclareFacts DEF Patch, LoadPatch, ReadChunk, WritePart, SaveOffset, Reread, Finish,
     ListParts, CopyPart, Done, outside
<1>4. CASE Others(r)
  BY <1>4, ArriveFacts DEF Others, Lock, HeadRequest, LoadGet, GetRead, LoadDelete, ListLeft,
     Deleted, outside
<1>5. CASE Stops(r)
  BY <1>5 DEF Stops, Fail, Cancel, OperationFails, outside
<1> QED BY <1>1, <1>2, <1>3, <1>4, <1>5 DEF Acts

LEMMA ExactActs ==
  ASSUME TypeInv, TypeInv', DeletedInv, KeptInv, ExactInv, NEW r \in Reqs, Acts(r), Sent(r),
         cancels = 0, cancels' = 0, faults = 0, faults' = 0
  PROVE  /\ \A q \in Reqs : Working(q)' /\ life' \in {"made", "known"} => ExactFor(q)'
         /\ life' = "new" => ~finished'
         /\ life' = "known" /\ (\A q \in Reqs : ~Working(q)') => Resting'
<1>1. /\ \A q \in Reqs : Working(q) /\ life \in {"made", "known"} => ExactFor(q) /\ Good(q)
      /\ New /\ (life = "new" => ~finished)
      /\ life = "known" /\ (\A q \in Reqs : ~Working(q)) => Resting
      /\ \A q \in Reqs : q # r => pc'[q] = pc[q] /\ job'[q] = job[q]
  BY Frame DEF KeptInv, Keeps, ExactInv, Mine
<1>2. CASE Active(r) /\ life \notin {"made", "known"}
  <2>1. life # "new" /\ life \in {"doomed", "gone"}
    BY <1>2 DEF TypeInv, Counters, Order, Active
  <2>2. life' \in {"doomed", "gone"}
    BY <2>1, LifeFacts
  <2> QED BY <2>2
<1>3. CASE Active(r) /\ life \in {"made", "known"}
  <2>1. life' # "new"
    BY <1>3, LifeFacts
  <2>2. \A q \in Reqs : q # r => ~Working(q) /\ ~Working(q)'
    BY <1>1, <1>3, Solo DEF Active, Working
  <2>3. CASE Working(r)
    <3>1. Good(r) /\ ExactFor(r)
      BY <1>1, <1>3, <2>3
    <3>2. CASE Answers(r)
      <4>1. ~Working(r)'
        <5>1. pc'[r] = "idle"
          BY <3>2 DEF Answers, Reread, Done, Fail, OperationFails, End, Goto, TypeInv, Placed
        <5> QED BY <5>1 DEF Working
      <4>2. life' = "known" => Resting'
        BY <2>3, <3>1, <3>2, AnswerExact
      <4> QED BY <2>1, <2>2, <4>1, <4>2
    <3>3. CASE ~Answers(r)
      <4>1. Working(r)' /\ ExactFor(r)'
        BY <2>3, <3>1, <3>3, WorkStays, WorkExact
      <4> QED BY <2>1, <2>2, <4>1
    <3> QED BY <3>2, <3>3
  <2>4. CASE ~Working(r)
    <3>1. /\ UNCHANGED <<files, finished>> /\ life = "known"
          /\ LoadPatch(r) \/ life' # "known" \/ job'[r].op \notin {"post", "patch"}
      BY <1>3, <2>4, LoadPath
    <3>2. Resting /\ Settled
      BY <1>1, <2>2, <2>4, <3>1, KeptSettled
    <3>3. Resting'
      BY <3>1, <3>2, SameExact
    <3>4. life' # "made"
      BY <3>1, LifeFacts
    <3>5. LoadPatch(r) => ExactFor(r)'
      BY <3>2, LoadPatchExact, LoadPatchGood DEF ExactFor
    <3>6. Working(r)' /\ life' \in {"made", "known"} => ExactFor(r)'
      BY <3>1, <3>4, <3>5 DEF Working
    <3> QED BY <2>1, <2>2, <3>3, <3>6
  <2> QED BY <2>3, <2>4
<1>4. CASE ~Active(r)
  <2>1. /\ files' = files /\ ~Working(r)
        /\ \/ \E size \in Sizes, kind \in Kinds : PostArrive(r, size, kind)
           \/ \E at \in 0..MaxLen, n \in ChunkLens : Arrive(r, "patch", at, n)
           \/ \E op \in {"get", "delete"} : Arrive(r, op, 0, 0)
           \/ Lock(r) \/ HeadRequest(r) \/ Fail(r)
    BY <1>4, Waiting DEF Active, Working
  <2>2. CASE \E size \in Sizes, kind \in Kinds : PostArrive(r, size, kind)
    <3>1. life = "new" /\ life' = "made"
      BY <2>2, PostArriveFacts
    <3>2. \A q \in Reqs : q # r => ~Working(q)'
      BY <1>1, <3>1 DEF TypeInv, Order, Working
    <3>3. ExactFor(r)'
      BY <1>1, <2>2, <3>1, PostArriveExact
    <3> QED BY <3>1, <3>2, <3>3
  <2>3. CASE ~(\E size \in Sizes, kind \in Kinds : PostArrive(r, size, kind))
    <3>1. pc'[r] \in {"idle", "lock", "load"} /\ life' = life /\ finished' = finished
      BY <1>4, <2>1, <2>3, ArriveFacts, GotoStep DEF Lock, HeadRequest, Fail, End, Goto, outside,
         TypeInv, Placed, Active
    <3>2. ~Working(r)' /\ \A q \in Reqs : Working(q)' <=> Working(q)
      BY <1>1, <2>1, <3>1 DEF Working
    <3>3. Resting' <=> Resting
      BY <2>1, <3>1, SameExact
    <3>4. ASSUME NEW q \in Reqs, Working(q), life \in {"made", "known"} PROVE ExactFor(q)'
      <4>1. q # r /\ pc'[q] = pc[q] /\ job'[q] = job[q] /\ ExactFor(q)
        BY <1>1, <2>1, <3>4
      <4> QED BY <2>1, <3>1, <4>1, ExactSame
    <3> QED BY <1>1, <3>1, <3>2, <3>3, <3>4
  <2> QED BY <2>2, <2>3
<1> QED BY <1>2, <1>3, <1>4

LEMMA ExactStep ==
  ASSUME TypeInv, TypeInv', DeletedInv, KeptInv, SentInv, ExactInv, [Next]_vars
  PROVE  ExactInv'
<1> SUFFICES ASSUME cancels' = 0, faults' = 0 PROVE ExactInv'
  BY DEF ExactInv
<1>1. CASE UNCHANGED vars
  <2>1. /\ cancels = 0 /\ faults = 0 /\ files' = files /\ finished' = finished /\ life' = life
        /\ pc' = pc /\ job' = job
    BY <1>1 DEF vars
  <2>2. \A q \in Reqs : (Working(q)' <=> Working(q)) /\ (ExactFor(q) => ExactFor(q)')
    BY <2>1, ExactSame DEF Working
  <2>3. (Resting' <=> Resting) /\ Info' = Info /\ (Readable' <=> Readable)
    BY <2>1, SameExact
  <2>4. (Doomed' <=> Doomed) /\ \A q \in Reqs : Reading(q)' <=> Reading(q)
    BY <2>1, <2>3 DEF Doomed, Reading, IsComplete
  <2> QED BY <2>1, <2>2, <2>3, <2>4 DEF ExactInv
<1>2. ~Crash
  BY FsAssumption DEF Crash, TypeInv, Counters
<1>3. ASSUME NEW r \in Reqs, Acts(r) PROVE ExactInv'
  <2>1. cancels = 0 /\ faults = 0
    <3>1. cancels = 0
      BY <1>3, Frame, FsAssumption DEF Mine, TypeInv, Counters
    <3>2. faults \in Nat /\ faults' \in {faults, faults + 1}
      BY <1>3, FaultsGrow DEF TypeInv, Counters
    <3> QED BY <3>1, <3>2
  <2>2. Sent(r) /\ Doomed /\ \A q \in Reqs : Reading(q)
    BY <2>1 DEF SentInv, ExactInv
  <2>3. Doomed' /\ \A q \in Reqs : Reading(q)'
    BY <1>3, <2>1, <2>2, DoomedKeeps, ReadingKeeps
  <2> QED BY <1>3, <2>1, <2>2, <2>3, ExactActs DEF ExactInv
<1> QED BY <1>1, <1>2, <1>3, Steps

LEMMA ExactInit == Init => ExactInv
<1> SUFFICES ASSUME Init PROVE ExactInv
  OBVIOUS
<1>1. life = "new" /\ finished = FALSE /\ \A r \in Reqs : pc[r] = "idle"
  BY DEF Init
<1> QED BY <1>1 DEF ExactInv, Working, Reading, Doomed

LEMMA ExactInvariance ==
  ASSUME 0 \notin ChunkLens
  PROVE  Spec => [](TypeInv /\ DeletedInv /\ ExactInv)
<1>1. /\ TypeInv /\ TypeInv' /\ DeletedInv /\ KeptInv /\ SentInv /\ ExactInv /\ [Next]_vars
      => ExactInv'
  BY ExactStep
<1> QED BY <1>1, ExactInit, KeptInvariance, PTL DEF Spec

(* Between requests, if nothing failed, the part files hold in the order   *)
(* of their numbers just the bytes the info counts: what write_chunk,      *)
(* which numbers a part by counting, and finalize build on.                *)
THEOREM PartsMatch == ASSUME 0 \notin ChunkLens PROVE Spec => []PartsMatchOffset
<1>1. TypeInv /\ ExactInv => PartsMatchOffset
  <2> SUFFICES ASSUME TypeInv, ExactInv, life = "known", faults + cancels = 0, Quiet, ~IsComplete(Info)
               PROVE  Stored = Whole(Info.offset)
    BY DEF PartsMatchOffset
  <2>1. cancels = 0 /\ faults = 0 /\ \A r \in Reqs : ~Working(r)
    BY FsAssumption DEF TypeInv, Counters, Quiet, Working
  <2>2. Exactly
    BY <2>1 DEF ExactInv, Resting, Assembled
  <2>3. PICK m \in 0..Len(PartNames) : PartsTo(m) /\ Held(m) = Whole(Info.offset)
    BY <2>2 DEF Exactly, Has
  <2> QED BY <2>3, StoredHeld
<1> QED BY <1>1, ExactInvariance, PTL

(* hooks.rs:15: once UploadFinished was sent, if nothing failed, the data  *)
(* file is all of the upload and stays so, whatever is sent to it then.    *)
THEOREM FinishedWhole == ASSUME 0 \notin ChunkLens PROVE Spec => []FinishedIsWhole
<1>1. TypeInv /\ KeptInv /\ ExactInv => FinishedIsWhole
  <2> SUFFICES ASSUME TypeInv, KeptInv, ExactInv, life = "known", finished, faults + cancels = 0
               PROVE  Readable /\ (~Info.final => files["data"] = Whole(Info.size))
    BY DEF FinishedIsWhole
  <2>1. cancels = 0 /\ faults = 0
    BY FsAssumption DEF TypeInv, Counters
  <2>2. CASE \A r \in Reqs : ~Working(r)
    BY <2>1, <2>2 DEF ExactInv, Resting, Exactly, Fresh, Assembled
  <2>3. ASSUME NEW r \in Reqs, Working(r) PROVE Assembled
    <3>1. job[r].op # "post" /\ Good(r) /\ ExactFor(r)
      BY <2>1, <2>3 DEF TypeInv, Order, KeptInv, Keeps, ExactInv
    <3>2. Exact(r)
      BY <2>3, <3>1 DEF Good, Working, ExactFor
    <3> QED BY <3>2 DEF Exact, Exactly, Fresh
  <2> QED BY <2>2, <2>3 DEF Assembled
<1> QED BY <1>1, KeptInvariance, ExactInvariance, PTL

(* A download has the lock: nothing is at work, and no DELETE began.       *)
LEMMA WholeRead ==
  ASSUME TypeInv, DeletedInv, ExactInv, NEW r \in Reqs, GetRead(r), ~Info.final,
         faults + cancels = 0
  PROVE  files["data"] = Whole(job[r].info.size)
<1>1. /\ cancels = 0 /\ faults = 0 /\ pc[r] = "read" /\ Readable /\ files["data"] # Absent
      /\ job[r].info = Info
  BY FsAssumption DEF TypeInv, Counters, GetRead, ExactInv, Reading
<1>2. job[r].op = "get" /\ Active(r)
  BY <1>1, WorkFacts DEF Fits, Active
<1>3. \A q \in Reqs : q # r => ~Active(q)
  BY <1>1, <1>2, Solo
<1>4. \A q \in Reqs : ~Working(q) /\ ~(job[q].op = "delete" /\ pc[q] \in Removal)
  BY <1>1, <1>2, <1>3 DEF Working, Active, Removal
<1>5. life = "known"
  <2>1. life # "doomed"
    BY <1>1, <1>4 DEF ExactInv, Doomed
  <2>2. life # "gone"
    BY <1>1 DEF DeletedInv, Gone
  <2>3. life # "new" /\ life # "made"
    BY <1>1, <1>2 DEF TypeInv, Order
  <2> QED BY <2>1, <2>2, <2>3 DEF TypeInv, Counters
<1>6. Resting
  BY <1>1, <1>4, <1>5 DEF ExactInv
<1> QED BY <1>1, <1>6 DEF Resting, Exactly, Fresh, Assembled

(* store.rs:35, "stream the completed upload bytes": if nothing failed, a  *)
(* GET is answered with the bytes of the upload, as many as it announced.  *)
THEOREM DownloadWhole == ASSUME 0 \notin ChunkLens PROVE Spec => DownloadIsWhole
<1>1. TypeInv /\ DeletedInv /\ ExactInv /\ [Next]_vars =>
        [\A r \in Reqs :
           GetRead(r) /\ ~Info.final /\ faults + cancels = 0 =>
             files["data"] = Whole(job[r].info.size)]_vars
  BY WholeRead
<1> QED BY <1>1, ExactInvariance, PTL DEF Spec, DownloadIsWhole

-----------------------------------------------------------------------------
(* A new part has a new name: a PATCH builds on the first parts, and a     *)
(* final upload, complete as soon as it takes a body, takes no byte.       *)

FinalInv == cancels = 0 => \A r \in Reqs : Working(r) /\ life = "made" /\ FinalOf(r) => Final(r)

LEMMA FinalSame ==
  ASSUME NEW q \in Reqs, files' = files, pc'[q] = pc[q], job'[q] = job[q]
  PROVE  (FinalOf(q)' <=> FinalOf(q)) /\ (Final(q) => Final(q)') /\ (Working(q)' <=> Working(q))
<1>1. Info' = Info /\ (Readable' <=> Readable)
  BY SameInfo
<1>2. (AtPart(q)' <=> AtPart(q)) /\ (Pending(q)' <=> Pending(q))
  BY DEF AtPart, Pending
<1> QED BY <1>1, <1>2 DEF FinalOf, Final, IsComplete, Working

LEMMA PostArriveFinal ==
  ASSUME TypeInv, NEW r \in Reqs, NEW size \in Sizes, NEW kind \in Kinds,
         PostArrive(r, size, kind), New, FinalOf(r)'
  PROVE  Final(r)'
<1>1. files' = files /\ (\A p \in Paths : files[p] = Absent) /\ pc'[r] = "open"
  BY PostArriveFacts, GotoStep DEF New
<1>2. PICK i : i = [size |-> size, offset |-> 0, final |-> kind = "final"]
  OBVIOUS
<1>3. /\ job'[r].path = "info" /\ job'[r].value = <<i>>
      /\ job'[r].then = IF kind = "final" THEN "combine" ELSE "body"
  BY <1>2 DEF PostArrive, Blank, TypeInv, Placed
<1>4. job'[r].value[1] = i /\ i.final = (kind = "final")
  BY <1>2, <1>3
<1>5. ~Readable' /\ Pending(r)'
  BY <1>1, <1>3, PathFacts DEF Readable, Pending, Writes
<1> QED BY <1>3, <1>4, <1>5 DEF FinalOf, Final

LEMMA FinalActs ==
  ASSUME TypeInv, TypeInv', DeletedInv, KeptInv, FinalInv, NEW r \in Reqs, Acts(r), Sent(r),
         cancels = 0, cancels' = 0, life' = "made",
         NEW q \in Reqs, Working(q)', FinalOf(q)'
  PROVE  Final(q)'
<1>1. q # r => pc'[q] = pc[q] /\ job'[q] = job[q]
  BY Frame DEF Mine
<1>2. CASE ~Active(r)
  <2>1. /\ files' = files
        /\ \/ \E size \in Sizes, kind \in Kinds : PostArrive(r, size, kind)
           \/ \E at \in 0..MaxLen, n \in ChunkLens : Arrive(r, "patch", at, n)
           \/ \E op \in {"get", "delete"} : Arrive(r, op, 0, 0)
           \/ Lock(r) \/ HeadRequest(r) \/ Fail(r)
    BY <1>2, Waiting
  <2>2. CASE q = r
    <3>1. ~(Lock(r) \/ HeadRequest(r) \/ Fail(r) \/ \E op, at, n : Arrive(r, op, at, n))
      BY <1>2, <2>2, ArriveFacts DEF Lock, HeadRequest, Fail, End, Goto, TypeInv, Placed, Working, Active
    <3> QED BY <2>1, <2>2, <3>1, PostArriveFinal DEF KeptInv
  <2>3. CASE q # r
    <3>1. Working(q) /\ FinalOf(q) /\ (Final(q) => Final(q)')
      BY <1>1, <2>1, <2>3, FinalSame
    <3>2. life # "new"
      BY <3>1 DEF TypeInv, Order, Working
    <3>3. life = "made"
      BY <3>2, LifeFacts
    <3> QED BY <3>1, <3>3 DEF FinalInv
  <2> QED BY <2>2, <2>3
<1>3. CASE Active(r)
  <2>1. life = "made"
    <3>1. life # "new"
      BY <1>3 DEF TypeInv, Order, Active
    <3> QED BY <3>1, LifeFacts
  <2>2. q = r
    BY <1>1, <1>3, Solo DEF Active, Working
  <2>3. Working(r) /\ Good(r)
    <3>1. Working(r)
      BY <1>3, <2>1, LoadPath
    <3> QED BY <2>1, <3>1 DEF KeptInv, Keeps
  <2>4. ~Answers(r)
    <3>1. Answers(r) => pc'[r] = "idle"
      BY DEF Answers, Reread, Done, Fail, OperationFails, End, Goto, TypeInv, Placed
    <3> QED BY <2>2, <3>1 DEF Working
  <2>5. FinalOf(r) /\ Final(r)
    BY <2>1, <2>2, <2>3, <2>4, FinalKeeps DEF FinalInv
  <2> QED BY <2>2, <2>3, <2>4, <2>5, WorkFinal
<1> QED BY <1>2, <1>3

LEMMA FinalStep ==
  ASSUME TypeInv, TypeInv', DeletedInv, KeptInv, SentInv, FinalInv, [Next]_vars
  PROVE  FinalInv'
<1> SUFFICES ASSUME cancels' = 0, life' = "made", NEW q \in Reqs, Working(q)', FinalOf(q)'
             PROVE  Final(q)'
  BY DEF FinalInv
<1>1. CASE UNCHANGED vars
  BY <1>1, FinalSame DEF vars, FinalInv
<1>2. CASE Crash
  BY <1>2 DEF Crash, Working
<1>3. ASSUME NEW r \in Reqs, Acts(r) PROVE Final(q)'
  <2>1. cancels = 0
    BY <1>3, Frame, FsAssumption DEF Mine, TypeInv, Counters
  <2> QED BY <1>3, <2>1, FinalActs DEF SentInv
<1> QED BY <1>1, <1>2, <1>3, Steps

LEMMA FinalInvariance ==
  ASSUME 0 \notin ChunkLens
  PROVE  Spec => []FinalInv
<1>1. Init => FinalInv
  BY DEF Init, FinalInv, Working
<1>2. TypeInv /\ TypeInv' /\ DeletedInv /\ KeptInv /\ SentInv /\ FinalInv /\ [Next]_vars => FinalInv'
  BY FinalStep
<1> QED BY <1>1, <1>2, KeptInvariance, PTL DEF Spec

(* store.rs:228 numbers a new part by counting the parts there are: if no  *)
(* body is empty and no request was dropped, but whatever failed and        *)
(* whatever a crash left, that name is new.                                *)
THEOREM PartNameIsNew == ASSUME 0 \notin ChunkLens PROVE Spec => PartsNeverRewritten
<1>1. TypeInv /\ KeptInv /\ FinalInv =>
        \A r \in Reqs :
          OpenFile(r) /\ job[r].then = "save" /\ life \in {"made", "known"} /\ cancels = 0 =>
            files[job[r].path] = Absent
  <2> SUFFICES ASSUME TypeInv, KeptInv, FinalInv, NEW r \in Reqs, OpenFile(r), job[r].then = "save",
                      life \in {"made", "known"}, cancels = 0
               PROVE  files[job[r].path] = Absent
    OBVIOUS
  <2>1. pc[r] = "open" /\ pc[r] \in Writes /\ WriteFits(job[r])
    BY WorkFacts DEF OpenFile, Writes
  <2>2. Working(r) /\ Good(r) /\ AtPart(r)
    BY <2>1 DEF WriteFits, Working, KeptInv, Keeps, AtPart
  <2>3. ~Final(r)
    BY <2>1, <2>2 DEF Final, Pending, WriteFits
  <2>4. ~FinalOf(r)
    BY <2>2, <2>3 DEF FinalInv, Good, Working, TypeInv, Order
  <2>5. PICK j \in 1..Len(PartNames) : PartsTo(j - 1) /\ job[r].path = PartNames[j]
    BY <2>1, <2>2, <2>4 DEF Good, Holds
  <2> QED BY <2>5, PathFacts DEF PartsTo
<1> QED BY <1>1, KeptInvariance, FinalInvariance, PTL DEF Spec, PartsNeverRewritten

=============================================================================
