---------------------------- MODULE ListTheorems ----------------------------
(***************************************************************************)
(* Lemmas about the sequences the modules are built from: what leaving a   *)
(* queue of waiters preserves, lists put together and taken apart, and     *)
(* what FlattenSeq makes of a list of sequences.                           *)
(***************************************************************************)
EXTENDS Fifo, SequenceTheorems, WellFoundedInduction, TLAPS

(* It stays a queue of the same kind of elements. *)
LEMMA RemoveAtType ==
  ASSUME NEW S, NEW s \in Seq(S), NEW i \in 1..Len(s)
  PROVE  RemoveAt(s, i) \in Seq(S)
<1>1. Len(s) \in Nat /\ \A j \in 1..Len(s) : s[j] \in S
  BY LenProperties, ElementOfSeq
<1>2. SubSeq(s, 1, i-1) \in Seq(S)
  <2>1. 1 \in Int /\ i-1 \in Int /\ \A j \in 1..(i-1) : s[j] \in S
    BY <1>1
  <2> QED
    BY <2>1, SubSeqProperties, Zenon
<1>3. SubSeq(s, i+1, Len(s)) \in Seq(S)
  <2>1. i+1 \in Int /\ Len(s) \in Int /\ \A j \in (i+1)..Len(s) : s[j] \in S
    BY <1>1
  <2> QED
    BY <2>1, SubSeqProperties, Zenon
<1> QED
  BY <1>2, <1>3, ConcatProperties DEF RemoveAt

LEMMA WithoutType ==
  ASSUME NEW S, NEW s \in Seq(S), NEW e
  PROVE  Without(s, e) \in Seq(S)
<1>1. CASE \E i \in DOMAIN s : s[i] = e
  <2>1. PICK i \in 1..Len(s) : i = CHOOSE j \in DOMAIN s : s[j] = e
    BY <1>1, LenProperties
  <2> QED
    BY <1>1, <2>1, RemoveAtType DEF Without
<1>2. CASE ~\E i \in DOMAIN s : s[i] = e
  BY <1>2 DEF Without
<1> QED
  BY <1>1, <1>2

(* Its head stays in front until it leaves itself. *)
LEMMA WithoutHead ==
  ASSUME NEW S, NEW s \in Seq(S), NEW e, s # <<>>, Head(s) # e
  PROVE  Without(s, e) # <<>> /\ Head(Without(s, e)) = Head(s)
<1>1. CASE \E i \in DOMAIN s : s[i] = e
  <2>1. PICK i \in 1..Len(s) : i = (CHOOSE j \in DOMAIN s : s[j] = e) /\ s[i] = e
    BY <1>1, LenProperties
  <2>2. Len(s) \in Nat /\ Len(s) > 0 /\ Head(s) = s[1] /\ i > 1
    BY <2>1, LenProperties, HeadTailProperties, EmptySeq
  <2>3. /\ SubSeq(s, 1, i-1) \in Seq(S)
        /\ Len(SubSeq(s, 1, i-1)) = i-1
        /\ SubSeq(s, 1, i-1)[1] = s[1]
    BY <2>2, SubSeqProperties, ElementOfSeq, LenProperties
  <2>4. SubSeq(s, i+1, Len(s)) \in Seq(S)
    <3>1. i+1 \in Int /\ Len(s) \in Int /\ \A j \in (i+1)..Len(s) : s[j] \in S
      BY <2>2, ElementOfSeq
    <3> QED
      BY <3>1, SubSeqProperties, Zenon
  <2>5. /\ Len(RemoveAt(s, i)) > 0
        /\ RemoveAt(s, i)[1] = s[1]
        /\ RemoveAt(s, i) \in Seq(S)
    <3> DEFINE front == SubSeq(s, 1, i-1)
               back == SubSeq(s, i+1, Len(s))
    <3>1. front \o back \in Seq(S) /\ Len(front \o back) = Len(front) + Len(back)
      BY <2>3, <2>4, ConcatProperties
    <3>2. 1 \in 1..Len(front) => (front \o back)[1] = front[1]
      BY <2>3, <2>4, ConcatProperties
    <3>3. Len(back) \in Nat /\ Len(front) \in Nat /\ Len(front) > 0
      BY <2>2, <2>3, <2>4, LenProperties
    <3>4. front[1] = s[1]
      BY <2>3
    <3>5. RemoveAt(s, i) = front \o back
      BY DEF RemoveAt
    <3> HIDE DEF front, back
    <3> QED
      BY <3>1, <3>2, <3>3, <3>4, <3>5
  <2>6. Without(s, e) = RemoveAt(s, i)
    BY <1>1, <2>1 DEF Without
  <2> QED
    BY <2>2, <2>5, <2>6, HeadTailProperties, EmptySeq
<1>2. CASE ~\E i \in DOMAIN s : s[i] = e
  BY <1>2 DEF Without
<1> QED
  BY <1>1, <1>2

-----------------------------------------------------------------------------
(* Lists put together, and taken apart.                                    *)

(* Where the elements of two lists put together are.                       *)
LEMMA ConcatAt ==
  ASSUME NEW S, NEW a \in Seq(S), NEW b \in Seq(S), NEW m, NEW n, m = Len(a), n = Len(b)
  PROVE  /\ m \in Nat /\ n \in Nat /\ a \o b \in Seq(S) /\ Len(a \o b) = m + n
         /\ \A i \in 1..m : (a \o b)[i] = a[i]
         /\ \A i \in 1..n : (a \o b)[m + i] = b[i]
<1>1. m \in Nat /\ n \in Nat
  BY LenProperties
<1> DEFINE q == a \o b
<1>2. /\ q \in Seq(S) /\ Len(q) = m + n
      /\ \A i \in 1..(m + n) : q[i] = IF i <= m THEN a[i] ELSE b[i - m]
  BY ConcatProperties
<1> HIDE DEF q
<1>3. \A i \in 1..m : i \in 1..(m + n) /\ i <= m
  BY <1>1
<1>4. \A i \in 1..n : m + i \in 1..(m + n) /\ ~(m + i <= m) /\ (m + i) - m = i
  BY <1>1
<1>5. \A i \in 1..m : q[i] = a[i]
  BY <1>2, <1>3
<1>6. \A i \in 1..n : q[m + i] = b[i]
  BY <1>2, <1>4
<1> QED BY <1>1, <1>2, <1>5, <1>6 DEF q

(* It has the elements of both, each once if each has its own.             *)
LEMMA ConcatFacts ==
  ASSUME NEW S, NEW a \in Seq(S), NEW b \in Seq(S)
  PROVE  /\ a \o b \in Seq(S) /\ ToSet(a \o b) = ToSet(a) \union ToSet(b)
         /\ IsInjective(a \o b) <=>
              IsInjective(a) /\ IsInjective(b) /\ ToSet(a) \intersect ToSet(b) = {}
<1> DEFINE q == a \o b
           m == Len(a)
           n == Len(b)
<1>1. /\ m \in Nat /\ n \in Nat /\ q \in Seq(S) /\ Len(q) = m + n
      /\ \A i \in 1..m : q[i] = a[i]
      /\ \A i \in 1..n : q[m + i] = b[i]
  BY ConcatAt
<1>2. DOMAIN a = 1..m /\ DOMAIN b = 1..n /\ DOMAIN q = 1..(m + n)
  BY <1>1, LenProperties
<1> HIDE DEF q, m, n
<1>3. \A i \in 1..m : i \in 1..(m + n)
  BY <1>1
<1>4. \A i \in 1..n : m + i \in 1..(m + n) /\ m + i \notin 1..m
  BY <1>1
<1>5. \A i \in 1..(m + n) : i \in 1..m \/ \E k \in 1..n : i = m + k
  <2> SUFFICES ASSUME NEW i \in 1..(m + n), i \notin 1..m PROVE \E k \in 1..n : i = m + k
    OBVIOUS
  <2>1. i - m \in 1..n /\ i = m + (i - m)
    BY <1>1
  <2> QED BY <2>1
<1>6. ToSet(q) = ToSet(a) \union ToSet(b)
  <2>1. \A i \in 1..m : q[i] \in ToSet(a) /\ a[i] \in ToSet(q)
    BY <1>1, <1>2, <1>3 DEF ToSet
  <2>2. \A i \in 1..n : q[m + i] \in ToSet(b) /\ b[i] \in ToSet(q)
    <3> TAKE i \in 1..n
    <3>1. q[m + i] = b[i] /\ i \in DOMAIN b /\ m + i \in DOMAIN q
      BY <1>1, <1>2, <1>4
    <3> QED BY <3>1 DEF ToSet
  <2>3. ToSet(q) \subseteq ToSet(a) \union ToSet(b)
    <3> SUFFICES ASSUME NEW i \in 1..(m + n) PROVE q[i] \in ToSet(a) \union ToSet(b)
      BY <1>2 DEF ToSet
    <3> QED BY <1>5, <2>1, <2>2
  <2>4. ToSet(a) \subseteq ToSet(q) /\ ToSet(b) \subseteq ToSet(q)
    BY <1>2, <2>1, <2>2 DEF ToSet
  <2> QED BY <2>3, <2>4
<1>7. IsInjective(q) => IsInjective(a) /\ IsInjective(b) /\ ToSet(a) \intersect ToSet(b) = {}
  <2> SUFFICES ASSUME IsInjective(q)
               PROVE  IsInjective(a) /\ IsInjective(b) /\ ToSet(a) \intersect ToSet(b) = {}
    OBVIOUS
  <2>1. IsInjective(a)
    BY <1>1, <1>2, <1>3 DEF IsInjective
  <2>2. IsInjective(b)
    <3> SUFFICES ASSUME NEW i \in 1..n, NEW k \in 1..n, b[i] = b[k] PROVE i = k
      BY <1>2 DEF IsInjective
    <3>1. q[m + i] = q[m + k] /\ m + i \in DOMAIN q /\ m + k \in DOMAIN q
      BY <1>1, <1>2, <1>4
    <3>2. m + i = m + k
      BY <3>1 DEF IsInjective
    <3> QED BY <1>1, <3>2
  <2>3. ToSet(a) \intersect ToSet(b) = {}
    <3> SUFFICES ASSUME NEW i \in 1..m, NEW k \in 1..n, a[i] = b[k] PROVE FALSE
      BY <1>2 DEF ToSet
    <3>1. q[i] = q[m + k] /\ i \in DOMAIN q /\ m + k \in DOMAIN q
      BY <1>1, <1>2, <1>3, <1>4
    <3>2. i = m + k
      BY <3>1 DEF IsInjective
    <3> QED BY <1>4, <3>2
  <2> QED BY <2>1, <2>2, <2>3
<1>8. IsInjective(a) /\ IsInjective(b) /\ ToSet(a) \intersect ToSet(b) = {} => IsInjective(q)
  <2> SUFFICES ASSUME IsInjective(a), IsInjective(b), ToSet(a) \intersect ToSet(b) = {},
                      NEW i \in 1..(m + n), NEW k \in 1..(m + n), q[i] = q[k]
               PROVE  i = k
    BY <1>2 DEF IsInjective
  <2>1. CASE i \in 1..m /\ k \in 1..m
    BY <1>1, <1>2, <2>1 DEF IsInjective
  <2>2. ASSUME NEW x \in 1..n, NEW y \in 1..n, i = m + x, k = m + y PROVE i = k
    <3>1. b[x] = b[y]
      BY <1>1, <2>2
    <3>2. x = y
      BY <1>2, <3>1 DEF IsInjective
    <3> QED BY <2>2, <3>2
  <2>3. ASSUME NEW x \in 1..m, NEW y \in 1..n PROVE q[x] # q[m + y]
    <3>1. a[x] \in ToSet(a) /\ b[y] \in ToSet(b)
      BY <1>2 DEF ToSet
    <3> QED BY <1>1, <3>1
  <2> QED BY <1>5, <2>1, <2>2, <2>3
<1> QED BY <1>1, <1>6, <1>7, <1>8 DEF q

(* What is cut in two is whole again when it is put together.              *)
LEMMA SplitFacts ==
  ASSUME NEW S, NEW s \in Seq(S), NEW n \in 0..Len(s), NEW m \in n..Len(s)
  PROVE  /\ SubSeq(s, 1, n) \in Seq(S) /\ Len(SubSeq(s, 1, n)) = n
         /\ SubSeq(s, n + 1, m) \in Seq(S) /\ Len(SubSeq(s, n + 1, m)) = m - n
         /\ SubSeq(s, 1, n) \o SubSeq(s, n + 1, m) = SubSeq(s, 1, m)
         /\ SubSeq(s, 1, Len(s)) = s
<1>1. /\ Len(s) \in Nat /\ n \in Nat /\ m \in Nat /\ n <= m /\ m <= Len(s)
      /\ \A i \in 1..Len(s) : s[i] \in S
  BY LenProperties, ElementOfSeq
<1>2. SubSeq(s, 1, n) \in Seq(S) /\ Len(SubSeq(s, 1, n)) = n
  BY <1>1
<1>3. SubSeq(s, n + 1, m) \in Seq(S) /\ Len(SubSeq(s, n + 1, m)) = m - n
  BY <1>1
<1>4. SubSeq(s, 1, n) \o SubSeq(s, n + 1, m) = SubSeq(s, 1, m)
  <2>1. 1 \in 1..(Len(s) + 1) /\ n \in (1 - 1)..Len(s) /\ m \in n..Len(s)
    BY <1>1
  <2> QED BY <2>1, ConcatAdjacentSubSeq
<1>5. SubSeq(s, 1, Len(s)) = s
  BY SubSeqFull
<1> QED BY <1>2, <1>3, <1>4, <1>5

(* Who joins a queue it is not in waits once, as all the others do.        *)
LEMMA AppendOnce ==
  ASSUME NEW S, NEW s \in Seq(S), NEW e \in S, IsInjective(s), e \notin ToSet(s)
  PROVE  IsInjective(Append(s, e)) /\ ToSet(Append(s, e)) = ToSet(s) \union {e}
<1> DEFINE n == Len(s)
           more == Append(s, e)
<1>1. /\ n \in Nat /\ DOMAIN s = 1..n /\ DOMAIN more = 1..(n + 1)
      /\ more[n + 1] = e /\ \A i \in 1..n : more[i] = s[i]
  BY AppendProperties, LenProperties
<1> HIDE DEF n, more
<1>2. 1..(n + 1) = 1..n \union {n + 1} /\ n + 1 \notin 1..n
  BY <1>1
<1>3. \A i \in 1..n : s[i] # e
  BY <1>1 DEF ToSet
<1>4. IsInjective(more)
  BY <1>1, <1>2, <1>3 DEF IsInjective
<1>5. ToSet(more) = ToSet(s) \union {e}
  BY <1>1, <1>2 DEF ToSet
<1> QED
  BY <1>4, <1>5 DEF more

(* Who leaves a queue in which everybody waits once is gone from it, and   *)
(* the others still wait once.                                             *)
LEMMA WithoutFacts ==
  ASSUME NEW S, NEW s \in Seq(S), NEW e, IsInjective(s)
  PROVE  IsInjective(Without(s, e)) /\ ToSet(Without(s, e)) = ToSet(s) \ {e}
<1>1. CASE \E i \in DOMAIN s : s[i] = e
  <2>1. PICK i \in 1..Len(s) : i = (CHOOSE j \in DOMAIN s : s[j] = e) /\ s[i] = e
    BY <1>1, LenProperties
  <2> DEFINE front == SubSeq(s, 1, i - 1)
             here == SubSeq(s, i, i)
             back == SubSeq(s, i + 1, Len(s))
  <2>2. Len(s) \in Nat /\ i \in Nat /\ i - 1 \in 0..Len(s) /\ i - 1 + 1 = i
    BY <2>1, LenProperties
  <2>3. /\ front \in Seq(S) /\ here \in Seq(S) /\ Len(here) = 1
        /\ front \o here = SubSeq(s, 1, i)
    <3>1. i \in (i - 1)..Len(s) /\ i - (i - 1) = 1
      BY <2>2
    <3> QED
      BY <2>2, <3>1, SplitFacts
  <2>4. back \in Seq(S) /\ SubSeq(s, 1, i) \o back = s
    <3>1. i \in 0..Len(s) /\ Len(s) \in i..Len(s)
      BY <2>1, <2>2
    <3> QED
      BY <3>1, SplitFacts
  <2>5. ToSet(here) = {e}
    <3>1. \A j \in i..i : s[j] \in S
      BY <2>1, <2>2, ElementOfSeq
    <3>2. here[1] = s[i]
      BY <2>2, <3>1, SubSeqProperties
    <3>3. DOMAIN here = 1..1
      BY <2>3, LenProperties
    <3>4. here[1] = e
      BY <2>1, <3>2
    <3>5. 1..1 = {1}
      OBVIOUS
    <3> HIDE DEF here
    <3> QED
      BY <3>3, <3>4, <3>5 DEF ToSet
  <2>6. Without(s, e) = front \o back
    BY <1>1, <2>1 DEF Without, RemoveAt
  <2> HIDE DEF front, here, back
  <2> DEFINE most == front \o here
  <2>7. /\ most \in Seq(S) /\ ToSet(most) = ToSet(front) \union ToSet(here)
        /\ IsInjective(most) =>
             IsInjective(front) /\ ToSet(front) \intersect ToSet(here) = {}
    <3>1. /\ front \o here \in Seq(S)
          /\ ToSet(front \o here) = ToSet(front) \union ToSet(here)
          /\ IsInjective(front \o here) <=>
               /\ IsInjective(front) /\ IsInjective(here)
               /\ ToSet(front) \intersect ToSet(here) = {}
      <4>1. front \in Seq(S) /\ here \in Seq(S)
        BY <2>3
      <4> QED
        BY <4>1, ConcatFacts
    <3> QED
      BY <3>1, Zenon
  <2>8. /\ ToSet(s) = (ToSet(front) \union {e}) \union ToSet(back)
        /\ IsInjective(front) /\ IsInjective(back)
        /\ e \notin ToSet(front) /\ e \notin ToSet(back)
        /\ ToSet(front) \intersect ToSet(back) = {}
    <3>1. most \o back = s
      BY <2>3, <2>4
    <3> HIDE DEF most
    <3>2. /\ ToSet(most \o back) = ToSet(most) \union ToSet(back)
          /\ IsInjective(most \o back) =>
               /\ IsInjective(most) /\ IsInjective(back)
               /\ ToSet(most) \intersect ToSet(back) = {}
      BY <2>4, <2>7, ConcatFacts
    <3>3. /\ ToSet(s) = ToSet(most) \union ToSet(back)
          /\ IsInjective(most) /\ IsInjective(back)
          /\ ToSet(most) \intersect ToSet(back) = {}
      BY <3>1, <3>2
    <3> QED
      BY <2>5, <2>7, <3>3
  <2>9. ToSet(front \o back) = ToSet(front) \union ToSet(back) /\ IsInjective(front \o back)
    BY <2>3, <2>4, <2>8, ConcatFacts
  <2> QED
    BY <2>6, <2>8, <2>9
<1>2. CASE ~\E i \in DOMAIN s : s[i] = e
  BY <1>2 DEF Without, ToSet
<1> QED
  BY <1>1, <1>2

-----------------------------------------------------------------------------
(* Induction over the numbers, for a set in place of a predicate.          *)
LEMMA NatSetInduction ==
  ASSUME NEW T \in SUBSET Nat, 0 \in T, \A n \in T : n + 1 \in T
  PROVE  T = Nat
<1> DEFINE Rest == Nat \ T
           R == {ss \in Nat \X Nat : ss[1] < ss[2]}
<1> SUFFICES ASSUME Rest # {} PROVE FALSE
  OBVIOUS
<1>1. IsWellFoundedOn(OpToRel(<, Nat), Nat)
  BY NatLessThanWellFounded
<1>2. OpToRel(<, Nat) = R
  BY DEF OpToRel
<1>3. PICK n \in Rest : \A m \in Rest : <<m, n>> \notin R
  <2> HIDE DEF R
  <2> QED BY <1>1, <1>2, WFMin
<1>4. n \in Nat /\ n # 0 /\ n \notin T
  OBVIOUS
<1>5. n - 1 \in Nat /\ (n - 1) + 1 = n /\ <<n - 1, n>> \in R
  BY <1>4
<1>6. n - 1 \in T
  BY <1>3, <1>5
<1> QED BY <1>4, <1>5, <1>6

-----------------------------------------------------------------------------
(* FlattenSeq: the function it is defined by exists.                       *)
LEMMA ChainExists ==
  ASSUME NEW seqs, NEW n \in Nat
  PROVE  \E f : f = [i \in 1..n |-> IF i = 1 THEN seqs[i] ELSE f[i - 1] \o seqs[i]]
<1> DEFINE Has(m) ==
             \E f : f = [i \in 1..m |-> IF i = 1 THEN seqs[i] ELSE f[i - 1] \o seqs[i]]
           T == {m \in Nat : Has(m)}
<1>1. Has(0)
  <2> DEFINE f == [i \in 1..0 |-> seqs[i]]
  <2>1. f = [i \in 1..0 |-> IF i = 1 THEN seqs[i] ELSE f[i - 1] \o seqs[i]]
    OBVIOUS
  <2> QED BY <2>1
<1>2. ASSUME NEW m \in Nat, Has(m) PROVE Has(m + 1)
  <2>1. PICK g : g = [i \in 1..m |-> IF i = 1 THEN seqs[i] ELSE g[i - 1] \o seqs[i]]
    BY <1>2
  <2> DEFINE f == [i \in 1..(m + 1) |->
                     IF i \in 1..m THEN g[i]
                     ELSE IF i = 1 THEN seqs[i] ELSE g[i - 1] \o seqs[i]]
  <2>2. ASSUME NEW i \in 1..(m + 1)
        PROVE  f[i] = IF i = 1 THEN seqs[i] ELSE f[i - 1] \o seqs[i]
    <3>1. CASE i = 1
      BY <2>1, <3>1
    <3>2. CASE i # 1
      <4>1. i - 1 \in 1..m /\ i - 1 \in 1..(m + 1)
        BY <3>2
      <4>2. f[i - 1] = g[i - 1]
        BY <4>1
      <4>3. CASE i \in 1..m
        BY <2>1, <3>2, <4>2, <4>3
      <4>4. CASE i \notin 1..m
        BY <2>1, <3>2, <4>2, <4>4
      <4> QED BY <4>3, <4>4
    <3> QED BY <3>1, <3>2
  <2>3. f = [i \in 1..(m + 1) |-> f[i]]
    OBVIOUS
  <2> HIDE DEF f
  <2>4. f = [i \in 1..(m + 1) |-> IF i = 1 THEN seqs[i] ELSE f[i - 1] \o seqs[i]]
    BY <2>2, <2>3
  <2> QED BY <2>4
<1> HIDE DEF Has
<1>3. T \in SUBSET Nat /\ 0 \in T /\ \A m \in T : m + 1 \in T
  BY <1>1, <1>2
<1>4. Has(n)
  <2>1. T = Nat
    <3> HIDE DEF T
    <3> QED BY <1>3, NatSetInduction
  <2> QED BY <2>1
<1> QED BY <1>4 DEF Has

LEMMA FlattenChain ==
  ASSUME NEW seqs, Len(seqs) \in Nat \ {0}
  PROVE  \E f : /\ f = [i \in 1..Len(seqs) |->
                          IF i = 1 THEN seqs[i] ELSE f[i - 1] \o seqs[i]]
                /\ FlattenSeq(seqs) = f[Len(seqs)]
<1> DEFINE f == CHOOSE g : g = [i \in 1..Len(seqs) |->
                                  IF i = 1 THEN seqs[i] ELSE g[i - 1] \o seqs[i]]
<1>1. f = [i \in 1..Len(seqs) |-> IF i = 1 THEN seqs[i] ELSE f[i - 1] \o seqs[i]]
  <2>1. \E g : g = [i \in 1..Len(seqs) |-> IF i = 1 THEN seqs[i] ELSE g[i - 1] \o seqs[i]]
    BY ChainExists
  <2> QED BY <2>1, Zenon
<1>2. FlattenSeq(seqs) = f[Len(seqs)]
  BY DEF FlattenSeq
<1> HIDE DEF f
<1> QED BY <1>1, <1>2, Zenon

(* s stands in t, in one piece.                                            *)
Within(s, t) ==
  \E i \in 0..Len(t) : i + Len(s) <= Len(t) /\ \A j \in 1..Len(s) : t[i + j] = s[j]

LEMMA WithinConcat ==
  ASSUME NEW S, NEW s \in Seq(S), NEW t \in Seq(S), NEW u \in Seq(S)
  PROVE  /\ t \o u \in Seq(S)
         /\ Within(s, s) /\ Within(u, t \o u)
         /\ Within(s, t) => Within(s, t \o u)
<1>1. /\ t \o u \in Seq(S) /\ Len(t \o u) = Len(t) + Len(u)
      /\ \A i \in 1..Len(t) : (t \o u)[i] = t[i]
      /\ \A i \in 1..Len(u) : (t \o u)[Len(t) + i] = u[i]
      /\ Len(s) \in Nat /\ Len(t) \in Nat /\ Len(u) \in Nat
  BY ConcatProperties, LenProperties
<1> DEFINE v == t \o u
<1> HIDE DEF v
<1>2. Within(s, s)
  BY <1>1 DEF Within
<1>3. Within(u, v)
  <2>1. Len(t) \in 0..Len(v) /\ Len(t) + Len(u) <= Len(v)
    BY <1>1 DEF v
  <2>2. \A j \in 1..Len(u) : v[Len(t) + j] = u[j]
    BY <1>1 DEF v
  <2> QED BY <2>1, <2>2 DEF Within
<1>4. ASSUME Within(s, t) PROVE Within(s, v)
  <2>1. PICK i \in 0..Len(t) : i + Len(s) <= Len(t) /\ \A j \in 1..Len(s) : t[i + j] = s[j]
    BY <1>4 DEF Within
  <2>2. i \in 0..Len(v) /\ i + Len(s) <= Len(v)
    BY <1>1, <2>1 DEF v
  <2>3. ASSUME NEW j \in 1..Len(s) PROVE v[i + j] = s[j]
    <3>1. i + j \in 1..Len(t)
      BY <1>1, <2>1
    <3> QED BY <1>1, <2>1, <3>1 DEF v
  <2> QED BY <2>2, <2>3 DEF Within
<1> QED BY <1>1, <1>2, <1>3, <1>4 DEF v

(* What FlattenSeq gives is a sequence over the same elements, and has     *)
(* every one of the sequences in it.                                       *)
LEMMA FlattenFacts ==
  ASSUME NEW S, NEW seqs \in Seq(Seq(S))
  PROVE  /\ FlattenSeq(seqs) \in Seq(S)
         /\ \A k \in 1..Len(seqs) : Within(seqs[k], FlattenSeq(seqs))
<1>1. Len(seqs) \in Nat /\ \A k \in 1..Len(seqs) : seqs[k] \in Seq(S)
  BY LenProperties, ElementOfSeq
<1>2. CASE Len(seqs) = 0
  BY <1>1, <1>2 DEF FlattenSeq
<1>3. CASE Len(seqs) # 0
  <2>1. PICK f : /\ f = [i \in 1..Len(seqs) |->
                           IF i = 1 THEN seqs[i] ELSE f[i - 1] \o seqs[i]]
                 /\ FlattenSeq(seqs) = f[Len(seqs)]
    BY <1>1, <1>3, FlattenChain
  <2> DEFINE Holds(m) == f[m] \in Seq(S) /\ \A k \in 1..m : Within(seqs[k], f[m])
             T == {m \in Nat : m + 1 \in 1..Len(seqs) => Holds(m + 1)}
  <2>2. 0 \in T
    <3>1. f[1] = seqs[1] /\ seqs[1] \in Seq(S)
      BY <1>1, <1>3, <2>1
    <3>2. Within(seqs[1], f[1])
      BY <3>1, WithinConcat
    <3>3. \A k \in 1..1 : k = 1
      OBVIOUS
    <3>4. Holds(1)
      BY <3>1, <3>2, <3>3
    <3> HIDE DEF Holds
    <3> QED BY <3>4
  <2>3. ASSUME NEW m \in T PROVE m + 1 \in T
    <3> SUFFICES ASSUME (m + 1) + 1 \in 1..Len(seqs) PROVE Holds((m + 1) + 1)
      BY <2>3
    <3>1. m \in Nat /\ m + 1 \in 1..Len(seqs) /\ Holds(m + 1)
      BY <1>1
    <3> DEFINE n == m + 1
               g == f[n]
               x == seqs[n + 1]
    <3>2. f[n + 1] = g \o x
      <4>1. n + 1 # 1 /\ (n + 1) - 1 = n
        BY <3>1
      <4> QED BY <2>1, <4>1
    <3>3. g \in Seq(S) /\ x \in Seq(S) /\ \A k \in 1..n : Within(seqs[k], g) /\ seqs[k] \in Seq(S)
      BY <1>1, <3>1
    <3>4. \A k \in 1..(n + 1) : k \in 1..n \/ k = n + 1
      BY <3>1
    <3> HIDE DEF n, g, x
    <3>5. g \o x \in Seq(S) /\ Within(x, g \o x)
      BY <3>3, WithinConcat
    <3>6. \A k \in 1..n : Within(seqs[k], g \o x)
      BY <3>3, WithinConcat
    <3>7. ASSUME NEW k \in 1..(n + 1) PROVE Within(seqs[k], f[n + 1])
      BY <3>2, <3>4, <3>5, <3>6 DEF x
    <3> QED BY <3>2, <3>5, <3>7 DEF n
  <2> HIDE DEF Holds
  <2>4. T = Nat
    BY <2>2, <2>3, NatSetInduction
  <2>5. Holds(Len(seqs))
    <3>1. Len(seqs) - 1 \in Nat /\ (Len(seqs) - 1) + 1 = Len(seqs)
      BY <1>1, <1>3
    <3>2. Len(seqs) \in 1..Len(seqs)
      BY <1>1, <1>3
    <3>3. Len(seqs) - 1 \in T
      <4> HIDE DEF T
      <4> QED BY <2>4, <3>1
    <3> QED BY <3>1, <3>2, <3>3
  <2> QED BY <2>1, <2>5 DEF Holds
<1> QED BY <1>2, <1>3

(* One sequence more is flattened to its elements behind the others'.      *)
LEMMA FlattenAppend ==
  ASSUME NEW S, NEW seqs \in Seq(Seq(S)), NEW x \in Seq(S)
  PROVE  FlattenSeq(Append(seqs, x)) = FlattenSeq(seqs) \o x
<1> DEFINE n == Len(seqs)
           more == Append(seqs, x)
<1>1. /\ n \in Nat /\ \A k \in 1..n : seqs[k] \in Seq(S)
      /\ Len(more) = n + 1 /\ more[n + 1] = x /\ \A k \in 1..n : more[k] = seqs[k]
  BY LenProperties, ElementOfSeq, AppendProperties
<1> HIDE DEF more
<1>2. PICK f : /\ f = [i \in 1..Len(more) |-> IF i = 1 THEN more[i] ELSE f[i - 1] \o more[i]]
               /\ FlattenSeq(more) = f[Len(more)]
  <2>1. Len(more) \in Nat \ {0}
    BY <1>1
  <2> QED BY <2>1, FlattenChain
<1>3. CASE n = 0
  <2>1. FlattenSeq(more) = x
    BY <1>1, <1>2, <1>3
  <2>2. FlattenSeq(seqs) = <<>>
    BY <1>3, EmptySeq DEF FlattenSeq
  <2> QED BY <2>1, <2>2, ConcatEmptySeq DEF more
<1>4. CASE n # 0
  <2>1. PICK g : /\ g = [i \in 1..n |-> IF i = 1 THEN seqs[i] ELSE g[i - 1] \o seqs[i]]
                 /\ FlattenSeq(seqs) = g[n]
    BY <1>1, <1>4, FlattenChain
  <2> DEFINE T == {m \in Nat : m + 1 \in 1..n => f[m + 1] = g[m + 1]}
  <2>2. 0 \in T
    <3>1. 1 \in 1..n /\ 1 \in 1..Len(more)
      BY <1>1, <1>4
    <3> QED BY <1>1, <1>2, <2>1, <3>1
  <2>3. ASSUME NEW m \in T PROVE m + 1 \in T
    <3> SUFFICES ASSUME (m + 1) + 1 \in 1..n PROVE f[(m + 1) + 1] = g[(m + 1) + 1]
      BY <2>3
    <3>1. m \in Nat /\ m + 1 \in 1..n /\ f[m + 1] = g[m + 1]
      BY <1>1
    <3> DEFINE k == (m + 1) + 1
    <3>2. k \in 1..n /\ k \in 1..Len(more) /\ k # 1 /\ k - 1 = m + 1
      BY <1>1, <3>1
    <3> HIDE DEF k
    <3>3. f[k] = f[m + 1] \o more[k] /\ g[k] = g[m + 1] \o seqs[k]
      BY <1>2, <2>1, <3>2
    <3>4. more[k] = seqs[k]
      BY <1>1, <3>2
    <3> QED BY <3>1, <3>3, <3>4 DEF k
  <2>4. T = Nat
    <3> HIDE DEF T
    <3>1. T \in SUBSET Nat
      BY DEF T
    <3> QED BY <2>2, <2>3, <3>1, NatSetInduction
  <2>5. f[n] = g[n]
    <3>1. n - 1 \in T /\ (n - 1) + 1 = n /\ n \in 1..n
      <4> HIDE DEF T
      <4> QED BY <1>1, <1>4, <2>4
    <3> QED BY <3>1
  <2>6. f[n + 1] = f[n] \o more[n + 1]
    <3>1. n + 1 \in 1..Len(more) /\ n + 1 # 1 /\ (n + 1) - 1 = n
      BY <1>1, <1>4
    <3> QED BY <1>2, <3>1
  <2> QED BY <1>1, <1>2, <2>1, <2>5, <2>6 DEF more
<1> QED BY <1>3, <1>4

(* Of a list of optional elements, of which just the first m are there,    *)
(* these are left.                                                         *)
LEMMA FlattenFirst ==
  ASSUME NEW S, NEW s \in Seq(S), NEW m \in 0..Len(s)
  PROVE  FlattenSeq([i \in 1..Len(s) |-> IF i <= m THEN <<s[i]>> ELSE <<>>]) = SubSeq(s, 1, m)
<1> DEFINE one(i) == IF i <= m THEN <<s[i]>> ELSE <<>>
           upto(n) == [i \in 1..n |-> one(i)]
           first(n) == IF n <= m THEN SubSeq(s, 1, n) ELSE SubSeq(s, 1, m)
           T == {n \in Nat : n <= Len(s) => FlattenSeq(upto(n)) = first(n)}
<1>1. Len(s) \in Nat /\ m \in Nat /\ \A i \in 1..Len(s) : s[i] \in S
  BY LenProperties, ElementOfSeq
<1>2. 0 \in T
  <2>1. upto(0) = <<>>
    OBVIOUS
  <2>2. FlattenSeq(<<>>) = <<>>
    BY DEF FlattenSeq
  <2>3. first(0) = <<>>
    BY <1>1
  <2> HIDE DEF upto, first
  <2> QED BY <2>1, <2>2, <2>3
<1>3. ASSUME NEW n \in T PROVE n + 1 \in T
  <2> SUFFICES ASSUME n + 1 <= Len(s) PROVE FlattenSeq(upto(n + 1)) = first(n + 1)
    BY <1>3
  <2>1. n \in Nat /\ FlattenSeq(upto(n)) = first(n) /\ n + 1 \in 1..Len(s)
    BY <1>1
  <2>2. one(n + 1) \in Seq(S) /\ \A i \in 1..n : one(i) \in Seq(S)
    BY <1>1, <2>1
  <2> HIDE DEF one
  <2>3. upto(n) \in Seq(Seq(S)) /\ upto(n + 1) = Append(upto(n), one(n + 1))
    <3>1. upto(n) \in Seq(Seq(S)) /\ Len(upto(n)) = n
      BY <2>1, <2>2
    <3>2. Append(upto(n), one(n + 1)) = [i \in 1..(n + 1) |->
                                           IF i \in 1..n THEN upto(n)[i] ELSE one(n + 1)]
      BY <2>1, <3>1
    <3>3. ASSUME NEW i \in 1..(n + 1)
          PROVE  one(i) = IF i \in 1..n THEN upto(n)[i] ELSE one(n + 1)
      BY <2>1
    <3> QED BY <3>1, <3>2, <3>3
  <2> HIDE DEF upto
  <2>4. FlattenSeq(upto(n + 1)) = first(n) \o one(n + 1)
    BY <2>1, <2>2, <2>3, FlattenAppend
  <2>5. CASE n + 1 <= m
    <3>1. first(n) = SubSeq(s, 1, n) /\ first(n + 1) = SubSeq(s, 1, n + 1) /\ one(n + 1) = <<s[n + 1]>>
      BY <1>1, <2>1, <2>5 DEF one
    <3>2. SubSeq(s, 1, n) \o <<s[n + 1]>> = SubSeq(s, 1, n + 1)
      BY <1>1, <2>1
    <3> HIDE DEF first
    <3> QED BY <2>4, <3>1, <3>2
  <2>6. CASE ~(n + 1 <= m)
    <3>1. one(n + 1) = <<>> /\ first(n + 1) = first(n) /\ first(n) \in Seq(S)
      BY <1>1, <2>1, <2>6 DEF one
    <3> HIDE DEF first
    <3> QED BY <2>4, <3>1, ConcatEmptySeq
  <2> QED BY <2>5, <2>6
<1>4. T = Nat
  <2> HIDE DEF T
  <2>1. T \in SUBSET Nat
    BY DEF T
  <2> QED BY <1>2, <1>3, <2>1, NatSetInduction
<1>5. FlattenSeq(upto(Len(s))) = first(Len(s))
  <2>1. Len(s) \in T
    <3> HIDE DEF T
    <3> QED BY <1>1, <1>4
  <2> QED BY <1>1, <2>1
<1>6. first(Len(s)) = SubSeq(s, 1, m)
  BY <1>1
<1> HIDE DEF first
<1> QED BY <1>5, <1>6

LEMMA Associate ==
  ASSUME NEW S, NEW a \in Seq(S), NEW b \in Seq(S), NEW c \in Seq(S)
  PROVE  (a \o b) \o c = a \o (b \o c)
OBVIOUS

LEMMA AppendAssociate ==
  ASSUME NEW S, NEW a \in Seq(S), NEW b \in Seq(S), NEW x \in S
  PROVE  a \o Append(b, x) = Append(a \o b, x) /\ a \o b \in Seq(S)
OBVIOUS

LEMMA FlattenMore ==
  ASSUME NEW S, NEW s \in Seq(Seq(S)), NEW f \in Seq(Seq(S)), NEW x \in Seq(S),
         FlattenSeq(s \o f) = FlattenSeq(s) \o FlattenSeq(f)
  PROVE  FlattenSeq(s \o Append(f, x)) = FlattenSeq(s) \o FlattenSeq(Append(f, x))
<1> DEFINE a == FlattenSeq(s)
           b == FlattenSeq(f)
<1>1. s \o Append(f, x) = Append(s \o f, x) /\ s \o f \in Seq(Seq(S))
  <2> DEFINE SS == Seq(S)
  <2>1. s \in Seq(SS) /\ f \in Seq(SS) /\ x \in SS
    OBVIOUS
  <2> HIDE DEF SS
  <2>2. s \o Append(f, x) = Append(s \o f, x) /\ s \o f \in Seq(SS)
    BY <2>1, AppendAssociate
  <2> QED BY <2>2 DEF SS
<1>2. FlattenSeq(Append(s \o f, x)) = FlattenSeq(s \o f) \o x
  BY <1>1, FlattenAppend
<1>3. FlattenSeq(Append(f, x)) = b \o x /\ a \in Seq(S) /\ b \in Seq(S)
  BY FlattenAppend, FlattenFacts
<1> HIDE DEF a, b
<1>4. (a \o b) \o x = a \o (b \o x)
  BY <1>3, Associate
<1> QED BY <1>1, <1>2, <1>3, <1>4 DEF a, b

(* A list that consists of two lists is flattened to both, in order.       *)
LEMMA FlattenConcat ==
  ASSUME NEW S, NEW s \in Seq(Seq(S)), NEW t \in Seq(Seq(S))
  PROVE  FlattenSeq(s \o t) = FlattenSeq(s) \o FlattenSeq(t)
<1> DEFINE upto(n) == SubSeq(t, 1, n)
           Holds(n) == FlattenSeq(s \o upto(n)) = FlattenSeq(s) \o FlattenSeq(upto(n))
           T == {n \in Nat : n <= Len(t) => Holds(n)}
<1>1. /\ Len(t) \in Nat /\ \A i \in 1..Len(t) : t[i] \in Seq(S)
      /\ FlattenSeq(s) \in Seq(S)
  BY LenProperties, ElementOfSeq, FlattenFacts
<1>2. 0 \in T
  <2>1. upto(0) = <<>> /\ FlattenSeq(<<>>) = <<>>
    BY <1>1 DEF FlattenSeq
  <2> HIDE DEF upto
  <2>2. Holds(0)
    BY <1>1, <2>1, ConcatEmptySeq
  <2> QED BY <2>2
<1>3. ASSUME NEW n \in T PROVE n + 1 \in T
  <2> SUFFICES ASSUME n + 1 <= Len(t) PROVE Holds(n + 1)
    BY <1>3
  <2>1. n \in Nat /\ n <= Len(t) /\ n + 1 \in 1..Len(t) /\ Holds(n)
    BY <1>1
  <2> DEFINE front == upto(n)
             x == t[n + 1]
  <2>2. upto(n + 1) = Append(front, x) /\ front \in Seq(Seq(S)) /\ x \in Seq(S)
    BY <1>1, <2>1
  <2>3. FlattenSeq(s \o front) = FlattenSeq(s) \o FlattenSeq(front)
    BY <2>1
  <2> HIDE DEF front, x, upto
  <2>4. FlattenSeq(s \o Append(front, x)) = FlattenSeq(s) \o FlattenSeq(Append(front, x))
    <3> DEFINE a == FlattenSeq(s \o Append(front, x))
               b == FlattenSeq(s) \o FlattenSeq(Append(front, x))
    <3>1. a = b
      BY <2>2, <2>3, FlattenMore, Zenon
    <3> QED BY <3>1
  <2> QED BY <2>2, <2>4
<1>4. Holds(Len(t))
  <2>1. T = Nat
    <3> HIDE DEF T
    <3>1. T \in SUBSET Nat
      BY DEF T
    <3> QED BY <1>2, <1>3, <3>1, NatSetInduction
  <2>2. Len(t) \in T
    BY <1>1, <2>1
  <2> HIDE DEF Holds
  <2> QED BY <1>1, <2>2
<1>5. upto(Len(t)) = t
  BY <1>1
<1> HIDE DEF upto
<1> QED BY <1>4, <1>5

LEMMA FlattenOne ==
  ASSUME NEW S, NEW x \in Seq(S)
  PROVE  FlattenSeq(<<x>>) = x
<1>1. <<>> \in Seq(Seq(S)) /\ <<x>> = Append(<<>>, x) /\ FlattenSeq(<<>>) = <<>>
  BY EmptySeq DEF FlattenSeq
<1>2. FlattenSeq(<<x>>) = <<>> \o x
  BY <1>1, FlattenAppend
<1> QED BY <1>2, ConcatEmptySeq

(* Pieces of equal length, cut off the front one after the other, and what *)
(* is left of the sequence make up the sequence.                           *)
LEMMA FlattenPieces ==
  ASSUME NEW S, NEW s \in Seq(S), NEW m \in Nat \ {0}, NEW c \in Nat, c * m <= Len(s)
  PROVE  LET piece == [i \in 1..c |-> SubSeq(s, (i - 1) * m + 1, i * m)]
             rest == SubSeq(s, c * m + 1, Len(s))
         IN /\ piece \in Seq(Seq(S)) /\ \A i \in 1..c : Len(piece[i]) = m
            /\ rest \in Seq(S) /\ Len(rest) = Len(s) - c * m
            /\ FlattenSeq(piece) \o rest = s
<1> DEFINE at(i) == i * m
           one(i) == SubSeq(s, at(i - 1) + 1, at(i))
           upto(n) == [i \in 1..n |-> one(i)]
           Holds(n) == FlattenSeq(upto(n)) = SubSeq(s, 1, at(n))
           T == {n \in Nat : n <= c => Holds(n)}
<1>1. /\ Len(s) \in Nat /\ \A i \in 1..Len(s) : s[i] \in S
      /\ at(c) <= Len(s) /\ at(0) = 0
  BY LenProperties, ElementOfSeq
<1>2. \A i \in Nat : at(i) \in Nat /\ at(i + 1) = at(i) + m
  BY Z3
<1>3. \A i \in 1..c : at(i) <= Len(s) /\ at(i - 1) \in Nat /\ at(i) = at(i - 1) + m
  <2> SUFFICES ASSUME NEW i \in 1..c
               PROVE  at(i) <= Len(s) /\ at(i - 1) \in Nat /\ at(i) = at(i - 1) + m
    OBVIOUS
  <2>1. at(i - 1) \in Nat /\ at(i) = at(i - 1) + m
    <3>1. i - 1 \in Nat /\ (i - 1) + 1 = i
      OBVIOUS
    <3> HIDE DEF at
    <3> QED BY <1>2, <3>1
  <2>2. i * m <= c * m
    BY Z3
  <2>3. at(i) \in Nat /\ at(c) \in Nat
    BY <1>2
  <2> QED BY <1>1, <2>1, <2>2, <2>3
<1> HIDE DEF at
<1>4. \A i \in 1..c : one(i) \in Seq(S) /\ Len(one(i)) = m
  <2> SUFFICES ASSUME NEW i \in 1..c PROVE one(i) \in Seq(S) /\ Len(one(i)) = m
    OBVIOUS
  <2>1. at(i) <= Len(s) /\ at(i - 1) \in Nat /\ at(i) = at(i - 1) + m
    BY <1>3
  <2> QED BY <1>1, <2>1
<1>5. 0 \in T
  <2>1. upto(0) = <<>> /\ SubSeq(s, 1, at(0)) = <<>>
    BY <1>1
  <2> HIDE DEF upto
  <2>2. Holds(0)
    BY <2>1 DEF FlattenSeq
  <2> HIDE DEF Holds
  <2> QED BY <2>2
<1> HIDE DEF Holds
<1>6. ASSUME NEW n \in T PROVE n + 1 \in T
  <2> SUFFICES ASSUME n + 1 <= c PROVE Holds(n + 1)
    BY <1>6
  <2>1. n \in Nat /\ n <= c /\ n + 1 \in 1..c /\ Holds(n)
    BY <1>6
  <2>2. at(n + 1) <= Len(s) /\ at(n) \in Nat /\ at(n + 1) = at(n) + m /\ one(n + 1) = SubSeq(s, at(n) + 1, at(n + 1))
    BY <1>3, <2>1
  <2> HIDE DEF one
  <2>3. upto(n) \in Seq(Seq(S)) /\ upto(n + 1) = Append(upto(n), one(n + 1)) /\ one(n + 1) \in Seq(S)
    <3>1. \A i \in 1..n : one(i) \in Seq(S)
      BY <1>4, <2>1
    <3>2. upto(n) \in Seq(Seq(S)) /\ Len(upto(n)) = n
      BY <2>1, <3>1
    <3>3. Append(upto(n), one(n + 1)) = [i \in 1..(n + 1) |->
                                           IF i \in 1..n THEN upto(n)[i] ELSE one(n + 1)]
      BY <2>1, <3>2
    <3>4. ASSUME NEW i \in 1..(n + 1)
          PROVE  one(i) = IF i \in 1..n THEN upto(n)[i] ELSE one(n + 1)
      BY <2>1
    <3> QED BY <1>4, <2>1, <3>2, <3>3, <3>4
  <2> HIDE DEF upto
  <2>4. FlattenSeq(upto(n + 1)) = SubSeq(s, 1, at(n)) \o one(n + 1)
    BY <2>1, <2>3, FlattenAppend DEF Holds
  <2>5. SubSeq(s, 1, at(n)) \o SubSeq(s, at(n) + 1, at(n + 1)) = SubSeq(s, 1, at(n + 1))
    <3> DEFINE a == at(n)
               b == at(n + 1)
    <3>1. a \in Nat /\ b \in Nat /\ a <= b /\ b <= Len(s)
      BY <2>2
    <3> HIDE DEF a, b
    <3>2. SubSeq(s, 1, a) \o SubSeq(s, a + 1, b) = SubSeq(s, 1, b)
      <4>1. a \in 0..Len(s) /\ b \in a..Len(s)
        BY <1>1, <3>1
      <4> QED BY <4>1, SplitFacts
    <3> QED BY <3>2 DEF a, b
  <2> QED BY <2>2, <2>4, <2>5 DEF Holds
<1>7. FlattenSeq(upto(c)) = SubSeq(s, 1, at(c))
  <2>1. T = Nat
    <3> HIDE DEF T
    <3>1. T \in SUBSET Nat
      BY DEF T
    <3> QED BY <1>5, <1>6, <3>1, NatSetInduction
  <2>2. Holds(c)
    BY <2>1
  <2> QED BY <2>2 DEF Holds
<1> DEFINE rest == SubSeq(s, at(c) + 1, Len(s))
<1>8. at(c) \in Nat
  BY <1>2
<1>9. SubSeq(s, 1, at(c)) \o rest = s /\ rest \in Seq(S) /\ Len(rest) = Len(s) - at(c)
  <2> DEFINE a == at(c)
             z == Len(s)
  <2>1. a \in 0..Len(s) /\ z \in a..Len(s)
    BY <1>1, <1>8
  <2> HIDE DEF a, z, rest
  <2>2. /\ SubSeq(s, 1, a) \o SubSeq(s, a + 1, z) = SubSeq(s, 1, z)
        /\ SubSeq(s, a + 1, z) \in Seq(S) /\ Len(SubSeq(s, a + 1, z)) = z - a
        /\ SubSeq(s, 1, Len(s)) = s
    BY <2>1, SplitFacts
  <2> QED BY <2>2 DEF a, z, rest
<1>10. upto(c) \in Seq(Seq(S)) /\ \A i \in 1..c : Len(upto(c)[i]) = m
  <2> HIDE DEF one
  <2> QED BY <1>4
<1> HIDE DEF rest
<1> QED BY <1>7, <1>9, <1>10 DEF at, rest

-----------------------------------------------------------------------------
(* Prefixes. *)

(* What is appended to leaves a prefix; a run inside is the prefix of what *)
(* follows some position.                                                  *)
LEMMA PrefixFacts ==
  ASSUME NEW S, NEW s \in Seq(S), NEW t \in Seq(S)
  PROVE  /\ IsPrefix(s, s) /\ IsPrefix(s, s \o t)
         /\ Within(s, t) => \E i \in 0..Len(t) : IsPrefix(s, SubSeq(t, i + 1, Len(t)))
<1>1. /\ Len(s) \in Nat /\ Len(t) \in Nat
      /\ \A i \in 1..Len(s) : s[i] \in S
      /\ \A i \in 1..Len(t) : t[i] \in S
  BY LenProperties, ElementOfSeq
<1>2. IsPrefix(s, s)
  BY <1>1 DEF IsPrefix
<1>3. IsPrefix(s, s \o t)
  <2>1. /\ s \o t \in Seq(S) /\ Len(s \o t) = Len(s) + Len(t)
        /\ \A i \in 1..Len(s) : (s \o t)[i] = s[i]
    BY ConcatProperties
  <2>2. /\ SubSeq(s, 1, Len(s)) \in Seq(S) /\ SubSeq(s \o t, 1, Len(s)) \in Seq(S)
        /\ Len(SubSeq(s, 1, Len(s))) = Len(s) /\ Len(SubSeq(s \o t, 1, Len(s))) = Len(s)
        /\ \A i \in 1..Len(s) : SubSeq(s, 1, Len(s))[i] = SubSeq(s \o t, 1, Len(s))[i]
    BY <1>1, <2>1
  <2> QED BY <1>1, <2>1, <2>2, SeqEqual DEF IsPrefix
<1>4. ASSUME NEW i \in 0..Len(t), i + Len(s) <= Len(t), \A j \in 1..Len(s) : t[i + j] = s[j]
      PROVE  IsPrefix(s, SubSeq(t, i + 1, Len(t)))
  <2> DEFINE u == SubSeq(t, i + 1, Len(t))
  <2>1. /\ u \in Seq(S) /\ Len(u) = Len(t) - i
        /\ \A j \in 1..(Len(t) - i) : u[j] = t[i + j]
    BY <1>1, <1>4
  <2> HIDE DEF u
  <2>2. /\ SubSeq(s, 1, Len(s)) \in Seq(S) /\ SubSeq(u, 1, Len(s)) \in Seq(S)
        /\ Len(SubSeq(s, 1, Len(s))) = Len(s) /\ Len(SubSeq(u, 1, Len(s))) = Len(s)
        /\ \A j \in 1..Len(s) : SubSeq(s, 1, Len(s))[j] = SubSeq(u, 1, Len(s))[j]
    BY <1>1, <1>4, <2>1
  <2>3. IsPrefix(s, u)
    BY <1>1, <1>4, <2>1, <2>2, SeqEqual DEF IsPrefix
  <2> QED BY <2>3 DEF u
<1> QED BY <1>2, <1>3, <1>4 DEF Within

=============================================================================
