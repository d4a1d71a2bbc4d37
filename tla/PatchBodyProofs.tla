--------------------------- MODULE PatchBodyProofs ---------------------------
(***************************************************************************)
(* The way of a request body into the store: first through an adapter      *)
(* (BodyStream), then through the handler of PATCH.                        *)
(*                                                                         *)
(* The body arrives in order, for all requests, bodies, capacities and     *)
(* limits.  InOrder says what the handler has read; that it stays so       *)
(* follows from where the rest of the body is: what is left of the chunk   *)
(* at hand, the chunks in the channel, and the one in the hands of the     *)
(* payload task follow each other without a gap up to the place where the  *)
(* connection stands (Chained).                                            *)
(***************************************************************************)
EXTENDS PatchBody, SequenceTheorems, TLAPS

Items == Spans \union {Broken}

BodyType ==
  [ask : Spans, pos : Nat, wire : {"open", "broken", "ended"}, hollow : Nat,
   task : {"pull", "push", "gone"}, held : Items \union {Eof}, queue : Seq(Items),
   cur : Spans, got : Seq(Nat),
   reader : {"collect", "ready", "failed", "eof", "gone"}]

StreamTypeOK == adapter \in Adapters /\ body \in [Reqs -> BodyType]

(* The error of a broken connection is the last thing the channel holds.   *)
Cut(b) == b.queue # <<>> /\ b.queue[Len(b.queue)] = Broken

(* Where the item before the i-th of the channel ended.                    *)
Before(b, i) == IF i = 1 THEN b.cur.hi ELSE b.queue[i - 1].hi

(* Where the next item of the payload task has to begin. *)
Following(b) == Before(b, Len(b.queue) + 1)

(* Actix *)
Chained(b) ==
  /\ b.reader # "collect"
  /\ \A i \in 1..Len(b.queue) :
       IF b.queue[i] = Broken THEN i = Len(b.queue)
       ELSE b.queue[i].lo = Before(b, i)
  /\ b.held = Broken => b.wire = "ended"
  /\ b.held \in Spans => b.held.lo = Following(b) /\ b.held.hi = b.pos
  /\ Cut(b) => b.wire = "ended" /\ b.held = Eof
  /\ b.held = Eof /\ ~Cut(b) => Following(b) = b.pos
  /\ b.wire = "ended" /\ b.held # Broken /\ ~Cut(b) => b.pos = b.ask.hi
  /\ b.task = "gone" => b.wire = "ended"
  /\ b.reader = "eof" => b.queue = <<>> /\ b.task = "gone" /\ IsEmpty(b.cur)

(* Axum *)
Polled(b) ==
  /\ b.reader # "collect"
  /\ b.cur.hi = b.pos
  /\ b.reader = "ready" => b.wire # "ended"
  /\ b.reader = "eof" => b.pos = b.ask.hi /\ IsEmpty(b.cur)

(* Rocket *)
Collected(b) ==
  /\ b.reader = "collect" =>
       b.wire # "ended" /\ b.got = <<>> /\ b.cur.hi = Lesser(b.pos, b.ask.lo + Limit)
  /\ b.reader # "collect" => b.cur.hi = b.ask.lo + Reach(b)
  /\ b.reader = "eof" => IsEmpty(b.cur)

Good(b) ==
  /\ b.task # "gone" => adapter = "actix"
  /\ b.task = "push" <=> b.held # Eof
  /\ b.reader # "gone" => b.got = BytesOf(Span(b.ask.lo, b.ask.lo + Len(b.got)))
  /\ b.reader \in {"collect", "ready", "eof"} =>
       /\ b.ask.lo <= b.pos /\ b.pos <= b.ask.hi
       /\ b.cur.lo = b.ask.lo + Len(b.got)
       /\ adapter = "actix" => Chained(b)
       /\ adapter = "axum" => Polled(b)
       /\ adapter = "rocket" => Collected(b)

StreamInv == StreamTypeOK /\ \A r \in Reqs : Good(body[r])

-----------------------------------------------------------------------------
LEMMA SpanFacts ==
  ASSUME NEW lo \in Nat, NEW hi \in Nat, lo <= hi
  PROVE  /\ Span(lo, hi) \in Spans
         /\ Span(lo, hi).lo = lo /\ Span(lo, hi).hi = hi
  BY DEF Span, Spans

LEMMA BytesOfFacts ==
  \A lo, hi \in Nat : lo <= hi =>
    /\ BytesOf(Span(lo, hi)) \in Seq(Nat)
    /\ Len(BytesOf(Span(lo, hi))) = hi - lo
    /\ \A i \in 1..(hi - lo) : BytesOf(Span(lo, hi))[i] = lo + i
  BY DEF BytesOf, Span

LEMMA BytesOfNothing == \A lo \in Nat : BytesOf(Span(lo, lo)) = <<>>
<1> SUFFICES ASSUME NEW lo \in Nat PROVE BytesOf(Span(lo, lo)) = <<>>
  OBVIOUS
<1>1. BytesOf(Span(lo, lo)) \in Seq(Nat) /\ Len(BytesOf(Span(lo, lo))) = 0
  BY BytesOfFacts
<1> QED BY <1>1, EmptySeq

(* The bytes of two spans that touch are the bytes of both.                *)
LEMMA BytesOfJoin ==
  ASSUME NEW lo \in Nat, NEW m \in Nat, NEW hi \in Nat, lo <= m, m <= hi
  PROVE  BytesOf(Span(lo, m)) \o BytesOf(Span(m, hi)) = BytesOf(Span(lo, hi))
<1> DEFINE s == BytesOf(Span(lo, m))
           t == BytesOf(Span(m, hi))
           u == BytesOf(Span(lo, hi))
           st == s \o t
<1>1. s \in Seq(Nat) /\ Len(s) = m - lo /\ \A i \in 1..(m - lo) : s[i] = lo + i
  BY BytesOfFacts
<1>2. t \in Seq(Nat) /\ Len(t) = hi - m /\ \A i \in 1..(hi - m) : t[i] = m + i
  BY BytesOfFacts
<1>3. u \in Seq(Nat) /\ Len(u) = hi - lo /\ \A i \in 1..(hi - lo) : u[i] = lo + i
  BY BytesOfFacts
<1> HIDE DEF s, t, u
<1>4. /\ st \in Seq(Nat)
      /\ Len(st) = Len(s) + Len(t)
      /\ \A i \in 1..(Len(s) + Len(t)) :
           st[i] = IF i <= Len(s) THEN s[i] ELSE t[i - Len(s)]
  BY <1>1, <1>2, ConcatProperties, Zenon
<1> HIDE DEF st
<1>5. Len(st) = hi - lo
  BY <1>1, <1>2, <1>4
<1>6. ASSUME NEW i \in 1..(hi - lo) PROVE st[i] = lo + i
  <2>1. CASE i <= m - lo
    BY <1>1, <1>2, <1>4, <2>1
  <2>2. CASE i > m - lo
    <3>1. i - (m - lo) \in 1..(hi - m) /\ m + (i - (m - lo)) = lo + i
      BY <2>2
    <3>2. st[i] = t[i - (m - lo)]
      BY <1>1, <1>2, <1>4, <1>5, <2>2
    <3> QED BY <1>2, <3>1, <3>2
  <2> QED BY <2>1, <2>2
<1>7. st = u
  BY <1>3, <1>4, <1>5, <1>6, SeqEqual
<1> QED BY <1>7 DEF s, t, u, st

LEMMA NoBodyGood == NoBody \in BodyType /\ Good(NoBody)
  BY SpanFacts DEF NoBody, BodyType, Good, Span, Spans

(* Every action sets the body of one request and leaves the adapter.       *)
LEMMA SetBodyKeeps ==
  ASSUME StreamInv, NEW r \in Reqs, NEW b \in BodyType, Good(b), SetBody(r, b)
  PROVE  StreamInv'
  BY DEF StreamInv, StreamTypeOK, SetBody, Good, Chained, Polled, Collected, Reach,
         Cut, Before, Following

LEMMA TailFacts ==
  ASSUME NEW S, NEW s \in Seq(S), s # <<>>
  PROVE  /\ Tail(s) \in Seq(S) /\ Len(s) \in Nat \ {0} /\ Len(Tail(s)) = Len(s) - 1
         /\ Head(s) \in S /\ Head(s) = s[1]
         /\ \A i \in 1..(Len(s) - 1) : Tail(s)[i] = s[i + 1]
         /\ Tail(s) = <<>> <=> Len(s) = 1
<1>1. Len(s) \in Nat \ {0}
  BY EmptySeq
<1>2. /\ Head(s) \in S /\ Tail(s) \in Seq(S) /\ Len(Tail(s)) = Len(s) - 1
      /\ \A i \in 1..Len(Tail(s)) : Tail(s)[i] = s[i + 1]
  BY HeadTailProperties
<1>3. Head(s) = s[1]
  OBVIOUS
<1>4. Tail(s) = <<>> <=> Len(s) = 1
  <2>1. Len(s) = 1 => Len(Tail(s)) = 0
    BY <1>2
  <2>2. Len(Tail(s)) = 0 => Len(s) = 1
    <3> DEFINE m == Len(Tail(s))
               n == Len(s)
    <3>1. n \in Nat \ {0} /\ m = n - 1
      BY <1>1, <1>2
    <3> HIDE DEF m, n
    <3>2. m = 0 => n = 1
      BY <3>1
    <3> QED BY <3>2 DEF m, n
  <2>3. Tail(s) = <<>> <=> Len(Tail(s)) = 0
    BY <1>2, EmptySeq
  <2> QED BY <2>1, <2>2, <2>3
<1> QED BY <1>1, <1>2, <1>3, <1>4

(* What a poll of the connection yields, and what is left to come.         *)
LEMMA YieldsFacts ==
  ASSUME StreamTypeOK, NEW r \in Reqs, NEW item \in Yields(r)
  PROVE  \/ /\ item \in Spans /\ body[r].wire = "open"
            /\ item.lo = body[r].pos /\ item.lo <= item.hi /\ item.hi <= body[r].ask.hi
         \/ item = Broken /\ body[r].wire = "broken"
         \/ item = Eof /\ body[r].wire = "open" /\ body[r].pos = body[r].ask.hi
         \/ item = Eof /\ body[r].wire = "ended"
<1> DEFINE b == body[r]
<1>1. b \in BodyType /\ b.pos \in Nat /\ b.ask.hi \in Nat /\ b.hollow \in Nat
        /\ MaxEmpty[r] \in Nat
  BY StreamAssumption DEF StreamTypeOK, BodyType, Spans
<1>2. b.wire \in {"open", "broken", "ended"}
  BY <1>1 DEF BodyType
<1>3. CASE b.wire = "open"
  <2>1. ASSUME NEW hi \in Nat, b.pos <= hi, hi <= b.ask.hi, item = Span(b.pos, hi)
        PROVE  item \in Spans /\ item.lo = b.pos /\ item.lo <= item.hi /\ item.hi <= b.ask.hi
    BY <1>1, <2>1, SpanFacts
  <2>2. \/ \E hi \in Nat : b.pos <= hi /\ hi <= b.ask.hi /\ item = Span(b.pos, hi)
        \/ b.pos = b.ask.hi /\ item = Eof
    BY <1>1, <1>3 DEF Yields
  <2> QED BY <1>3, <2>1, <2>2
<1>4. CASE b.wire = "broken"
  BY <1>4 DEF Yields
<1>5. CASE b.wire = "ended"
  BY <1>5 DEF Yields
<1> QED BY <1>2, <1>3, <1>4, <1>5

-----------------------------------------------------------------------------
LEMMA OpenKeeps ==
  ASSUME StreamInv, NEW r \in Reqs, NEW s \in Bodies, Open(r, s)
  PROVE  StreamInv'
<1> DEFINE c == NewBody(s)
<1>1. s \in Spans /\ s.lo \in Nat /\ s.hi \in Nat /\ s.lo <= s.hi
        /\ adapter \in {"axum", "actix", "rocket"}
  BY StreamAssumption DEF Spans, StreamInv, StreamTypeOK
<1>2. /\ c.ask = s /\ c.pos = s.lo /\ c.wire = "open" /\ c.held = Eof /\ c.queue = <<>>
      /\ c.cur = Span(s.lo, s.lo) /\ c.got = <<>>
      /\ c.task = (IF adapter = "actix" THEN "pull" ELSE "gone")
      /\ c.reader = (IF adapter = "rocket" THEN "collect" ELSE "ready")
  BY DEF NewBody, NoBody
<1>3. c \in BodyType
  <2>1. Span(s.lo, s.lo) \in Spans /\ <<>> \in Seq(Items) /\ <<>> \in Seq(Nat)
    BY <1>1, SpanFacts
  <2>2. NoBody \in BodyType
    BY NoBodyGood
  <2> QED
    BY <1>1, <2>1, <2>2 DEF NewBody, BodyType
<1>4. BytesOf(Span(s.lo, s.lo)) = <<>>
  BY <1>1, BytesOfNothing
<1>5. c.cur.lo = s.lo /\ c.cur.hi = s.lo
  BY <1>1, <1>2, SpanFacts
<1>6. Lesser(s.lo, s.lo + Limit) = s.lo
  BY <1>1, StreamAssumption DEF Lesser
<1> HIDE DEF c
<1>7. Good(c)
  BY <1>1, <1>2, <1>4, <1>5, <1>6, StreamAssumption
     DEF Good, Chained, Polled, Collected, Cut, Following, Before
<1> QED
  BY <1>3, <1>7, SetBodyKeeps DEF Open, c

LEMMA BreakKeeps ==
  ASSUME StreamInv, NEW r \in Reqs, Break(r)
  PROVE  StreamInv'
<1> DEFINE b == body[r]
           c == [b EXCEPT !.wire = "broken"]
<1>1. b \in BodyType /\ Good(b) /\ b.wire = "open"
  BY DEF StreamInv, StreamTypeOK, Break
<1>2. c \in BodyType
  BY <1>1 DEF BodyType
<1>3. Good(c)
  BY <1>1 DEF Good, Chained, Polled, Collected, Reach, Cut, Following, Before, BodyType
<1> QED
  BY <1>2, <1>3, SetBodyKeeps DEF Break

LEMMA DropKeeps ==
  ASSUME StreamInv, NEW r \in Reqs, SetBody(r, Dropped(body[r]))
  PROVE  StreamInv'
<1> DEFINE b == body[r]
           c == Dropped(b)
<1>1. b \in BodyType /\ Good(b)
  BY DEF StreamInv, StreamTypeOK
<1>2. c \in BodyType /\ Good(c)
  <2>1. CASE b.task = "gone"
    BY <2>1, NoBodyGood DEF Dropped
  <2>2. CASE b.task # "gone"
    <3>1. Span(0, 0) \in Spans /\ <<>> \in Seq(Items) /\ <<>> \in Seq(Nat)
      BY SpanFacts
    <3>2. c = [b EXCEPT !.reader = "gone", !.queue = <<>>, !.cur = Span(0, 0), !.got = <<>>]
      BY <2>2 DEF Dropped
    <3> HIDE DEF c
    <3>3. c \in BodyType
      BY <1>1, <3>1, <3>2 DEF BodyType
    <3>4. c.reader = "gone" /\ c.task = b.task /\ c.held = b.held
      BY <1>1, <3>2 DEF BodyType
    <3> QED BY <1>1, <3>3, <3>4 DEF Good
  <2> QED BY <2>1, <2>2
<1> QED
  BY <1>2, SetBodyKeeps

LEMMA NoBodyKeeps ==
  ASSUME StreamInv, NEW r \in Reqs, SetBody(r, NoBody)
  PROVE  StreamInv'
  BY NoBodyGood, SetBodyKeeps

(* The payload task takes the next item from the connection.               *)
LEMMA PullKeeps ==
  ASSUME StreamInv, NEW r \in Reqs, Pull(r)
  PROVE  StreamInv'
<1> DEFINE b == body[r]
<1>1. PICK item \in Yields(r) :
        SetBody(r, IF item = Eof
                   THEN [Yielded(b, item) EXCEPT !.task = "gone"]
                   ELSE [Yielded(b, item) EXCEPT !.task = "push", !.held = item])
  BY DEF Pull
<1>2. b \in BodyType /\ Good(b) /\ b.task = "pull" /\ StreamTypeOK
  BY DEF StreamInv, StreamTypeOK, Pull
<1>3. CASE item \in Spans
  <2> DEFINE h == IF IsEmpty(item) THEN b.hollow + 1 ELSE b.hollow
             c == [b EXCEPT !.pos = item.hi, !.hollow = h, !.task = "push", !.held = item]
  <2>1. item # Eof /\ item # Broken /\ item.hi \in Nat /\ item.lo \in Nat
    BY <1>3, StreamAssumption DEF Spans
  <2>2. SetBody(r, c)
    BY <1>1, <1>2, <2>1 DEF Yielded, BodyType
  <2>3. /\ b.wire = "open" /\ item.lo = b.pos /\ item.lo <= item.hi /\ item.hi <= b.ask.hi
    BY <1>2, <1>3, <2>1, YieldsFacts
  <2>4. h \in Nat
    BY <1>2 DEF BodyType
  <2> HIDE DEF h
  <2>5. c \in BodyType
    BY <1>2, <1>3, <2>1, <2>4 DEF BodyType, Items
  <2>6. /\ c.pos = item.hi /\ c.task = "push" /\ c.held = item /\ c.reader = b.reader
        /\ c.queue = b.queue /\ c.cur = b.cur /\ c.got = b.got /\ c.ask = b.ask /\ c.wire = b.wire
        /\ b.pos \in Nat /\ b.ask.lo \in Nat /\ b.ask.hi \in Nat
    BY <1>2 DEF BodyType, Spans
  <2>7. /\ Cut(c) <=> Cut(b)
        /\ Following(c) = Following(b) /\ \A i \in 1..Len(b.queue) : Before(c, i) = Before(b, i)
    BY <2>6 DEF Cut, Following, Before
  <2>8. ASSUME b.reader \in {"collect", "ready", "eof"} PROVE Chained(c)
    <3>1. Chained(b) /\ b.held = Eof /\ b.pos = item.lo /\ b.wire = "open"
      BY <1>2, <2>3, <2>8 DEF Good
    <3>2. ~Cut(b) /\ Following(b) = b.pos
      BY <3>1 DEF Chained
    <3> QED BY <1>3, <2>1, <2>6, <2>7, <3>1, <3>2 DEF Chained
  <2>9. Good(c)
    BY <1>2, <1>3, <2>1, <2>3, <2>6, <2>8 DEF Good
  <2> QED BY <2>2, <2>5, <2>9, SetBodyKeeps
<1>4. CASE item = Broken
  <2> DEFINE c == [b EXCEPT !.wire = "ended", !.task = "push", !.held = Broken]
  <2>1. SetBody(r, c)
    BY <1>1, <1>2, <1>4, StreamAssumption DEF Yielded, BodyType
  <2>2. b.wire = "broken"
    BY <1>2, <1>4, YieldsFacts, StreamAssumption
  <2>3. c \in BodyType
    BY <1>2 DEF BodyType, Items
  <2>4. Good(c)
    BY <1>2, <2>2, StreamAssumption
       DEF Good, Chained, Cut, Following, Before, BodyType, Items
  <2> QED BY <2>1, <2>3, <2>4, SetBodyKeeps
<1>5. CASE item = Eof
  <2> DEFINE c == [b EXCEPT !.wire = "ended", !.task = "gone"]
  <2>1. SetBody(r, c)
    BY <1>1, <1>2, <1>5 DEF Yielded, BodyType
  <2>2. b.wire = "ended" \/ b.pos = b.ask.hi
    BY <1>2, <1>5, YieldsFacts, StreamAssumption
  <2>3. c \in BodyType
    BY <1>2 DEF BodyType
  <2>4. Good(c)
    BY <1>2, <2>2, StreamAssumption
       DEF Good, Chained, Cut, Following, Before, BodyType, Items
  <2> QED BY <2>1, <2>3, <2>4, SetBodyKeeps
<1> QED BY <1>2, <1>3, <1>4, <1>5, YieldsFacts

(* It goes behind the chunks of the channel.                               *)
LEMMA PushKeeps ==
  ASSUME StreamInv, NEW r \in Reqs, Push(r)
  PROVE  StreamInv'
<1> DEFINE b == body[r]
           q == Append(b.queue, b.held)
           n == Len(b.queue)
           c == [b EXCEPT !.queue = q, !.held = Eof, !.task = "pull"]
<1>1. /\ b \in BodyType /\ Good(b) /\ b.task = "push" /\ b.held # Eof /\ adapter = "actix"
      /\ SetBody(r, c)
  BY DEF StreamInv, StreamTypeOK, Push, Good
<1>2. b.queue \in Seq(Items) /\ b.held \in Items /\ n \in Nat
  BY <1>1 DEF BodyType
<1>3. /\ q \in Seq(Items) /\ Len(q) = n + 1 /\ q # <<>> /\ q[n + 1] = b.held
      /\ \A i \in 1..n : q[i] = b.queue[i]
  <2>1. q \in Seq(Items) /\ Len(q) = Len(b.queue) + 1 /\ q # <<>>
    BY <1>2, AppendProperties
  <2>2. q[Len(b.queue) + 1] = b.held /\ \A i \in 1..Len(b.queue) : q[i] = b.queue[i]
    BY <1>2, AppendProperties
  <2> QED BY <2>1, <2>2
<1> HIDE DEF q
<1>4. c \in BodyType
  BY <1>1, <1>3 DEF BodyType
<1>5. /\ c.queue = q /\ c.held = Eof /\ c.task = "pull" /\ c.ask = b.ask /\ c.pos = b.pos
      /\ c.wire = b.wire /\ c.cur = b.cur /\ c.got = b.got /\ c.reader = b.reader
  BY <1>1 DEF BodyType
<1> HIDE DEF c
<1>6. ASSUME b.reader \in {"collect", "ready", "eof"} PROVE Chained(c)
  <2>1. Chained(b)
    BY <1>1, <1>6 DEF Good
  <2>2. \A i \in 1..(n + 1) : Before(c, i) = Before(b, i)
    BY <1>2, <1>3, <1>5 DEF Before
  <2>3. ~Cut(b)
    BY <1>1, <2>1 DEF Chained
  <2>4. \A i \in 1..n : b.queue[i] # Broken
    BY <1>2, <2>1, <2>3 DEF Chained, Cut
  <2>5. \A i \in 1..Len(q) : IF q[i] = Broken THEN i = Len(q) ELSE q[i].lo = Before(c, i)
    <3> SUFFICES ASSUME NEW i \in 1..(n + 1)
                 PROVE  IF q[i] = Broken THEN i = n + 1 ELSE q[i].lo = Before(c, i)
      BY <1>3
    <3>1. CASE i \in 1..n
      BY <1>2, <1>3, <2>1, <2>2, <2>4, <3>1 DEF Chained
    <3>2. CASE i = n + 1
      BY <1>2, <1>3, <2>1, <2>2, <3>2 DEF Chained, Following, Items
    <3> QED BY <1>2, <3>1, <3>2
  <2>6. Following(c) = IF n + 1 = 0 THEN c.cur.hi ELSE b.held.hi
    BY <1>2, <1>3, <1>5 DEF Following, Before
  <2>7. Cut(c) <=> b.held = Broken
    BY <1>3, <1>5, <1>2 DEF Cut
  <2>8. b.held # Broken => b.held \in Spans /\ Following(c) = b.pos
    BY <1>2, <2>1, <2>6 DEF Chained, Items
  <2> QED
    BY <1>1, <1>5, <2>1, <2>3, <2>5, <2>7, <2>8, StreamAssumption DEF Chained
<1>7. Good(c)
  BY <1>1, <1>5, <1>6 DEF Good
<1> QED BY <1>1, <1>4, <1>7, SetBodyKeeps DEF c

(* Taken from the front of the channel, it is the chunk at hand.           *)
LEMMA ReceiveKeeps ==
  ASSUME StreamInv, NEW r \in Reqs, Receive(r)
  PROVE  StreamInv'
<1> DEFINE b == body[r]
           q == Tail(b.queue)
           n == Len(b.queue)
           item == Head(b.queue)
<1>1. /\ b \in BodyType /\ Good(b) /\ Chained(b) /\ adapter = "actix"
      /\ b.reader = "ready" /\ IsEmpty(b.cur) /\ b.queue # <<>>
  BY DEF StreamInv, StreamTypeOK, Receive, Good
<1>2. b.queue \in Seq(Items)
  BY <1>1 DEF BodyType
<1>3. /\ q \in Seq(Items) /\ n \in Nat \ {0} /\ Len(q) = n - 1 /\ item \in Items
      /\ item = b.queue[1]
      /\ \A i \in 1..(n - 1) : q[i] = b.queue[i + 1]
      /\ q = <<>> <=> n = 1
  BY <1>1, <1>2, TailFacts, Zenon
<1>4. CASE item = Broken
  <2> DEFINE c == [b EXCEPT !.queue = q, !.reader = "failed"]
  <2>1. SetBody(r, c)
    BY <1>4 DEF Receive
  <2>2. c \in BodyType
    BY <1>1, <1>3 DEF BodyType
  <2>3. Good(c)
    BY <1>1 DEF Good, BodyType
  <2> QED BY <2>1, <2>2, <2>3, SetBodyKeeps
<1>5. CASE item # Broken
  <2> DEFINE c == [b EXCEPT !.queue = q, !.cur = item]
  <2>1. SetBody(r, c) /\ item \in Spans
    BY <1>3, <1>5 DEF Receive, Items
  <2>2. c \in BodyType
    BY <1>1, <1>3, <2>1 DEF BodyType
  <2> HIDE DEF q, item
  <2>3. /\ c.queue = q /\ c.held = b.held /\ c.task = b.task /\ c.ask = b.ask /\ c.pos = b.pos
        /\ c.wire = b.wire /\ c.cur = item /\ c.got = b.got /\ c.reader = b.reader
    BY <1>1 DEF BodyType
  <2> HIDE DEF c
  <2>4. item.lo = b.cur.hi /\ b.cur.lo = b.cur.hi
    BY <1>1, <1>3, <1>5 DEF Chained, Before, IsEmpty
  <2>5. \A i \in 1..n : Before(c, i) = Before(b, i + 1)
    BY <1>3, <2>3 DEF Before
  <2>6. Following(c) = Following(b)
    BY <1>3, <2>3, <2>5 DEF Following
  <2>7. Cut(c) <=> Cut(b)
    BY <1>3, <1>5, <2>3 DEF Cut
  <2>8. \A i \in 1..Len(q) : IF q[i] = Broken THEN i = Len(q) ELSE q[i].lo = Before(c, i)
    <3> SUFFICES ASSUME NEW i \in 1..(n - 1)
                 PROVE  IF q[i] = Broken THEN i = n - 1 ELSE q[i].lo = Before(c, i)
      BY <1>3
    <3>1. i + 1 \in 1..n /\ i \in 1..n /\ i \in Nat
      BY <1>3
    <3>2. IF b.queue[i + 1] = Broken THEN i + 1 = n ELSE b.queue[i + 1].lo = Before(b, i + 1)
      BY <1>1, <3>1 DEF Chained
    <3> QED BY <1>3, <2>5, <3>1, <3>2
  <2>9. Chained(c)
    BY <1>1, <2>3, <2>6, <2>7, <2>8 DEF Chained
  <2>10. Good(c)
    BY <1>1, <2>3, <2>4, <2>9 DEF Good
  <2> QED BY <2>1, <2>2, <2>10, SetBodyKeeps
<1> QED BY <1>4, <1>5

(* The channel is empty and nobody sends: everything was read.             *)
LEMMA ReceiveEofKeeps ==
  ASSUME StreamInv, NEW r \in Reqs, ReceiveEof(r)
  PROVE  StreamInv'
<1> DEFINE b == body[r]
           c == [b EXCEPT !.reader = "eof"]
<1>1. /\ b \in BodyType /\ Good(b) /\ Chained(b) /\ adapter = "actix" /\ SetBody(r, c)
      /\ b.reader = "ready" /\ IsEmpty(b.cur) /\ b.queue = <<>> /\ b.task = "gone"
  BY DEF StreamInv, StreamTypeOK, ReceiveEof, Good
<1>2. c \in BodyType
  BY <1>1 DEF BodyType
<1>3. Good(c)
  BY <1>1 DEF Good, Chained, Cut, Following, Before, BodyType
<1> QED BY <1>1, <1>2, <1>3, SetBodyKeeps

(* The reader of Axum asks the connection.                                 *)
LEMMA TakeChunkKeeps ==
  ASSUME StreamInv, NEW r \in Reqs, TakeChunk(r)
  PROVE  StreamInv'
<1> DEFINE b == body[r]
<1>1. PICK item \in Yields(r) :
        SetBody(r, CASE item = Broken -> [Yielded(b, item) EXCEPT !.reader = "failed"]
                     [] item = Eof -> [Yielded(b, item) EXCEPT !.reader = "eof"]
                     [] OTHER -> [Yielded(b, item) EXCEPT !.cur = item])
  BY DEF TakeChunk
<1>2. /\ b \in BodyType /\ Good(b) /\ Polled(b) /\ StreamTypeOK /\ adapter = "axum"
      /\ b.reader = "ready" /\ IsEmpty(b.cur)
  BY DEF StreamInv, StreamTypeOK, TakeChunk, Good
<1>3. CASE item \in Spans
  <2> DEFINE h == IF IsEmpty(item) THEN b.hollow + 1 ELSE b.hollow
             c == [b EXCEPT !.pos = item.hi, !.hollow = h, !.cur = item]
  <2>1. item # Eof /\ item # Broken /\ item.hi \in Nat /\ item.lo \in Nat
    BY <1>3, StreamAssumption DEF Spans
  <2>2. SetBody(r, c)
    BY <1>1, <1>2, <2>1 DEF Yielded, BodyType
  <2>3. /\ b.wire = "open" /\ item.lo = b.pos /\ item.lo <= item.hi /\ item.hi <= b.ask.hi
    BY <1>2, <1>3, <2>1, YieldsFacts
  <2>4. h \in Nat
    BY <1>2 DEF BodyType
  <2> HIDE DEF h
  <2>5. c \in BodyType
    BY <1>2, <1>3, <2>1, <2>4 DEF BodyType
  <2>6. Good(c)
    BY <1>2, <1>3, <2>1, <2>3 DEF Good, Polled, IsEmpty, BodyType, Spans
  <2> QED BY <2>2, <2>5, <2>6, SetBodyKeeps
<1>4. CASE item = Broken
  <2> DEFINE c == [b EXCEPT !.wire = "ended", !.reader = "failed"]
  <2>1. SetBody(r, c)
    BY <1>1, <1>2, <1>4, StreamAssumption DEF Yielded, BodyType
  <2>2. c \in BodyType /\ Good(c)
    BY <1>2 DEF BodyType, Good
  <2> QED BY <2>1, <2>2, SetBodyKeeps
<1>5. CASE item = Eof
  <2> DEFINE c == [b EXCEPT !.wire = "ended", !.reader = "eof"]
  <2>1. SetBody(r, c)
    BY <1>1, <1>2, <1>5, StreamAssumption DEF Yielded, BodyType
  <2>2. b.pos = b.ask.hi
    BY <1>2, <1>5, YieldsFacts, StreamAssumption DEF Polled
  <2>3. c \in BodyType
    BY <1>2 DEF BodyType
  <2>4. Good(c)
    BY <1>2, <2>2, StreamAssumption DEF BodyType, Good, Polled
  <2> QED BY <2>1, <2>3, <2>4, SetBodyKeeps
<1> QED BY <1>2, <1>3, <1>4, <1>5, YieldsFacts

(* Rocket collects the first Limit bytes, or all of them.                  *)
LEMMA CollectKeeps ==
  ASSUME StreamInv, NEW r \in Reqs, Collect(r)
  PROVE  StreamInv'
<1> DEFINE b == body[r]
           most == b.ask.lo + Limit
<1>1. /\ b \in BodyType /\ Good(b) /\ StreamTypeOK /\ b.reader = "collect"
      /\ adapter \in {"axum", "actix", "rocket"}
  BY StreamAssumption DEF StreamInv, StreamTypeOK, Collect
<1>2. adapter = "rocket"
  BY <1>1 DEF Good, Chained, Polled
<1>3. Collected(b) /\ b.task = "gone" /\ b.got = <<>> /\ b.wire # "ended"
  BY <1>1, <1>2 DEF Good, Collected
<1>4. /\ b.ask.lo \in Nat /\ b.ask.hi \in Nat /\ b.pos \in Nat /\ most \in Nat
      /\ Limit \in Nat
  <2>1. b.ask \in Spans /\ b.pos \in Nat
    BY <1>1 DEF BodyType
  <2>2. b.ask.lo \in Nat /\ b.ask.hi \in Nat
    BY <2>1 DEF Spans
  <2> QED BY <2>1, <2>2, StreamAssumption
<1>5. /\ b.cur.lo = b.ask.lo /\ b.cur.hi = Lesser(b.pos, most)
      /\ b.ask.lo <= b.pos /\ b.pos <= b.ask.hi
  BY <1>1, <1>2, <1>3, <1>4 DEF Good, Collected
<1>6. /\ Lesser(b.ask.hi, most) = b.ask.lo + Reach(b)
      /\ Lesser(b.pos, most) = most => most = b.ask.lo + Reach(b)
  <2> DEFINE lo == b.ask.lo
             hi == b.ask.hi
             pos == b.pos
  <2>1. /\ lo \in Nat /\ hi \in Nat /\ pos \in Nat /\ Limit \in Nat /\ most = lo + Limit
        /\ lo <= pos /\ pos <= hi /\ Reach(b) = Lesser(hi - lo, Limit)
    BY <1>2, <1>4, <1>5 DEF Reach
  <2> HIDE DEF lo, hi, pos, most
  <2>2. /\ Lesser(hi, most) = lo + Reach(b)
        /\ Lesser(pos, most) = most => most = lo + Reach(b)
    BY <2>1 DEF Lesser
  <2> QED BY <2>2 DEF lo, hi, pos, most
<1>7. CASE b.cur.hi = most
  <2> DEFINE c == [b EXCEPT !.reader = "ready", !.wire = "ended"]
  <2>1. SetBody(r, c)
    BY <1>7 DEF Collect
  <2>2. c \in BodyType
    BY <1>1 DEF BodyType
  <2>3. most = b.ask.lo + Reach(b)
    BY <1>5, <1>6, <1>7
  <2>4. Good(c)
    BY <1>1, <1>2, <1>3, <1>4, <1>5, <1>7, <2>3 DEF BodyType, Good, Collected, Reach
  <2> QED BY <2>1, <2>2, <2>4, SetBodyKeeps
<1>8. CASE b.cur.hi # most
  <2>1. PICK item \in Yields(r) :
          SetBody(r, CASE item = Broken -> [Yielded(b, item) EXCEPT !.reader = "failed"]
                       [] item = Eof -> [Yielded(b, item) EXCEPT !.reader = "ready"]
                       [] OTHER -> [Yielded(b, item) EXCEPT
                                      !.cur.hi = Lesser(item.hi, most)])
    BY <1>8 DEF Collect
  <2>2. CASE item \in Spans
    <3> DEFINE h == IF IsEmpty(item) THEN b.hollow + 1 ELSE b.hollow
               cur == [b.cur EXCEPT !.hi = Lesser(item.hi, most)]
               c == [b EXCEPT !.pos = item.hi, !.hollow = h, !.cur = cur]
    <3>1. item # Eof /\ item # Broken /\ item.hi \in Nat /\ item.lo \in Nat
      BY <2>2, StreamAssumption DEF Spans
    <3>2. SetBody(r, c)
      BY <1>1, <2>1, <3>1 DEF Yielded, BodyType, Spans
    <3>3. item.lo = b.pos /\ item.lo <= item.hi /\ item.hi <= b.ask.hi
      BY <1>1, <2>2, <3>1, YieldsFacts
    <3>4. h \in Nat
      BY <1>1 DEF BodyType
    <3>5. cur \in Spans /\ cur.lo = b.ask.lo /\ cur.hi = Lesser(item.hi, most)
      <4>1. b.cur \in Spans /\ b.cur.lo <= b.pos
        BY <1>1, <1>4, <1>5 DEF BodyType
      <4>2. Lesser(item.hi, most) \in Nat /\ b.cur.lo <= Lesser(item.hi, most)
        BY <1>4, <1>5, <3>1, <3>3, <4>1 DEF Lesser
      <4> QED BY <1>5, <4>1, <4>2 DEF Spans
    <3> HIDE DEF h, cur
    <3>6. c \in BodyType
      BY <1>1, <3>1, <3>4, <3>5 DEF BodyType
    <3>7. /\ c.pos = item.hi /\ c.cur = cur /\ c.reader = b.reader /\ c.task = b.task
          /\ c.held = b.held /\ c.got = b.got /\ c.ask = b.ask /\ c.wire = b.wire
          /\ b.pos \in Nat /\ b.ask.lo \in Nat /\ b.ask.hi \in Nat
      BY <1>1 DEF BodyType, Spans
    <3>8. Collected(c)
      BY <1>1, <1>2, <1>3, <1>4, <1>5, <3>5, <3>7 DEF Collected
    <3>9. Good(c)
      BY <1>1, <1>2, <1>3, <1>4, <1>5, <3>1, <3>3, <3>5, <3>7, <3>8 DEF Good
    <3> QED BY <3>2, <3>6, <3>9, SetBodyKeeps
  <2>3. CASE item = Broken
    <3> DEFINE c == [b EXCEPT !.wire = "ended", !.reader = "failed"]
    <3>1. SetBody(r, c)
      BY <1>1, <2>1, <2>3, StreamAssumption DEF Yielded, BodyType
    <3>2. c \in BodyType /\ Good(c)
      BY <1>1 DEF BodyType, Good
    <3> QED BY <3>1, <3>2, SetBodyKeeps
  <2>4. CASE item = Eof
    <3> DEFINE c == [b EXCEPT !.wire = "ended", !.reader = "ready"]
    <3>1. SetBody(r, c)
      BY <1>1, <2>1, <2>4, StreamAssumption DEF Yielded, BodyType
    <3>2. b.pos = b.ask.hi
      BY <1>1, <1>3, <2>4, YieldsFacts, StreamAssumption
    <3>3. c \in BodyType
      BY <1>1 DEF BodyType
    <3>4. b.cur.hi = b.ask.lo + Reach(b)
      BY <1>5, <1>6, <3>2
    <3>5. Good(c)
      BY <1>1, <1>2, <1>3, <1>4, <1>5, <3>4 DEF BodyType, Good, Collected, Reach
    <3> QED BY <3>1, <3>3, <3>5, SetBodyKeeps
  <2> QED BY <1>1, <2>2, <2>3, <2>4, YieldsFacts
<1> QED BY <1>7, <1>8

LEMMA CursorEofKeeps ==
  ASSUME StreamInv, NEW r \in Reqs, CursorEof(r)
  PROVE  StreamInv'
<1> DEFINE b == body[r]
           c == [b EXCEPT !.reader = "eof"]
<1>1. /\ b \in BodyType /\ Good(b) /\ Collected(b) /\ adapter = "rocket" /\ SetBody(r, c)
      /\ b.reader = "ready" /\ IsEmpty(b.cur)
  BY DEF StreamInv, StreamTypeOK, CursorEof, Good
<1>2. c \in BodyType
  BY <1>1 DEF BodyType
<1>3. Good(c)
  <2>1. /\ c.ask = b.ask /\ c.cur = b.cur /\ c.got = b.got /\ c.pos = b.pos /\ c.wire = b.wire
        /\ c.task = b.task /\ c.held = b.held /\ c.queue = b.queue /\ c.reader = "eof"
        /\ b.ask \in Spans /\ b.cur \in Spans /\ b.got \in Seq(Nat)
    BY <1>1 DEF BodyType
  <2>2. Reach(c) = Reach(b) /\ IsEmpty(c.cur)
    BY <1>1, <2>1 DEF Reach
  <2>3. Collected(c)
    BY <1>1, <2>1, <2>2 DEF Collected
  <2> QED BY <1>1, <2>1, <2>3 DEF Good
<1> QED BY <1>1, <1>2, <1>3, SetBodyKeeps

(* What is read is the next piece of the body.                             *)
LEMMA ReadKeeps ==
  ASSUME StreamInv, NEW r \in Reqs, NEW n \in 1..(body[r].cur.hi - body[r].cur.lo), Read(r, n)
  PROVE  StreamInv'
<1> DEFINE b == body[r]
           lo == b.ask.lo
           mid == b.cur.lo
           hi == b.cur.lo + n
           piece == BytesOf(Span(mid, hi))
           got == b.got \o piece
           c == [b EXCEPT !.got = got, !.cur = Span(hi, b.cur.hi)]
<1>1. /\ b \in BodyType /\ Good(b) /\ b.reader = "ready" /\ SetBody(r, c)
      /\ adapter \in {"axum", "actix", "rocket"}
  BY StreamAssumption DEF StreamInv, StreamTypeOK, Read
<1>2. /\ lo \in Nat /\ mid \in Nat /\ b.cur.hi \in Nat /\ n \in Nat /\ hi \in Nat
      /\ mid < hi /\ hi <= b.cur.hi /\ b.got \in Seq(Nat) /\ Len(b.got) \in Nat
  <2>1. lo \in Nat /\ mid \in Nat /\ b.cur.hi \in Nat /\ b.got \in Seq(Nat)
    BY <1>1 DEF BodyType, Spans
  <2>2. n \in 1..(b.cur.hi - mid)
    OBVIOUS
  <2>3. mid < hi /\ hi <= b.cur.hi /\ hi \in Nat
    <3> DEFINE top == b.cur.hi
    <3>1. hi = mid + n /\ mid \in Nat /\ top \in Nat /\ n \in 1..(top - mid)
      BY <2>1, <2>2
    <3>2. mid < hi /\ hi <= top /\ hi \in Nat
      <4> HIDE DEF mid, top, hi
      <4> QED BY <3>1
    <3> QED BY <3>2
  <2> QED BY <2>1, <2>2, <2>3
<1>3. mid = lo + Len(b.got) /\ b.got = BytesOf(Span(lo, mid))
  BY <1>1 DEF Good
<1>4. lo <= mid
  BY <1>2, <1>3
<1> HIDE DEF lo, mid, hi
<1>5. got = BytesOf(Span(lo, hi))
  <2>1. lo \in Nat /\ mid \in Nat /\ hi \in Nat /\ lo <= mid /\ mid <= hi
    BY <1>2, <1>4
  <2>2. BytesOf(Span(lo, mid)) \o BytesOf(Span(mid, hi)) = BytesOf(Span(lo, hi))
    BY <2>1, BytesOfJoin, Zenon
  <2> QED BY <1>3, <2>2
<1>6. got \in Seq(Nat) /\ Len(got) = hi - lo
  <2>1. lo \in Nat /\ hi \in Nat /\ lo <= hi
    BY <1>2, <1>4
  <2>2. BytesOf(Span(lo, hi)) \in Seq(Nat) /\ Len(BytesOf(Span(lo, hi))) = hi - lo
    BY <2>1, BytesOfFacts, Zenon
  <2> QED BY <1>5, <2>2
<1>7. Span(hi, b.cur.hi) \in Spans /\ Span(hi, b.cur.hi).lo = hi
        /\ Span(hi, b.cur.hi).hi = b.cur.hi
  BY <1>2, SpanFacts
<1> HIDE DEF got
<1>8. c \in BodyType
  BY <1>1, <1>6, <1>7 DEF BodyType
<1>9. /\ c.queue = b.queue /\ c.held = b.held /\ c.task = b.task /\ c.ask = b.ask /\ c.pos = b.pos
      /\ c.wire = b.wire /\ c.cur.hi = b.cur.hi /\ c.cur.lo = hi /\ c.got = got
      /\ c.reader = "ready"
  BY <1>1, <1>7 DEF BodyType
<1> HIDE DEF c
<1>10. lo + Len(got) = hi
  BY <1>2, <1>4, <1>6
<1>11. c.cur.lo = c.ask.lo + Len(c.got) /\ c.got = BytesOf(Span(c.ask.lo, c.ask.lo + Len(c.got)))
  BY <1>5, <1>9, <1>10 DEF lo
<1>12. adapter = "actix" => Chained(c)
  <2> SUFFICES ASSUME adapter = "actix" PROVE Chained(c)
    OBVIOUS
  <2>1. Chained(b)
    BY <1>1 DEF Good
  <2>2. \A i \in Nat : Before(c, i) = Before(b, i)
    BY <1>9 DEF Before
  <2>3. Following(c) = Following(b)
    BY <1>9 DEF Following, Before
  <2>4. Cut(c) <=> Cut(b)
    BY <1>9 DEF Cut
  <2>5. \A i \in 1..Len(c.queue) :
          IF c.queue[i] = Broken THEN i = Len(c.queue) ELSE c.queue[i].lo = Before(c, i)
    BY <1>9, <2>1, <2>2 DEF Chained
  <2> QED BY <1>1, <1>9, <2>1, <2>3, <2>4, <2>5 DEF Chained
<1>13. adapter = "axum" => Polled(c)
  BY <1>1, <1>9 DEF Good, Polled
<1>14. adapter = "rocket" => Collected(c)
  BY <1>1, <1>9 DEF Good, Collected, Reach
<1>15. Good(c)
  BY <1>1, <1>9, <1>11, <1>12, <1>13, <1>14 DEF Good
<1> QED BY <1>1, <1>8, <1>15, SetBodyKeeps DEF c, got, piece, mid, hi

-----------------------------------------------------------------------------
LEMMA StreamInitInv == StreamInit => StreamInv
  BY NoBodyGood DEF StreamInit, StreamInv, StreamTypeOK

(* One step for each action. *)
LEMMA StreamStep ==
  ASSUME StreamInv, [StreamNext]_streamVars
  PROVE  StreamInv'
<1>1. CASE UNCHANGED streamVars
  BY <1>1 DEF streamVars, StreamInv, StreamTypeOK, Good, Chained, Polled, Collected,
              Reach, Cut, Before, Following
<1>2. ASSUME NEW r \in Reqs, NEW s \in Bodies, Open(r, s) PROVE StreamInv'
  BY <1>2, OpenKeeps
<1>3. ASSUME NEW r \in Reqs, Break(r) PROVE StreamInv'
  BY <1>3, BreakKeeps
<1>4. ASSUME NEW r \in Reqs, Task(r) PROVE StreamInv'
  BY <1>4, PullKeeps, PushKeeps, NoBodyKeeps DEF Task, PushFails, Forget
<1>5. ASSUME NEW r \in Reqs, Fill(r) PROVE StreamInv'
  BY <1>5, ReceiveKeeps, ReceiveEofKeeps, TakeChunkKeeps, CursorEofKeeps DEF Fill
<1>6. ASSUME NEW r \in Reqs, Collect(r) PROVE StreamInv'
  BY <1>6, CollectKeeps
<1>7. ASSUME NEW r \in Reqs, NEW n \in 1..(body[r].cur.hi - body[r].cur.lo), Read(r, n)
      PROVE  StreamInv'
  BY <1>7, ReadKeeps
<1>8. ASSUME NEW r \in Reqs, Drop(r) PROVE StreamInv'
  BY <1>8, DropKeeps DEF Drop
<1> QED
  BY <1>1, <1>2, <1>3, <1>4, <1>5, <1>6, <1>7, <1>8 DEF StreamNext

LEMMA InOrderFollows == StreamInv => InOrder
<1> SUFFICES ASSUME StreamInv, NEW r \in Reqs, body[r].reader # "gone"
             PROVE  /\ body[r].got = BytesOf(Span(body[r].ask.lo, body[r].ask.lo + Len(body[r].got)))
                    /\ body[r].reader = "eof" => Len(body[r].got) = Reach(body[r])
  BY DEF InOrder
<1> DEFINE b == body[r]
<1>1. b \in BodyType /\ Good(b) /\ adapter \in {"axum", "actix", "rocket"}
  BY StreamAssumption DEF StreamInv, StreamTypeOK
<1>2. ASSUME b.reader = "eof" PROVE Len(b.got) = Reach(b)
  <2>1. /\ b.ask.lo \in Nat /\ b.ask.hi \in Nat /\ b.cur.lo \in Nat /\ b.cur.hi \in Nat
        /\ b.pos \in Nat /\ Len(b.got) \in Nat /\ Limit \in Nat /\ b.ask.lo <= b.ask.hi
    <3>1. b.ask \in Spans /\ b.cur \in Spans /\ b.pos \in Nat /\ Len(b.got) \in Nat
      BY <1>1 DEF BodyType
    <3> QED BY <3>1, StreamAssumption DEF Spans
  <2>2. b.cur.lo = b.ask.lo + Len(b.got) /\ b.cur.lo = b.cur.hi
    BY <1>1, <1>2 DEF Good, Chained, Polled, Collected, IsEmpty
  <2>3. Reach(b) \in Nat
    BY <2>1 DEF Reach, Lesser
  <2>4. b.cur.hi = b.ask.lo + Reach(b)
    <3>1. CASE adapter = "rocket"
      BY <1>1, <1>2, <3>1 DEF Good, Collected
    <3>2. CASE adapter = "axum"
      BY <1>1, <1>2, <2>1, <3>2 DEF Good, Polled, Reach
    <3>3. CASE adapter = "actix"
      <4>1. Chained(b) /\ b.queue = <<>> /\ b.held = Eof /\ b.wire = "ended"
        BY <1>1, <1>2, <3>3 DEF Good, Chained
      <4>2. b.cur.hi = b.pos /\ b.pos = b.ask.hi
        BY <2>1, <4>1, StreamAssumption DEF Chained, Cut, Following, Before
      <4> QED BY <2>1, <3>3, <4>2 DEF Reach
    <3> QED BY <1>1, <3>1, <3>2, <3>3
  <2> QED BY <2>1, <2>2, <2>3, <2>4
<1> QED BY <1>1, <1>2 DEF Good

(* scope.rs 113-161, router.rs 62-72, routes.rs 91-103: with any of the    *)
(* adapters, and any capacity and limit, the handler reads the body in     *)
(* order, and a body that ends has come through as a whole.                *)
THEOREM BodyInOrder == StreamSpec => []InOrder
<1>1. StreamSpec => []StreamInv
  BY StreamInitInv, StreamStep, PTL DEF StreamSpec
<1> QED
  BY <1>1, InOrderFollows, PTL

-----------------------------------------------------------------------------
(* PATCH and the body it reads, for any requests, uploads, bodies and      *)
(* lengths, with a locker and without.  Between the offset check and the   *)
(* write a request must not lose what it knows: that its reader gives the  *)
(* body it announced (Fed), that its offset is not beyond the bytes of the *)
(* store (Based), and that it still has the lock (Owned).                  *)

Reading == {"collect", "lock", "load", "declare", "read"}
Holding == {"load", "declare", "read", "info"}

Fed(r) ==
  /\ pc[r] \in Reading =>
       /\ body[r].reader # "gone" /\ body[r].ask \in Bodies
       /\ job[r].at = body[r].ask.lo /\ job[r].hashed = body[r].got
  /\ pc[r] = "info" => body[r] = NoBody

Based(r) ==
  pc[r] \in {"declare", "read"} =>
    /\ job[r].at <= Len(store[job[r].id].data)
    /\ locking => job[r].at = Len(store[job[r].id].data)

Owned(r) == locking /\ pc[r] \in Holding => owner[job[r].id] = r

RequestsInv ==
  TypeOK /\ StoredIsFile /\ \A r \in Reqs : Fed(r) /\ Based(r) /\ Owned(r)

HandlerInv == StreamInv /\ RequestsInv

-----------------------------------------------------------------------------
(* The body side: each step is one of BodyStream, or none.                 *)

LEMMA EofIsLast ==
  ASSUME StreamInv, NEW r \in Reqs, body[r].reader = "eof"
  PROVE  Dropped(body[r]) = NoBody
<1>1. body[r] \in BodyType /\ Good(body[r])
  BY DEF StreamInv, StreamTypeOK
<1>2. body[r].task = "gone"
  BY <1>1 DEF Good, Chained
<1> QED BY <1>2 DEF Dropped

LEMMA EndFeeds ==
  ASSUME HandlerInv, NEW r \in Reqs, pc[r] # "idle", SetBody(r, Dropped(body[r]))
  PROVE  [StreamNext]_streamVars
<1>1. pc[r] \in Reading \union {"info"} /\ Fed(r)
  BY DEF HandlerInv, RequestsInv, TypeOK, PCs, Reading
<1>2. CASE pc[r] = "info"
  <2>1. body[r] = NoBody /\ Dropped(NoBody) = NoBody
    BY <1>1, <1>2 DEF Fed, Dropped, NoBody
  <2>2. body' = body /\ adapter' = adapter
    BY <2>1 DEF SetBody, HandlerInv, StreamInv, StreamTypeOK
  <2> QED BY <2>2 DEF streamVars
<1>3. CASE pc[r] \in Reading
  BY <1>1, <1>3 DEF Fed, Drop, StreamNext
<1> QED BY <1>1, <1>2, <1>3

LEMMA StepFeeds == HandlerInv /\ [Next]_vars => [StreamNext]_streamVars
<1> SUFFICES ASSUME HandlerInv, [Next]_vars PROVE [StreamNext]_streamVars
  OBVIOUS
<1>1. CASE UNCHANGED vars
  BY <1>1 DEF vars
<1>2. ASSUME NEW r \in Reqs, NEW id \in Ids, NEW s \in Bodies, NEW sum \in Sums(r, s),
             Arrive(r, id, s, sum)
      PROVE  StreamNext
  BY <1>2 DEF Arrive, StreamNext
<1>3. ASSUME NEW r \in Reqs, Handle(r) PROVE [StreamNext]_streamVars
  <2>1. CASE Gather(r)
    BY <2>1 DEF Gather, StreamNext
  <2>2. CASE Lock(r) \/ Load(r) \/ \E n \in Lengths : Declare(r, n)
    BY <2>2 DEF Lock, Load, Declare
  <2>3. CASE Fetch(r)
    BY <2>3 DEF Fetch, StreamNext
  <2>4. CASE \E n \in 1..(body[r].cur.hi - body[r].cur.lo) : ReadBody(r, n)
    BY <2>4 DEF ReadBody, StreamNext
  <2>5. CASE Write(r)
    BY <2>5, EndFeeds DEF Write
  <2>6. CASE LockTimeout(r) \/ Answer(r) \/ Mismatch(r) \/ Refuse(r)
    BY <2>6, EndFeeds DEF LockTimeout, Answer, Mismatch, Refuse, End
  <2> QED BY <1>3, <2>1, <2>2, <2>3, <2>4, <2>5, <2>6 DEF Handle
<1>4. ASSUME NEW r \in Reqs, Cancel(r) PROVE [StreamNext]_streamVars
  BY <1>4, EndFeeds DEF Cancel, End
<1>5. ASSUME NEW r \in Reqs, Beside(r) PROVE StreamNext
  BY <1>5 DEF Beside, StreamNext
<1> QED
  BY <1>1, <1>2, <1>3, <1>4, <1>5 DEF Next

-----------------------------------------------------------------------------
(* What a step of a body leaves alone.                                     *)
Undisturbed(b, c) ==
  /\ b.reader # "gone" => c.reader # "gone" /\ c.ask = b.ask /\ c.got = b.got
  /\ b = NoBody => c = NoBody
  /\ Len(b.queue) <= Capacity => Len(c.queue) <= Capacity

LEMMA BodyFrame ==
  ASSUME StreamTypeOK, NEW r \in Reqs, Break(r) \/ Task(r) \/ Fill(r) \/ Collect(r)
  PROVE  /\ \A q \in Reqs : q # r => body'[q] = body[q]
         /\ Undisturbed(body[r], body'[r])
<1> DEFINE b == body[r]
           c == body'[r]
<1>1. b \in BodyType /\ b.queue \in Seq(Items) /\ body \in [Reqs -> BodyType]
        /\ Len(b.queue) \in Nat /\ Capacity \in Nat
  BY StreamAssumption DEF StreamTypeOK, BodyType
<1>2. /\ NoBody.queue = <<>> /\ Len(NoBody.queue) = 0 /\ NoBody.task = "gone"
      /\ NoBody.reader = "gone" /\ NoBody.wire = "ended"
  BY DEF NoBody
<1>3. CASE Break(r)
  BY <1>1, <1>2, <1>3 DEF Break, SetBody, BodyType, Undisturbed
<1>4. CASE Pull(r)
  BY <1>1, <1>2, <1>4 DEF Pull, Yielded, SetBody, BodyType, Undisturbed
<1>5. CASE Push(r)
  <2>1. b.task = "push" /\ c.queue = Append(b.queue, b.held) /\ Len(b.queue) < Capacity
    BY <1>1, <1>5 DEF Push, SetBody, BodyType
  <2>2. Len(c.queue) = Len(b.queue) + 1
    BY <1>1, <2>1
  <2>3. Len(c.queue) <= Capacity
    BY <1>1, <2>1, <2>2
  <2> QED
    BY <1>1, <1>2, <1>5, <2>1, <2>3 DEF Push, SetBody, BodyType, Undisturbed
<1>6. CASE PushFails(r) \/ Forget(r)
  BY <1>1, <1>2, <1>6, StreamAssumption DEF PushFails, Forget, SetBody, Undisturbed
<1>7. CASE Receive(r)
  <2>1. b.reader = "ready" /\ b.queue # <<>> /\ c.queue = Tail(b.queue)
    BY <1>1, <1>7 DEF Receive, SetBody, BodyType
  <2>2. Len(c.queue) \in Nat /\ Len(c.queue) <= Len(b.queue)
    BY <1>1, <2>1, TailFacts
  <2>3. Len(b.queue) <= Capacity => Len(c.queue) <= Capacity
    BY <1>1, <2>2
  <2> QED
    BY <1>1, <1>2, <1>7, <2>1, <2>3 DEF Receive, SetBody, BodyType, Undisturbed
<1>8. CASE ReceiveEof(r) \/ CursorEof(r)
  BY <1>1, <1>2, <1>8 DEF ReceiveEof, CursorEof, SetBody, BodyType, Undisturbed
<1>9. CASE TakeChunk(r)
  BY <1>1, <1>2, <1>9 DEF TakeChunk, Yielded, SetBody, BodyType, Undisturbed
<1>10. CASE Collect(r)
  <2> DEFINE most == b.ask.lo + Limit
  <2>1. b.reader = "collect" /\ b # NoBody
    BY <1>2, <1>10 DEF Collect
  <2>2. CASE b.cur.hi = most
    <3>1. SetBody(r, [b EXCEPT !.reader = "ready", !.wire = "ended"])
      BY <1>10, <2>2 DEF Collect
    <3> QED BY <1>1, <2>1, <3>1 DEF SetBody, BodyType, Undisturbed
  <2>3. CASE b.cur.hi # most
    <3>1. PICK item \in Yields(r) :
            SetBody(r, CASE item = Broken -> [Yielded(b, item) EXCEPT !.reader = "failed"]
                         [] item = Eof -> [Yielded(b, item) EXCEPT !.reader = "ready"]
                         [] OTHER -> [Yielded(b, item) EXCEPT
                                        !.cur.hi = Lesser(item.hi, most)])
      BY <1>10, <2>3 DEF Collect
    <3>2. CASE item \in {Broken, Eof}
      BY <1>1, <2>1, <3>1, <3>2, StreamAssumption
         DEF Yielded, SetBody, BodyType, Undisturbed
    <3>3. CASE item \notin {Broken, Eof}
      <4> DEFINE h == IF IsEmpty(item) THEN b.hollow + 1 ELSE b.hollow
                 cur == [b.cur EXCEPT !.hi = Lesser(item.hi, most)]
      <4>1. SetBody(r, [b EXCEPT !.pos = item.hi, !.hollow = h, !.cur = cur])
        BY <1>1, <3>1, <3>3 DEF Yielded, BodyType
      <4> HIDE DEF h, cur
      <4> QED BY <1>1, <2>1, <4>1 DEF SetBody, BodyType, Undisturbed
    <3> QED BY <3>2, <3>3
  <2> QED BY <2>2, <2>3
<1> QED
  BY <1>3, <1>4, <1>5, <1>6, <1>7, <1>8, <1>9, <1>10 DEF Task, Fill

-----------------------------------------------------------------------------
(* A body that starts inside the bytes of the file, or where they end, and *)
(* is written at its place, leaves a file.                                 *)
LEMMA SplicedFile ==
  ASSUME NEW data \in Seq(Bytes), data = BytesOf(Span(0, Len(data))),
         NEW at \in Nat, NEW n \in Nat, at <= Len(data),
         NEW bytes \in Seq(Bytes), bytes = BytesOf(Span(at, at + n))
  PROVE  LET d == Spliced(data, at, bytes)
         IN /\ d \in Seq(Bytes) /\ d = BytesOf(Span(0, Len(d)))
            /\ at + n <= Len(d) /\ Len(data) <= Len(d)
            /\ at = Len(data) => Len(d) = at + n
<1> DEFINE m == Len(data)
           l == IF m < at + n THEN at + n ELSE m
           d == Spliced(data, at, bytes)
           e == BytesOf(Span(0, l))
<1>1. m \in Nat /\ l \in Nat /\ at + n <= l /\ m <= l /\ (at = m => l = at + n)
  OBVIOUS
<1>2. Len(bytes) = n /\ \A i \in 1..n : bytes[i] = at + i
  <2>1. at <= at + n /\ at + n \in Nat /\ (at + n) - at = n
    OBVIOUS
  <2> QED BY <2>1, BytesOfFacts
<1>3. \A i \in 1..m : data[i] = i
  <2>1. m \in Nat /\ 0 <= m /\ m - 0 = m
    OBVIOUS
  <2>2. \A i \in 1..(m - 0) : BytesOf(Span(0, m))[i] = 0 + i
    BY <2>1, BytesOfFacts
  <2> QED BY <2>1, <2>2
<1>4. e = [i \in 1..l |-> i]
  <2>1. e = [i \in 1..(l - 0) |-> 0 + i]
    BY DEF BytesOf, Span
  <2>2. l - 0 = l /\ \A i \in 1..l : 0 + i = i
    BY <1>1
  <2> HIDE DEF e, l
  <2> QED BY <2>1, <2>2
<1>5. d = [i \in 1..l |-> IF i \in (at + 1)..(at + n) THEN bytes[i - at]
                         ELSE IF i <= m THEN data[i] ELSE Zero]
  BY <1>2 DEF Spliced
<1>6. ASSUME NEW i \in 1..l
      PROVE  (IF i \in (at + 1)..(at + n) THEN bytes[i - at]
              ELSE IF i <= m THEN data[i] ELSE Zero) = i
  <2>1. CASE i \in (at + 1)..(at + n)
    <3>1. i - at \in 1..n /\ at + (i - at) = i
      BY <1>1, <2>1
    <3> QED BY <1>2, <2>1, <3>1
  <2>2. CASE i \notin (at + 1)..(at + n)
    <3>1. i \in 1..m /\ i <= m
      BY <1>1, <2>2
    <3> QED BY <1>3, <2>2, <3>1
  <2> QED BY <2>1, <2>2
<1>7. d = e
  BY <1>4, <1>5, <1>6
<1>8. \A i \in 1..l : i \in Bytes
  <2> TAKE i \in 1..l
  <2>1. CASE i \in (at + 1)..(at + n)
    <3>1. i - at \in 1..n /\ at + (i - at) = i
      BY <1>1, <2>1
    <3>2. bytes[i - at] \in Bytes
      BY <1>2, <3>1
    <3> QED BY <1>2, <3>1, <3>2
  <2>2. CASE i \notin (at + 1)..(at + n)
    <3>1. i \in 1..m
      BY <1>1, <2>2
    <3> QED BY <1>3, <3>1
  <2> QED BY <2>1, <2>2
<1>9. e \in Seq(Bytes) /\ Len(e) = l
  BY <1>1, <1>4, <1>8
<1> HIDE DEF l, e
<1> QED BY <1>1, <1>7, <1>9 DEF e

(* The bytes of a body, or of the first part of it. *)
LEMMA BodyBytes ==
  ASSUME NEW s \in Bodies, NEW n \in Nat, n <= s.hi - s.lo
  PROVE  BytesOf(Span(s.lo, s.lo + n)) \in Seq(Bytes) /\ BytesOf(s) \in Seq(Bytes)
<1>1. s.lo \in Nat /\ s.hi \in Nat /\ s.lo <= s.hi /\ (s.lo + 1)..s.hi \subseteq Bytes
  BY StreamAssumption, PatchAssumption DEF Spans
<1>2. ASSUME NEW k \in Nat, k <= s.hi - s.lo
      PROVE  [i \in 1..k |-> s.lo + i] \in Seq(Bytes)
  <2>1. \A i \in 1..k : s.lo + i \in (s.lo + 1)..s.hi
    BY <1>1, <1>2
  <2> QED BY <1>1, <2>1
<1>3. BytesOf(Span(s.lo, s.lo + n)) = [i \in 1..n |-> s.lo + i]
  <2>1. (s.lo + n) - s.lo = n
    BY <1>1
  <2> QED BY <2>1 DEF BytesOf, Span
<1>4. BytesOf(s) = [i \in 1..(s.hi - s.lo) |-> s.lo + i]
  BY DEF BytesOf
<1>5. s.hi - s.lo \in Nat /\ s.hi - s.lo <= s.hi - s.lo
  BY <1>1
<1>6. [i \in 1..(s.hi - s.lo) |-> s.lo + i] \in Seq(Bytes)
  BY <1>2, <1>5
<1>7. [i \in 1..n |-> s.lo + i] \in Seq(Bytes)
  BY <1>2
<1> QED BY <1>3, <1>4, <1>6, <1>7

-----------------------------------------------------------------------------
(* The handler side, one lemma for each kind of step.                      *)

LEMMA BlankType == Blank \in JobType
  BY DEF Blank, JobType

(* A step of the connection, the task or the reader only.                  *)
LEMMA BodyStepKeeps ==
  ASSUME HandlerInv, NEW r \in Reqs, Break(r) \/ Task(r) \/ Fill(r) \/ Collect(r),
         UNCHANGED <<store, locking, owner, job>>,
         \/ UNCHANGED pc
         \/ pc[r] = "collect" /\ pc' = [pc EXCEPT ![r] = "lock"]
  PROVE  RequestsInv'
<1>1. /\ \A q \in Reqs : q # r => body'[q] = body[q]
      /\ Undisturbed(body[r], body'[r])
  BY BodyFrame DEF HandlerInv, StreamInv
<1>2. TypeOK'
  <2>1. TypeOK
    BY DEF HandlerInv, RequestsInv
  <2>2. /\ pc' \in [Reqs -> PCs]
        /\ \A q \in Reqs : pc'[q] = "idle" <=> pc[q] = "idle"
    BY <2>1 DEF TypeOK, PCs
  <2>3. \A q \in Reqs : Len(body'[q].queue) <= Capacity
    BY <1>1, <2>1 DEF TypeOK, Undisturbed
  <2> QED BY <2>1, <2>2, <2>3 DEF TypeOK, Id
<1>3. StoredIsFile'
  BY DEF HandlerInv, RequestsInv, StoredIsFile, BytesOf, Span
<1>4. ASSUME NEW q \in Reqs PROVE Fed(q)' /\ Based(q)' /\ Owned(q)'
  <2>1. pc'[q] = pc[q] \/ (q = r /\ pc[q] = "collect" /\ pc'[q] = "lock")
    BY DEF HandlerInv, RequestsInv, TypeOK
  <2>2. Fed(q)'
    BY <1>1, <2>1 DEF HandlerInv, RequestsInv, Fed, Reading, Undisturbed
  <2>3. Based(q)' /\ Owned(q)'
    BY <2>1 DEF HandlerInv, RequestsInv, Based, Owned, Holding
  <2> QED BY <2>2, <2>3
<1> QED BY <1>2, <1>3, <1>4 DEF RequestsInv

LEMMA EndKeeps ==
  ASSUME HandlerInv, NEW r \in Reqs, End(r)
  PROVE  RequestsInv'
<1>1. /\ body \in [Reqs -> BodyType] /\ TypeOK
      /\ body'[r] = Dropped(body[r]) /\ \A q \in Reqs : q # r => body'[q] = body[q]
  BY DEF HandlerInv, RequestsInv, StreamInv, StreamTypeOK, End, SetBody
<1>2. Len(body'[r].queue) = 0 /\ Capacity \in Nat
  BY <1>1, StreamAssumption DEF Dropped, NoBody, BodyType
<1>3. /\ store' = store /\ locking' = locking
      /\ pc'[r] = "idle" /\ job'[r] = Blank
      /\ \A q \in Reqs : q # r => pc'[q] = pc[q] /\ job'[q] = job[q]
      /\ \A id \in Ids : owner'[id] = IF owner[id] = r THEN NoReq ELSE owner[id]
  BY <1>1 DEF End, Goto, TypeOK
<1>4. TypeOK'
  <2>1. /\ owner' \in [Ids -> Reqs \union {NoReq}] /\ pc' \in [Reqs -> PCs]
        /\ job' \in [Reqs -> JobType]
    BY <1>1, BlankType DEF End, Goto, TypeOK, PCs
  <2>2. ASSUME NEW q \in Reqs
        PROVE  /\ pc'[q] = "idle" => job'[q] = Blank
               /\ pc'[q] # "idle" => job'[q].id \in Ids
               /\ Len(body'[q].queue) <= Capacity
    BY <1>1, <1>2, <1>3 DEF TypeOK, Id
  <2> QED BY <1>1, <1>3, <2>1, <2>2 DEF TypeOK, Id
<1>5. StoredIsFile'
  BY <1>3 DEF HandlerInv, RequestsInv, StoredIsFile, BytesOf, Span
<1>6. ASSUME NEW q \in Reqs PROVE Fed(q)' /\ Based(q)' /\ Owned(q)'
  <2>1. CASE q = r
    BY <1>3, <2>1 DEF Fed, Based, Owned, Reading, Holding
  <2>2. CASE q # r
    <3>1. pc[q] \in Holding => Id(q) \in Ids
      BY <1>1 DEF TypeOK, Holding
    <3>2. Fed(q)' /\ Based(q)'
      BY <1>1, <1>3, <2>2 DEF HandlerInv, RequestsInv, Fed, Based
    <3>3. Owned(q)'
      BY <1>3, <2>2, <3>1 DEF HandlerInv, RequestsInv, Owned, Id
    <3> QED BY <3>2, <3>3
  <2> QED BY <2>1, <2>2
<1> QED BY <1>4, <1>5, <1>6 DEF RequestsInv

LEMMA ArriveKeeps ==
  ASSUME HandlerInv, NEW r \in Reqs, NEW id \in Ids, NEW s \in Bodies,
         NEW sum \in Sums(r, s), Arrive(r, id, s, sum)
  PROVE  RequestsInv'
<1> DEFINE j == [Blank EXCEPT !.id = id, !.at = s.lo, !.sum = sum]
           l == IF adapter = "rocket" THEN "collect" ELSE "lock"
<1>1. /\ body \in [Reqs -> BodyType] /\ TypeOK /\ Capacity \in Nat
      /\ body'[r] = NewBody(s) /\ \A q \in Reqs : q # r => body'[q] = body[q]
  BY StreamAssumption
     DEF HandlerInv, RequestsInv, StreamInv, StreamTypeOK, Arrive, Open, SetBody
<1>2. s.lo \in Nat /\ s.hi \in Nat /\ 0 <= s.hi - s.lo /\ 0 \in Nat
  BY StreamAssumption DEF Spans
<1>3. BytesOf(s) \in Seq(Bytes) /\ <<Zero>> \in Seq(Bytes)
  BY <1>2, BodyBytes, StoreAssumption
<1>4. sum \in Seq(Bytes) \union {NoSum}
  BY <1>3 DEF Sums
<1>5. j \in JobType /\ j.id = id /\ j.at = s.lo /\ j.hashed = <<>>
  <2>1. Blank \in JobType /\ Blank.hashed = <<>>
    BY BlankType DEF Blank
  <2> QED BY <1>2, <1>4, <2>1 DEF JobType
<1>6. /\ NewBody(s).ask = s /\ NewBody(s).got = <<>> /\ NewBody(s).reader # "gone"
      /\ Len(NewBody(s).queue) = 0
  BY DEF NewBody, NoBody
<1> HIDE DEF j
<1>7. /\ store' = store /\ locking' = locking /\ owner' = owner
      /\ pc' = [pc EXCEPT ![r] = l] /\ job' = [job EXCEPT ![r] = j]
  BY DEF Arrive, Goto, j
<1>8. /\ pc'[r] \in {"collect", "lock"} /\ job'[r] = j
      /\ \A q \in Reqs : q # r => pc'[q] = pc[q] /\ job'[q] = job[q]
  BY <1>1, <1>7 DEF TypeOK
<1>9. TypeOK'
  <2>1. pc' \in [Reqs -> PCs] /\ job' \in [Reqs -> JobType]
    BY <1>1, <1>5, <1>7 DEF TypeOK, PCs
  <2>2. ASSUME NEW q \in Reqs
        PROVE  /\ pc'[q] = "idle" => job'[q] = Blank
               /\ pc'[q] # "idle" => job'[q].id \in Ids
               /\ Len(body'[q].queue) <= Capacity
    BY <1>1, <1>5, <1>6, <1>8 DEF TypeOK, Id
  <2> QED BY <1>1, <1>7, <2>1, <2>2 DEF TypeOK, Id
<1>10. StoredIsFile'
  BY <1>7 DEF HandlerInv, RequestsInv, StoredIsFile, BytesOf, Span
<1>11. ASSUME NEW q \in Reqs PROVE Fed(q)' /\ Based(q)' /\ Owned(q)'
  <2>1. CASE q = r
    BY <1>1, <1>5, <1>6, <1>8, <2>1 DEF Fed, Based, Owned, Reading, Holding
  <2>2. CASE q # r
    BY <1>1, <1>7, <1>8, <2>2 DEF HandlerInv, RequestsInv, Fed, Based, Owned
  <2> QED BY <2>1, <2>2
<1> QED BY <1>9, <1>10, <1>11 DEF RequestsInv

LEMMA LockKeeps ==
  ASSUME HandlerInv, NEW r \in Reqs, Lock(r)
  PROVE  RequestsInv'
<1>1. TypeOK /\ pc[r] = "lock" /\ Id(r) \in Ids
  BY DEF HandlerInv, RequestsInv, TypeOK, Lock
<1>2. /\ store' = store /\ locking' = locking /\ body' = body /\ job' = job
      /\ pc'[r] = "load" /\ \A q \in Reqs : q # r => pc'[q] = pc[q]
  BY <1>1 DEF Lock, Goto, TypeOK, streamVars
<1>3. TypeOK'
  <2>1. owner' \in [Ids -> Reqs \union {NoReq}] /\ pc' \in [Reqs -> PCs]
    BY <1>1 DEF Lock, Goto, TypeOK, PCs
  <2> QED BY <1>1, <1>2, <2>1 DEF TypeOK, Id
<1>4. StoredIsFile'
  BY <1>2 DEF HandlerInv, RequestsInv, StoredIsFile, BytesOf, Span
<1>5. ASSUME NEW q \in Reqs PROVE Fed(q)' /\ Based(q)' /\ Owned(q)'
  <2>1. Fed(q)' /\ Based(q)'
    BY <1>1, <1>2 DEF HandlerInv, RequestsInv, Fed, Based, Reading
  <2>2. Owned(q)'
    <3> SUFFICES ASSUME locking, pc'[q] \in Holding PROVE owner'[Id(q)] = q
      BY <1>2 DEF Owned, Id
    <3>1. owner[Id(r)] = NoReq /\ owner' = [owner EXCEPT ![Id(r)] = r]
      BY DEF Lock
    <3>2. CASE q = r
      BY <1>1, <3>1, <3>2 DEF TypeOK
    <3>3. CASE q # r
      <4>1. pc[q] \in Holding /\ Id(q) \in Ids /\ owner[Id(q)] = q
        BY <1>1, <1>2, <3>3 DEF HandlerInv, RequestsInv, Owned, TypeOK, Holding, Id
      <4>2. Id(q) # Id(r)
        BY <3>1, <4>1, PatchAssumption
      <4> QED BY <1>1, <3>1, <4>1, <4>2 DEF TypeOK
    <3> QED BY <3>2, <3>3
  <2> QED BY <2>1, <2>2
<1> QED BY <1>3, <1>4, <1>5 DEF RequestsInv

LEMMA LoadKeeps ==
  ASSUME HandlerInv, NEW r \in Reqs, Load(r)
  PROVE  RequestsInv'
<1>1. TypeOK /\ StoredIsFile /\ pc[r] = "load" /\ Id(r) \in Ids
  BY DEF HandlerInv, RequestsInv, TypeOK, Load
<1>2. /\ store' = store /\ locking' = locking /\ body' = body /\ job' = job /\ owner' = owner
      /\ pc'[r] \in {"read", "declare"} /\ \A q \in Reqs : q # r => pc'[q] = pc[q]
  BY <1>1 DEF Load, Goto, TypeOK, streamVars
<1>3. /\ job[r].at <= Len(store[Id(r)].data)
      /\ locking => job[r].at = Len(store[Id(r)].data)
  BY <1>1 DEF Load, Current, StoredIsFile
<1>4. TypeOK'
  <2>1. pc' \in [Reqs -> PCs]
    BY <1>1 DEF Load, Goto, TypeOK, PCs
  <2> QED BY <1>1, <1>2, <2>1 DEF TypeOK, Id
<1>5. StoredIsFile'
  BY <1>1, <1>2 DEF StoredIsFile, BytesOf, Span
<1>6. ASSUME NEW q \in Reqs PROVE Fed(q)' /\ Based(q)' /\ Owned(q)'
  <2>1. Fed(q)' /\ Owned(q)'
    BY <1>1, <1>2 DEF HandlerInv, RequestsInv, Fed, Owned, Reading, Holding
  <2>2. Based(q)'
    BY <1>1, <1>2, <1>3 DEF HandlerInv, RequestsInv, Based, Id
  <2> QED BY <2>1, <2>2
<1> QED BY <1>4, <1>5, <1>6 DEF RequestsInv

LEMMA DeclareKeeps ==
  ASSUME HandlerInv, NEW r \in Reqs, NEW n \in Lengths, Declare(r, n)
  PROVE  RequestsInv'
<1> DEFINE u == [store[Id(r)] EXCEPT !.size = n, !.deferred = FALSE]
<1>1. TypeOK /\ StoredIsFile /\ pc[r] = "declare" /\ Id(r) \in Ids /\ n \in Nat
  BY PatchAssumption DEF HandlerInv, RequestsInv, TypeOK, Declare
<1>2. /\ store' = [store EXCEPT ![Id(r)] = u]
      /\ locking' = locking /\ body' = body /\ job' = job /\ owner' = owner
      /\ pc'[r] = "read" /\ \A q \in Reqs : q # r => pc'[q] = pc[q]
  BY <1>1 DEF Declare, DeclareLength, Goto, TypeOK, streamVars
<1>3. u \in Uploads /\ u.data = store[Id(r)].data /\ u.offset = store[Id(r)].offset
  BY <1>1 DEF TypeOK, Uploads
<1> HIDE DEF u
<1>4. \A id \in Ids : store'[id].data = store[id].data /\ store'[id].offset = store[id].offset
  BY <1>1, <1>2, <1>3 DEF TypeOK
<1>5. TypeOK'
  <2>1. pc' \in [Reqs -> PCs] /\ store' \in [Ids -> Uploads]
    BY <1>1, <1>2, <1>3 DEF Declare, Goto, TypeOK, PCs
  <2> QED BY <1>1, <1>2, <2>1 DEF TypeOK, Id
<1>6. StoredIsFile'
  BY <1>1, <1>2, <1>4 DEF StoredIsFile, BytesOf, Span
<1>7. ASSUME NEW q \in Reqs PROVE Fed(q)' /\ Based(q)' /\ Owned(q)'
  <2>1. Fed(q)' /\ Owned(q)'
    BY <1>1, <1>2 DEF HandlerInv, RequestsInv, Fed, Owned, Reading, Holding
  <2>2. pc'[q] \in {"declare", "read"} => job[q].id \in Ids /\ Based(q)
    BY <1>1, <1>2 DEF HandlerInv, RequestsInv, TypeOK, Id
  <2>3. Based(q)'
    BY <1>1, <1>2, <1>4, <2>2 DEF Based
  <2> QED BY <2>1, <2>3
<1> QED BY <1>5, <1>6, <1>7 DEF RequestsInv

(* The hasher gets just what the reader gave.                              *)
LEMMA ReadBodyKeeps ==
  ASSUME HandlerInv, NEW r \in Reqs, NEW n \in 1..(body[r].cur.hi - body[r].cur.lo),
         ReadBody(r, n)
  PROVE  RequestsInv'
<1> DEFINE b == body[r]
           piece == BytesOf(Span(b.cur.lo, b.cur.lo + n))
           got == b.got \o piece
           c == [b EXCEPT !.got = got, !.cur = Span(b.cur.lo + n, b.cur.hi)]
<1>1. /\ body \in [Reqs -> BodyType] /\ b \in BodyType /\ TypeOK /\ pc[r] = "read"
      /\ b.reader = "ready" /\ Fed(r)
  BY DEF HandlerInv, RequestsInv, StreamInv, StreamTypeOK, ReadBody, Read
<1>2. body' = [body EXCEPT ![r] = c]
  BY DEF ReadBody, Read, SetBody
<1>3. got \in Seq(Nat)
  <2>1. b.cur.lo \in Nat /\ b.cur.hi \in Nat /\ n \in Nat /\ b.got \in Seq(Nat)
    BY <1>1 DEF BodyType, Spans
  <2>2. b.cur.lo <= b.cur.lo + n /\ b.cur.lo + n \in Nat
    BY <2>1
  <2>3. piece \in Seq(Nat)
    BY <2>1, <2>2, BytesOfFacts
  <2> QED BY <2>1, <2>3, ConcatProperties
<1> HIDE DEF piece
<1>4. /\ job' = [job EXCEPT ![r].hashed = got]
      /\ store' = store /\ locking' = locking /\ owner' = owner /\ pc' = pc
  <2>1. job' = [job EXCEPT ![r].hashed = @ \o piece]
    BY DEF ReadBody, piece
  <2>2. job[r].hashed = b.got
    BY <1>1 DEF Fed, Reading
  <2> QED BY <2>1, <2>2 DEF ReadBody
<1> HIDE DEF got
<1>5. /\ body'[r].reader = b.reader /\ body'[r].ask = b.ask /\ body'[r].got = got
      /\ body'[r].queue = b.queue /\ \A q \in Reqs : q # r => body'[q] = body[q]
  BY <1>1, <1>2 DEF BodyType
<1>6. /\ job' \in [Reqs -> JobType] /\ job'[r].hashed = got
      /\ job'[r].id = job[r].id /\ job'[r].at = job[r].at
      /\ \A q \in Reqs : q # r => job'[q] = job[q]
  BY <1>1, <1>3, <1>4 DEF TypeOK, JobType
<1>7. TypeOK'
  BY <1>1, <1>4, <1>5, <1>6 DEF TypeOK, Id
<1>8. StoredIsFile'
  BY <1>4 DEF HandlerInv, RequestsInv, StoredIsFile, BytesOf, Span
<1>9. ASSUME NEW q \in Reqs PROVE Fed(q)' /\ Based(q)' /\ Owned(q)'
  <2>1. CASE q = r
    BY <1>1, <1>4, <1>5, <1>6, <2>1 DEF HandlerInv, RequestsInv, Fed, Based, Owned, Reading
  <2>2. CASE q # r
    BY <1>4, <1>5, <1>6, <2>2 DEF HandlerInv, RequestsInv, Fed, Based, Owned
  <2> QED BY <2>1, <2>2
<1> QED BY <1>7, <1>8, <1>9 DEF RequestsInv

(* The body goes behind the bytes its offset counts: under a locker these  *)
(* are all there are, and without one there may be more.                   *)
LEMMA WriteKeeps ==
  ASSUME HandlerInv, NEW r \in Reqs, Write(r)
  PROVE  RequestsInv'
<1> DEFINE b == body[r]
           id == Id(r)
           at == job[r].at
           n == Len(b.got)
           data == store[id].data
           d == Spliced(data, at, b.got)
           u == Written(store[id], at, b.got)
<1>1. /\ body \in [Reqs -> BodyType] /\ b \in BodyType /\ TypeOK /\ StoredIsFile
      /\ Fed(r) /\ Based(r) /\ Owned(r) /\ pc[r] = "read" /\ b.reader = "eof" /\ Good(b)
      /\ id \in Ids /\ at \in Nat
  BY DEF HandlerInv, RequestsInv, StreamInv, StreamTypeOK, Write, TypeOK, JobType
<1>2. Dropped(b) = NoBody /\ NoBody.queue = <<>> /\ Len(NoBody.queue) = 0 /\ Capacity \in Nat
  BY <1>1, EofIsLast, StreamAssumption DEF HandlerInv, NoBody
<1>3. /\ store' = [store EXCEPT ![id] = u] /\ body' = [body EXCEPT ![r] = NoBody]
      /\ pc' = [pc EXCEPT ![r] = "info"]
      /\ locking' = locking /\ owner' = owner /\ job' = job
  BY <1>2 DEF Write, WriteChunk, SetBody, Goto
<1>4. /\ b.ask \in Bodies /\ at = b.ask.lo /\ n \in Nat /\ n <= b.ask.hi - b.ask.lo
      /\ b.got = BytesOf(Span(at, at + n))
  <2>1. /\ b.ask \in Bodies /\ at = b.ask.lo /\ n \in Nat /\ b.got = BytesOf(Span(at, at + n))
    BY <1>1 DEF Fed, Reading, Good, BodyType
  <2>2. InOrder
    BY InOrderFollows DEF HandlerInv
  <2>3. n = Reach(b)
    BY <1>1, <2>2 DEF InOrder
  <2>4. b.ask.lo \in Nat /\ b.ask.hi \in Nat /\ Limit \in Nat
    BY <1>1, StreamAssumption DEF BodyType, Spans
  <2>5. Reach(b) <= b.ask.hi - b.ask.lo
    BY <2>4 DEF Reach, Lesser
  <2> QED BY <2>1, <2>3, <2>5
<1>5. b.got \in Seq(Bytes)
  BY <1>4, BodyBytes
<1>6. /\ store[id] \in Uploads /\ data \in Seq(Bytes) /\ data = BytesOf(Span(0, Len(data)))
      /\ at <= Len(data) /\ (locking => at = Len(data))
  BY <1>1 DEF TypeOK, Uploads, StoredIsFile, Based, Id
<1>7. /\ d \in Seq(Bytes) /\ d = BytesOf(Span(0, Len(d)))
      /\ at + n <= Len(d) /\ Len(data) <= Len(d)
      /\ at = Len(data) => Len(d) = at + n
  <2> DEFINE bytes == b.got
  <2>1. n \in Nat /\ at \in Nat /\ bytes \in Seq(Bytes) /\ bytes = BytesOf(Span(at, at + n))
    BY <1>1, <1>4, <1>5
  <2>2. /\ Spliced(data, at, bytes) \in Seq(Bytes)
        /\ Spliced(data, at, bytes) = BytesOf(Span(0, Len(Spliced(data, at, bytes))))
        /\ at + n <= Len(Spliced(data, at, bytes))
        /\ Len(data) <= Len(Spliced(data, at, bytes))
        /\ at = Len(data) => Len(Spliced(data, at, bytes)) = at + n
    <3>1. data \in Seq(Bytes) /\ data = BytesOf(Span(0, Len(data))) /\ at <= Len(data)
      BY <1>6
    <3> HIDE DEF n, at, data, bytes
    <3> QED BY <2>1, <3>1, SplicedFile
  <2> QED BY <2>2
<1>8. u = [store[id] EXCEPT !.data = d, !.offset = at + n]
  BY DEF Written
<1> HIDE DEF u, d, n
<1>9. at + n \in Nat
  BY <1>1, <1>4
<1>10. u \in Uploads /\ u.data = d /\ u.offset = at + n
  BY <1>6, <1>7, <1>8, <1>9 DEF Uploads
<1>11. /\ store'[id] = u /\ \A i \in Ids : i # id => store'[i] = store[i]
       /\ pc'[r] = "info" /\ \A q \in Reqs : q # r => pc'[q] = pc[q]
       /\ body'[r] = NoBody /\ \A q \in Reqs : q # r => body'[q] = body[q]
  BY <1>1, <1>3 DEF TypeOK
<1>12. TypeOK'
  <2>1. store' \in [Ids -> Uploads] /\ pc' \in [Reqs -> PCs]
    BY <1>1, <1>3, <1>10 DEF TypeOK, PCs
  <2> QED BY <1>1, <1>2, <1>3, <1>11, <2>1 DEF TypeOK, Id
<1>13. StoredIsFile'
  <2> SUFFICES ASSUME NEW i \in Ids
               PROVE  /\ store'[i].data = BytesOf(Span(0, Len(store'[i].data)))
                      /\ store'[i].offset <= Len(store'[i].data)
                      /\ locking => store'[i].offset = Len(store'[i].data)
    BY <1>3 DEF StoredIsFile, BytesOf, Span
  <2>1. CASE i = id
    BY <1>6, <1>7, <1>10, <1>11, <2>1
  <2>2. CASE i # id
    BY <1>1, <1>11, <2>2 DEF StoredIsFile
  <2> QED BY <2>1, <2>2
<1>14. ASSUME NEW q \in Reqs PROVE Fed(q)' /\ Based(q)' /\ Owned(q)'
  <2>1. CASE q = r
    BY <1>1, <1>3, <1>11, <2>1 DEF Fed, Based, Owned, Reading, Holding, Id
  <2>2. CASE q # r
    <3>1. Fed(q)' /\ Owned(q)'
      BY <1>3, <1>11, <2>2 DEF HandlerInv, RequestsInv, Fed, Owned
    <3>2. ASSUME pc[q] \in {"declare", "read"}
          PROVE  /\ job[q].at <= Len(store'[Id(q)].data)
                 /\ locking => job[q].at = Len(store'[Id(q)].data)
      <4>1. Based(q) /\ Owned(q) /\ Id(q) \in Ids /\ job[q].at \in Nat
        BY <1>1, <3>2 DEF HandlerInv, RequestsInv, TypeOK, JobType, Id
      <4>2. CASE Id(q) # id
        BY <1>11, <3>2, <4>1, <4>2 DEF Based, Id
      <4>3. CASE Id(q) = id
        <5>1. ~locking
          BY <1>1, <2>2, <3>2, <4>1, <4>3 DEF Owned, Holding, Id
        <5>2. job[q].at <= Len(store[id].data) /\ Len(store[id].data) \in Nat /\ Len(d) \in Nat
          BY <1>6, <1>7, <3>2, <4>1, <4>3 DEF Based, Id
        <5> QED BY <1>7, <1>10, <1>11, <4>1, <4>3, <5>1, <5>2
      <4> QED BY <4>2, <4>3
    <3>3. Based(q)'
      BY <1>3, <1>11, <2>2, <3>2 DEF Based, Id
    <3> QED BY <3>1, <3>3
  <2> QED BY <2>1, <2>2
<1> QED BY <1>12, <1>13, <1>14 DEF RequestsInv

-----------------------------------------------------------------------------
LEMMA InitInv == Init => HandlerInv
<1> SUFFICES ASSUME Init PROVE HandlerInv
  OBVIOUS
<1>1. StreamInv
  BY StreamInitInv DEF Init
<1>2. PICK size \in Sizes :
        store = [id \in Ids |-> NewUpload(size, size = NoLen, "plain", <<>>)]
  BY DEF Init
<1>3. /\ NewUpload(size, size = NoLen, "plain", <<>>) \in Uploads
      /\ NewUpload(size, size = NoLen, "plain", <<>>).data = <<>>
      /\ NewUpload(size, size = NoLen, "plain", <<>>).offset = 0
  BY PatchAssumption DEF NewUpload, Uploads, Kinds
<1>4. \A r \in Reqs : pc[r] = "idle" /\ job[r] = Blank /\ Len(body[r].queue) = 0
  BY DEF Init, StreamInit, NoBody
<1>5. TypeOK
  <2>1. store \in [Ids -> Uploads] /\ locking \in BOOLEAN
    BY <1>2, <1>3 DEF Init
  <2>2. /\ owner \in [Ids -> Reqs \union {NoReq}] /\ pc \in [Reqs -> PCs]
        /\ job \in [Reqs -> JobType]
    BY BlankType DEF Init, PCs
  <2> QED BY <1>4, <2>1, <2>2, StreamAssumption DEF TypeOK
<1>6. StoredIsFile
  <2>1. BytesOf(Span(0, 0)) = <<>> /\ Len(<<>>) = 0
    BY BytesOfNothing
  <2> QED BY <1>2, <1>3, <2>1 DEF StoredIsFile
<1>7. \A r \in Reqs : Fed(r) /\ Based(r) /\ Owned(r)
  BY <1>4 DEF Fed, Based, Owned, Reading, Holding
<1> QED BY <1>1, <1>5, <1>6, <1>7 DEF HandlerInv, RequestsInv

LEMMA HandlerStep == HandlerInv /\ [Next]_vars => HandlerInv'
<1> SUFFICES ASSUME HandlerInv, [Next]_vars PROVE HandlerInv'
  OBVIOUS
<1>1. StreamInv'
  BY StepFeeds, StreamStep DEF HandlerInv
<1>2. CASE UNCHANGED vars
  <2>1. UNCHANGED <<adapter, body, store, locking, owner, pc, job>>
    BY <1>2 DEF vars, streamVars
  <2>2. TypeOK'
    BY <2>1 DEF HandlerInv, RequestsInv, TypeOK, Id
  <2>3. StoredIsFile'
    BY <2>1 DEF HandlerInv, RequestsInv, StoredIsFile, BytesOf, Span
  <2>4. \A r \in Reqs : Fed(r)' /\ Based(r)' /\ Owned(r)'
    BY <2>1 DEF HandlerInv, RequestsInv, Fed, Based, Owned
  <2> QED BY <1>1, <2>2, <2>3, <2>4 DEF HandlerInv, RequestsInv
<1>3. ASSUME NEW r \in Reqs, NEW id \in Ids, NEW s \in Bodies, NEW sum \in Sums(r, s),
             Arrive(r, id, s, sum)
      PROVE  RequestsInv'
  BY <1>3, ArriveKeeps
<1>4. ASSUME NEW r \in Reqs, Handle(r) PROVE RequestsInv'
  <2>1. CASE Gather(r)
    <3>1. UNCHANGED pc \/ (pc[r] = "collect" /\ pc' = [pc EXCEPT ![r] = "lock"])
      BY <2>1 DEF Gather, Goto, HandlerInv, RequestsInv, TypeOK
    <3> QED BY <2>1, <3>1, BodyStepKeeps DEF Gather
  <2>2. CASE Fetch(r)
    BY <2>2, BodyStepKeeps DEF Fetch
  <2>3. CASE LockTimeout(r) \/ Answer(r) \/ Mismatch(r) \/ Refuse(r)
    BY <2>3, EndKeeps DEF LockTimeout, Answer, Mismatch, Refuse
  <2> QED
    BY <1>4, <2>1, <2>2, <2>3, LockKeeps, LoadKeeps, DeclareKeeps, ReadBodyKeeps, WriteKeeps
       DEF Handle
<1>5. ASSUME NEW r \in Reqs, Cancel(r) PROVE RequestsInv'
  BY <1>5, EndKeeps DEF Cancel
<1>6. ASSUME NEW r \in Reqs, Beside(r) PROVE RequestsInv'
  BY <1>6, BodyStepKeeps DEF Beside
<1> QED
  BY <1>1, <1>2, <1>3, <1>4, <1>5, <1>6 DEF HandlerInv, Next

LEMMA HandlerHolds == Spec => []HandlerInv
  BY InitInv, HandlerStep, PTL DEF Spec

-----------------------------------------------------------------------------
(* The handler uses the body as an adapter offers it: each of its steps is *)
(* a step of BodyStream, or none of it, so that what holds of the body     *)
(* whatever a handler does (BodyInOrder) holds of this handler.            *)
THEOREM HandlerFeeds == Spec => StreamSpec
<1>1. Init => StreamInit
  BY DEF Init
<1> QED
  BY <1>1, InitInv, HandlerStep, StepFeeds, PTL DEF Spec, StreamSpec

(* What PATCH reads of a body is its beginning, and all of it at its end:  *)
(* the chunks, the channel, Rocket's buffer and a broken connection lose,  *)
(* repeat and reorder nothing (scope.rs 113-161, router.rs 62-72,          *)
(* routes.rs 91-103).                                                      *)
THEOREM PatchInOrder == Spec => []InOrder
<1>1. HandlerInv => InOrder
  BY InOrderFollows DEF HandlerInv
<1> QED BY <1>1, HandlerHolds, PTL

(* Type correctness, and the bound of the channel (scope.rs 76).           *)
THEOREM PatchTypeOK == Spec => []TypeOK
<1>1. HandlerInv => TypeOK
  BY DEF HandlerInv, RequestsInv
<1> QED BY <1>1, HandlerHolds, PTL

(* The store holds the first bytes of the file with or without a locker,   *)
(* and under one its offset is their number (memory store.rs 86-119).      *)
THEOREM PatchStoredIsFile == Spec => []StoredIsFile
<1>1. HandlerInv => StoredIsFile
  BY DEF HandlerInv, RequestsInv
<1> QED BY <1>1, HandlerHolds, PTL

(* write_chunk gets a body that came through to its end and, with a        *)
(* checksum, the bytes this is the checksum of; and a right checksum is    *)
(* never refused (patch.rs 111-124, checksum.rs 89-116).                   *)
THEOREM PatchWhole == Spec => WholeBodyOrNothing
<1> DEFINE through(r) == BytesOf(Span(body[r].ask.lo, body[r].ask.lo + Reach(body[r])))
           Whole == \A r \in Reqs :
                      /\ Write(r) => body[r].got = through(r)
                                     /\ job[r].sum \in {NoSum, through(r)}
                      /\ Mismatch(r) => job[r].sum # through(r)
<1>1. HandlerInv => Whole
  <2> SUFFICES ASSUME HandlerInv, NEW r \in Reqs, pc[r] = "read", body[r].reader = "eof"
               PROVE  /\ body[r].got = through(r)
                      /\ Verified(r) <=> job[r].sum \in {NoSum, through(r)}
    BY DEF Write, Mismatch
  <2>1. InOrder /\ Fed(r)
    BY InOrderFollows DEF HandlerInv, RequestsInv
  <2>2. body[r].got = through(r)
    BY <2>1 DEF InOrder
  <2>3. job[r].hashed = body[r].got
    BY <2>1 DEF Fed, Reading
  <2> QED BY <2>2, <2>3 DEF Verified
<1>2. HandlerInv /\ [Next]_vars => [Whole]_vars
  BY <1>1
<1> QED
  BY <1>2, HandlerHolds, PTL DEF Spec, WholeBodyOrNothing

=============================================================================
