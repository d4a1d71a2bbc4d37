----------------------------- MODULE BodyStream ------------------------------
(***************************************************************************)
(* How the body of a request gets from the connection to the handler, in   *)
(* the three framework adapters:                                           *)
(*   axum    the reader polls the body stream itself;                      *)
(*   actix   a task of its own polls the payload and sends what it gets    *)
(*           into a bounded channel, from which ChannelReader is fed;      *)
(*   rocket  the body is collected, up to a limit, before the handler is   *)
(*           called, and the reader is a cursor over it.                   *)
(* The handler reads through AsyncRead; it may drop the reader at any time *)
(* and the connection may break at any time.  The bytes of a body are the  *)
(* places of a client's file, so that a piece of it is a span lo+1..hi.    *)
(***************************************************************************)
EXTENDS Naturals, Sequences

CONSTANTS
  Reqs,      (* requests; the server runs a handler for each                *)
  Adapters,  (* subset of {"axum", "actix", "rocket"}                       *)
  Bodies,    (* the spans that clients send                                 *)
  Capacity,  (* capacity of the channel (8 in the code)                     *)
  Limit,     (* the most bytes Rocket collects                              *)
  MaxEmpty,  (* bound: MaxEmpty[r] chunks without bytes in a body of r      *)
  Broken,    (* the item of a stream that failed                            *)
  Eof        (* the stream has no further item                              *)

Spans == {s \in [lo : Nat, hi : Nat] : s.lo <= s.hi}

ASSUME StreamAssumption ==
  /\ Adapters \subseteq {"axum", "actix", "rocket"}
  /\ Bodies \subseteq Spans
  /\ Capacity \in Nat \ {0} /\ Limit \in Nat /\ MaxEmpty \in [Reqs -> Nat]
  /\ Broken \notin Spans /\ Eof \notin Spans /\ Broken # Eof

VARIABLES
  adapter,  (* the framework the server is built with                       *)
  body      (* body[r]: the way of the body of r                            *)

streamVars == <<adapter, body>>

Span(lo, hi) == [lo |-> lo, hi |-> hi]
BytesOf(s) == [i \in 1..(s.hi - s.lo) |-> s.lo + i]
IsEmpty(s) == s.lo = s.hi

(* ask: the whole body; pos: the place up to which the connection gave it; *)
(* wire: the connection; hollow: chunks without bytes so far; task, held:  *)
(* the payload task and the item in its hands; queue: the channel; cur:    *)
(* what the reader still has of a chunk; got: what the handler read;       *)
(* reader: what the handler knows of the body, "gone" when it is dropped.  *)
NoBody ==
  [ask |-> Span(0, 0), pos |-> 0, wire |-> "ended", hollow |-> 0,
   task |-> "gone", held |-> Eof, queue |-> <<>>, cur |-> Span(0, 0), got |-> <<>>,
   reader |-> "gone"]

NewBody(s) ==
  [NoBody EXCEPT
     !.ask = s, !.pos = s.lo, !.wire = "open", !.cur = Span(s.lo, s.lo),
     !.task = IF adapter = "actix" THEN "pull" ELSE "gone",
     !.reader = IF adapter = "rocket" THEN "collect" ELSE "ready"]

StreamInit ==
  /\ adapter \in Adapters
  /\ body = [r \in Reqs |-> NoBody]

SetBody(r, b) == body' = [body EXCEPT ![r] = b] /\ UNCHANGED adapter

-----------------------------------------------------------------------------
(* The connection *)

(* A request with this body is routed to the handler. *)
Open(r, s) ==
  /\ body[r] = NoBody
  /\ SetBody(r, NewBody(s))

(* The client goes away before the end of the body was seen. *)
Break(r) ==
  /\ body[r].wire = "open"
  /\ SetBody(r, [body[r] EXCEPT !.wire = "broken"])

(* What the next poll of the body stream may yield: a chunk, which may     *)
(* have no bytes; the end, after the last byte; an error, once, when the   *)
(* connection broke.                                                       *)
Yields(r) ==
  LET b == body[r]
      least == IF b.hollow < MaxEmpty[r] THEN b.pos ELSE b.pos + 1
  IN CASE b.wire = "open" ->
            {Span(b.pos, hi) : hi \in least..b.ask.hi}
              \union (IF b.pos = b.ask.hi THEN {Eof} ELSE {})
       [] b.wire = "broken" -> {Broken}
       [] b.wire = "ended" -> {Eof}

Yielded(b, item) ==
  IF item \in {Broken, Eof}
  THEN [b EXCEPT !.wire = "ended"]
  ELSE [b EXCEPT !.pos = item.hi, !.hollow = IF IsEmpty(item) THEN @ + 1 ELSE @]

-----------------------------------------------------------------------------
(* Actix: the payload task and the channel *)

(* payload.next().await; without a further item the task ends and closes   *)
(* the channel.                                                            *)
Pull(r) ==
  /\ body[r].task = "pull"
  /\ \E item \in Yields(r) :
       SetBody(r, IF item = Eof
                  THEN [Yielded(body[r], item) EXCEPT !.task = "gone"]
                  ELSE [Yielded(body[r], item) EXCEPT !.task = "push", !.held = item])

(* Mutated form: the channel is unbounded. *)
PushAnyway(r) ==
  /\ body[r].task = "push" /\ body[r].reader # "gone"
  /\ SetBody(r, [body[r] EXCEPT !.queue = Append(@, body[r].held),
                   !.held = Eof, !.task = "pull"])

(* tx.send(item).await waits for room in the channel. *)
Push(r) ==
  /\ body[r].task = "push" /\ body[r].reader # "gone"
  /\ Len(body[r].queue) < Capacity
  /\ SetBody(r, [body[r] EXCEPT !.queue = Append(@, body[r].held),
                   !.held = Eof, !.task = "pull"])

(* The reader was dropped: send fails, and the task ends. *)
PushFails(r) ==
  /\ body[r].task = "push" /\ body[r].reader = "gone"
  /\ SetBody(r, NoBody)

(* Mutated form: a chunk without bytes is the end of the body. *)
ReceiveEmptyIsEof(r) ==
  LET b == body[r]
      item == Head(b.queue)
  IN /\ adapter = "actix" /\ b.reader = "ready" /\ IsEmpty(b.cur) /\ b.queue # <<>>
     /\ SetBody(r, IF item = Broken
                   THEN [b EXCEPT !.queue = Tail(@), !.reader = "failed"]
                   ELSE [b EXCEPT !.queue = Tail(@), !.cur = item,
                           !.reader = IF IsEmpty(item) THEN "eof" ELSE @])

(* ChannelReader::poll_read has nothing left of a chunk and takes the next *)
(* item; a chunk without bytes is passed over, for it would read as the    *)
(* end of the body.                                                        *)
Receive(r) ==
  LET b == body[r]
      item == Head(b.queue)
  IN /\ adapter = "actix" /\ b.reader = "ready" /\ IsEmpty(b.cur) /\ b.queue # <<>>
     /\ SetBody(r, IF item = Broken
                   THEN [b EXCEPT !.queue = Tail(@), !.reader = "failed"]
                   ELSE [b EXCEPT !.queue = Tail(@), !.cur = item])

(* The channel is empty and its sender gone: the end of the body. *)
ReceiveEof(r) ==
  LET b == body[r]
  IN /\ adapter = "actix" /\ b.reader = "ready" /\ IsEmpty(b.cur)
     /\ b.queue = <<>> /\ b.task = "gone"
     /\ SetBody(r, [b EXCEPT !.reader = "eof"])

-----------------------------------------------------------------------------
(* Axum: StreamReader over the body stream *)

TakeChunk(r) ==
  LET b == body[r]
  IN /\ adapter = "axum" /\ b.reader = "ready" /\ IsEmpty(b.cur)
     /\ \E item \in Yields(r) :
          SetBody(r, CASE item = Broken -> [Yielded(b, item) EXCEPT !.reader = "failed"]
                       [] item = Eof -> [Yielded(b, item) EXCEPT !.reader = "eof"]
                       [] OTHER -> [Yielded(b, item) EXCEPT !.cur = item])

-----------------------------------------------------------------------------
(* Rocket: the body is collected first *)

Lesser(m, n) == IF m < n THEN m ELSE n

(* read_to_end of the data stream: what is beyond the limit is left alone. *)
Collect(r) ==
  LET b == body[r]
      most == b.ask.lo + Limit
  IN /\ b.reader = "collect"
     /\ IF b.cur.hi = most
        THEN SetBody(r, [b EXCEPT !.reader = "ready", !.wire = "ended"])
        ELSE \E item \in Yields(r) :
               SetBody(r, CASE item = Broken -> [Yielded(b, item) EXCEPT !.reader = "failed"]
                            [] item = Eof -> [Yielded(b, item) EXCEPT !.reader = "ready"]
                            [] OTHER -> [Yielded(b, item) EXCEPT
                                           !.cur.hi = Lesser(item.hi, most)])

(* The cursor is at its end. *)
CursorEof(r) ==
  LET b == body[r]
  IN /\ adapter = "rocket" /\ b.reader = "ready" /\ IsEmpty(b.cur)
     /\ SetBody(r, [b EXCEPT !.reader = "eof"])

-----------------------------------------------------------------------------
(* The handler's side *)

(* poll_read copies as much of the chunk as the caller's buffer takes.     *)
Read(r, n) ==
  LET b == body[r]
      piece == Span(b.cur.lo, b.cur.lo + n)
  IN /\ b.reader = "ready" /\ n \in 1..(b.cur.hi - b.cur.lo)
     /\ SetBody(r, [b EXCEPT !.got = @ \o BytesOf(piece), !.cur = Span(b.cur.lo + n, b.cur.hi)])

(* Mutated form: the receiver is kept when the handler is done with it. *)
DroppedHeld(b) ==
  IF b.task = "gone" THEN NoBody ELSE [b EXCEPT !.reader = "failed"]

(* The handler returns, or its future is dropped, and the reader with it.  *)
(* A payload task that is still there ends when it next sends, or at the   *)
(* end of the stream.                                                      *)
Dropped(b) ==
  IF b.task = "gone" THEN NoBody
  ELSE [b EXCEPT !.reader = "gone", !.queue = <<>>, !.cur = Span(0, 0), !.got = <<>>]

Drop(r) ==
  /\ body[r].reader # "gone"
  /\ SetBody(r, Dropped(body[r]))

(* The task of a dropped reader found the end of the stream. *)
Forget(r) ==
  /\ body[r].reader = "gone" /\ body[r].task = "gone" /\ body[r] # NoBody
  /\ SetBody(r, NoBody)

Fill(r) == Receive(r) \/ ReceiveEof(r) \/ TakeChunk(r) \/ CursorEof(r)
Task(r) == Pull(r) \/ Push(r) \/ PushFails(r) \/ Forget(r)

StreamNext ==
  \E r \in Reqs :
    \/ \E s \in Bodies : Open(r, s)
    \/ Break(r) \/ Task(r) \/ Fill(r) \/ Collect(r)
    \/ \E n \in 1..(body[r].cur.hi - body[r].cur.lo) : Read(r, n)
    \/ Drop(r)

StreamSpec == StreamInit /\ [][StreamNext]_streamVars

-----------------------------------------------------------------------------
(* The number of bytes of a body that can get through. *)
Reach(b) ==
  IF adapter = "rocket" THEN Lesser(b.ask.hi - b.ask.lo, Limit) ELSE b.ask.hi - b.ask.lo

(* scope.rs 113-161, router.rs 62-72, routes.rs 91-103: what the handler   *)
(* read is the body from its first byte on, in order, however it was cut   *)
(* into chunks, queued and read; and when the reader says that the body    *)
(* has ended, the whole of it was read (but for Rocket's limit), although  *)
(* the connection may have broken and the channel may hold chunks.         *)
InOrder ==
  \A r \in Reqs : body[r].reader # "gone" =>
    LET b == body[r]
    IN /\ b.got = BytesOf(Span(b.ask.lo, b.ask.lo + Len(b.got)))
       /\ b.reader = "eof" => Len(b.got) = Reach(b)

=============================================================================
