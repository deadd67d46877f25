------------------------------ MODULE ClientTap ------------------------------
(***************************************************************************)
(* The client's side of a public connection: NewConnection is given to the *)
(* local service of a registered tunnel, bytes are copied in both          *)
(* directions, and the HTTP tap watches the copy.  Each pump hands a chunk *)
(* to the tap after it has written it, so what the tap sees of the two     *)
(* directions may be in another order than what happened on the wire.      *)
(* Finished exchanges go to the inspector's ring, from which they can be   *)
(* replayed.  (client proxy.rs, inspect/tap.rs, inspect/mod.rs,            *)
(* inspect/server.rs, control.rs)                                          *)
(*                                                                         *)
(* A byte stream is a sequence of tokens: a message head, a byte of a      *)
(* body, and the lines of the chunked encoding.  Reads and writes cut the  *)
(* sequence anywhere, as TCP does.                                         *)
(***************************************************************************)
EXTENDS Integers, Sequences, FiniteSets, SequencesExt

CONSTANTS
  Registered,       \* the registered tunnels, in order: [label, proto, local]
  Conns,         \* public connections
  HttpConns,     \* the ones that come in on an HTTP tunnel
  Scripts,       \* what visitor and service may say on an HTTP connection
  MaxPending,    \* MAX_PENDING (64)
  RingCap,       \* RING_CAPACITY (500)
  BodyCap,       \* BODY_CAP (64 KiB)
  ChunkCap,      \* COPY_BUF (16 KiB)
  MaxReplays     \* bound on the replays of one behaviour

ASSUME TapConstants == IsFiniteSet(Conns) /\ Registered \in Seq(Range(Registered))

VARIABLES
  conn,          \* the proxy task of each connection
  pump,          \* tokens read, written and shown to the tap, by direction
  tap,           \* the TapState of each connection
  skew,          \* the tap has seen a response before its request, or evicted one
  log,           \* what each connection has recorded, in order
  store,         \* Inspector.store, oldest first
  nextId,        \* Inspector.next_id
  connsOpen,     \* Stats.conns_open
  replay         \* replays under way and done

tapVars == <<conn, pump, tap, skew, log, store, nextId, connsOpen, replay>>

Dirs == {"up", "down"}
Unknown == -1    \* the "?" of an exchange whose request was not seen
NoTunnel == [label |-> "-", proto |-> "-", local |-> "-"]

-----------------------------------------------------------------------------
(* What travels on a connection.  An exchange of a script is
   [method, rq, status, interim, rs]: rq and rs are the advertised bodies. *)

Tok(k, of, n) == [k |-> k, of |-> of, n |-> n]
Times(n, tok) == [i \in 1..n |-> tok]

BodyTokens(b, i) ==
  CASE b.f = "none" -> <<>>
    [] b.f \in {"length", "eof"} -> Times(b.n, Tok("byte", i, 0))
    [] b.f = "chunked" ->
         (IF b.n = 0 THEN <<>>
          ELSE <<Tok("size", i, b.n)>> \o Times(b.n, Tok("byte", i, 0)) \o Times(2, Tok("crlf", i, 0)))
         \o <<Tok("size", i, 0), Tok("trailer", i, 0), Tok("blank", i, 0)>>

\* A response to HEAD and a 204 advertise a body and carry none.
CarriesBody(e) == e.method # "HEAD" /\ e.status \notin {"204", "101"}
Carried(e) == IF CarriesBody(e) THEN e.rs ELSE [f |-> "none", n |-> 0]

\* After 101 the connection is not HTTP any more, whatever it may look like.
Raw(s) == IF s # <<>> /\ Last(s).status = "101" THEN <<Tok("head", 0, 0)>> ELSE <<>>

RequestStream(s) ==
  FlattenSeq([i \in DOMAIN s |-> <<Tok("head", i, 0)>> \o BodyTokens(s[i].rq, i)]) \o Raw(s)
ResponseStream(s) ==
  FlattenSeq([i \in DOMAIN s |-> Times(s[i].interim, Tok("interim", i, 0))
                                 \o <<Tok("head", i, 0)>> \o BodyTokens(Carried(s[i]), i)]) \o Raw(s)

Stream(s, d) == IF d = "up" THEN RequestStream(s) ELSE ResponseStream(s)
HeadPos(st, i) == CHOOSE p \in DOMAIN st : st[p].k = "head" /\ st[p].of = i

\* The service answers a request once its head has reached it, perhaps before
\* the body has; the visitor leaves HTTP once the 101 has reached it.
Sayable(c, d, p) ==
  LET s == conn[c].script
      tok == Stream(s, d)[p]
  IN IF d = "down"
     THEN tok.of = 0 \/ pump[c]["up"].written >= HeadPos(RequestStream(s), tok.of)
     ELSE tok.of = 0 => pump[c]["down"].written >= HeadPos(ResponseStream(s), Len(s))

RawShape == [method |-> "GET", rq |-> [f |-> "none", n |-> 0], status |-> "200",
             interim |-> 0, rs |-> [f |-> "none", n |-> 0]]
Shape(s, tok) == IF tok.of = 0 THEN RawShape ELSE s[tok.of]

-----------------------------------------------------------------------------
(* inspect/tap.rs *)

InHead == [mode |-> "head", left |-> 0]
Passthrough == [mode |-> "pass", left |-> 0]
EmptyBody == [total |-> 0, kept |-> 0]
NewTap == [rq |-> InHead, rs |-> InHead, pending |-> <<>>, current |-> <<>>, out |-> <<>>]

\* Body::push
Push(b) == [total |-> b.total + 1, kept |-> IF b.kept < BodyCap THEN b.kept + 1 ELSE b.kept]

\* The parser's mode for a body, or InHead when there is none.
Framed(b) ==
  CASE b.f = "chunked" -> [mode |-> "size", left |-> 0]
    [] b.f = "length" /\ b.n > 0 -> [mode |-> "length", left |-> b.n]
    [] b.f = "eof" -> [mode |-> "eof", left |-> 0]
    [] OTHER -> InHead

request_framing(e) == IF e.rq.f = "eof" THEN InHead ELSE Framed(e.rq)

\* Variant: HEAD is forgotten.
response_framing_head(e, method) ==
  IF e.status \in {"204", "304"} THEN InHead
  ELSE Framed(IF e.rs.f = "none" THEN [f |-> "length", n |-> 0] ELSE e.rs)

\* `method` is that of the oldest pending request.
response_framing(e, method) ==
  IF e.status \in {"204", "304"} \/ method = "HEAD" THEN InHead
  ELSE Framed(IF e.rs.f = "none" THEN [f |-> "length", n |-> 0] ELSE e.rs)

\* Framing::feed and ChunkScanner::feed on one token: the new framing, whether
\* the token is body data, and whether the body ends here.  A size line that
\* does not parse ends the body.
Feed(p, tok) ==
  CASE p.mode = "length" -> [p |-> [p EXCEPT !.left = @ - 1], sunk |-> TRUE, done |-> p.left = 1]
    [] p.mode = "eof" -> [p |-> p, sunk |-> TRUE, done |-> FALSE]
    [] p.mode = "size" ->
         [p |-> IF tok.n = 0 THEN [mode |-> "trailer", left |-> 0] ELSE [mode |-> "data", left |-> tok.n],
          sunk |-> FALSE, done |-> tok.k # "size"]
    [] p.mode = "data" ->
         [p |-> IF p.left = 1 THEN [mode |-> "crlf", left |-> 2] ELSE [p EXCEPT !.left = @ - 1],
          sunk |-> TRUE, done |-> FALSE]
    [] p.mode = "crlf" ->
         [p |-> IF p.left = 1 THEN [mode |-> "size", left |-> 0] ELSE [p EXCEPT !.left = @ - 1],
          sunk |-> FALSE, done |-> FALSE]
    [] p.mode = "trailer" -> [p |-> p, sunk |-> FALSE, done |-> tok.k = "blank"]

Enqueue(pending, i) ==
  Append(IF Len(pending) >= MaxPending THEN Tail(pending) ELSE pending, [of |-> i, body |-> EmptyBody])

feed_request(s, t, tok) ==
  CASE t.rq.mode = "pass" -> t
    [] t.rq.mode = "head" /\ tok.k = "head" ->
         [t EXCEPT !.pending = Enqueue(@, tok.of), !.rq = request_framing(Shape(s, tok))]
    [] t.rq.mode = "head" /\ tok.k # "head" -> [t EXCEPT !.rq = Passthrough]
    [] OTHER ->
         LET f == Feed(t.rq, tok) IN
         [t EXCEPT !.rq = IF f.done THEN InHead ELSE f.p,
                   !.pending = IF f.sunk /\ @ # <<>>
                               THEN [@ EXCEPT ![Len(@)].body = Push(@)] ELSE @]

\* The oldest pending request is the one the response answers; without one it
\* is recorded as "?".
complete_exchange(t) ==
  IF t.current = <<>> THEN t
  ELSE LET req == IF t.pending = <<>> THEN [of |-> Unknown, body |-> EmptyBody] ELSE Head(t.pending)
           res == Head(t.current)
       IN [t EXCEPT !.current = <<>>,
                    !.pending = IF @ = <<>> THEN @ ELSE Tail(@),
                    !.out = Append(@, [rq |-> req.of, rs |-> res.of,
                                       rqBody |-> req.body, rsBody |-> res.body])]

\* Interim responses complete nothing; a 101 ends the parsing of both sides.
feed_response(s, t, tok) ==
  CASE t.rs.mode = "pass" -> t
    [] t.rs.mode = "head" /\ tok.k = "interim" -> t
    [] t.rs.mode = "head" /\ tok.k = "head" ->
         LET e == Shape(s, tok)
             method == IF t.pending = <<>> THEN "?" ELSE Shape(s, Head(t.pending)).method
             started == [t EXCEPT !.current = <<[of |-> tok.of, body |-> EmptyBody]>>]
             framing == response_framing(e, method)
         IN IF e.status = "101" THEN [complete_exchange(started) EXCEPT !.rq = Passthrough, !.rs = Passthrough]
            ELSE IF framing = InHead THEN complete_exchange(started)
            ELSE [started EXCEPT !.rs = framing]
    [] t.rs.mode = "head" /\ tok.k \notin {"head", "interim"} -> [t EXCEPT !.rs = Passthrough]
    [] OTHER ->
         LET f == Feed(t.rs, tok)
             fed == [t EXCEPT !.rs = f.p,
                              !.current = IF f.sunk /\ @ # <<>> THEN <<[@[1] EXCEPT !.body = Push(@)]>> ELSE @]
         IN IF f.done THEN [complete_exchange(fed) EXCEPT !.rs = InHead] ELSE fed

observe(s, t, d, toks) ==
  FoldLeft(LAMBDA acc, tok : IF d = "up" THEN feed_request(s, acc, tok) ELSE feed_response(s, acc, tok), t, toks)

\* Variant: a body that only the end of the connection delimits is dropped.
finish_drops(t) == t

finish(t) == IF t.rs.mode = "eof" THEN complete_exchange(t) ELSE t

-----------------------------------------------------------------------------
(* inspect/mod.rs, inspect/server.rs *)

RingStore(st, e) == Append(IF Len(st) = RingCap THEN Tail(st) ELSE st, e)

\* Inspector::record, for each of `entries` in turn.
record(entries) ==
  /\ store' = FoldLeft(LAMBDA st, j : RingStore(st, [id |-> nextId + j - 1] @@ entries[j]),
                       store, [j \in DOMAIN entries |-> j])
  /\ nextId' = nextId + Len(entries)

\* The tap of c becomes t, and what it has completed is recorded.
Adopt(c, t) ==
  /\ tap' = [tap EXCEPT ![c] = [t EXCEPT !.out = <<>>]]
  /\ log' = [log EXCEPT ![c] = @ \o t.out]
  /\ record([j \in DOMAIN t.out |->
              [conn |-> c, label |-> conn[c].label, served |-> conn[c].local,
               rq |-> t.out[j].rq, rs |-> t.out[j].rs, replayed |-> FALSE]])

SameProtocol(p, q) == p = q \/ {p, q} \subseteq {"http", "https"}
\* The first of the registered tunnels that are at one of these places.
FirstTunnel(found) == IF found = {} THEN NoTunnel ELSE Registered[Min(found)]

\* Variant: any registered tunnel will do.
find_local_target_any(proto) == Head(Registered)

\* The first registered tunnel of the protocol: NewConnection does not say more.
find_local_target(proto) == FirstTunnel({i \in DOMAIN Registered : SameProtocol(Registered[i].proto, proto)})

\* Variant: without a tunnel of that name the first one is taken.
local_addr_for_fallback(label) == Head(Registered).local

local_addr_for(label) == FirstTunnel({i \in DOMAIN Registered : Registered[i].label = label}).local

-----------------------------------------------------------------------------
(* A connection: control.rs spawn_proxy, proxy.rs proxy_connection *)

Idle == [phase |-> "new", via |-> NoTunnel, local |-> "-", label |-> "-", script |-> <<>>]
AtStart == [read |-> 0, written |-> 0, seen |-> 0]

TapInit ==
  /\ conn = [c \in Conns |-> Idle]
  /\ pump = [c \in Conns |-> [d \in Dirs |-> AtStart]]
  /\ tap = [c \in Conns |-> NewTap]
  /\ skew = [c \in Conns |-> FALSE]
  /\ log = [c \in Conns |-> <<>>]
  /\ store = <<>> /\ nextId = 1
  /\ connsOpen = 0
  /\ replay = <<>>

\* NewConnection arrives for a visitor of tunnel v, and its stream with it: the
\* proxy task starts with its ConnGuard.
SpawnProxy(c, v, s) ==
  /\ conn[c].phase = "new"
  /\ c \in HttpConns <=> SameProtocol(v.proto, "http")
  /\ LET t == find_local_target(v.proto) IN
     conn' = [conn EXCEPT ![c] = [phase |-> "connecting", via |-> v, local |-> t.local,
                                  label |-> t.label, script |-> s]]
  /\ connsOpen' = connsOpen + 1
  /\ UNCHANGED <<pump, tap, skew, log, store, nextId, replay>>

LocalConnected(c) ==
  /\ conn[c].phase = "connecting"
  /\ conn' = [conn EXCEPT ![c].phase = "copying"]
  /\ UNCHANGED <<pump, tap, skew, log, store, nextId, connsOpen, replay>>

\* Variant: only the normal end of the copy takes the gauge down.
ConnectFails_leaks(c) ==
  /\ conn[c].phase = "connecting"
  /\ conn' = [conn EXCEPT ![c].phase = "done"]
  /\ UNCHANGED <<pump, tap, skew, log, store, nextId, connsOpen, replay>>

\* Nothing listens on the local port: the task returns, and drops its guard.
ConnectFails(c) ==
  /\ conn[c].phase = "connecting"
  /\ conn' = [conn EXCEPT ![c].phase = "done"]
  /\ connsOpen' = connsOpen - 1
  /\ UNCHANGED <<pump, tap, skew, log, store, nextId, replay>>

\* reader.read fills the buffer once the last chunk is written and observed.
PumpRead(c, d) ==
  /\ conn[c].phase = "copying"
  /\ pump[c][d].read = pump[c][d].seen
  /\ \E n \in 1..ChunkCap :
       /\ pump[c][d].read + n <= Len(Stream(conn[c].script, d))
       /\ \A p \in pump[c][d].read + 1 .. pump[c][d].read + n : Sayable(c, d, p)
       /\ pump' = [pump EXCEPT ![c][d].read = @ + n]
  /\ UNCHANGED <<conn, tap, skew, log, store, nextId, connsOpen, replay>>

\* The tap is shown a response, or a byte of what follows the upgrade, before
\* the message it belongs to; or it has to forget a pending request.
Overtakes(c, d, t) ==
  LET s == conn[c].script
      chunk == SubSeq(Stream(s, d), pump[c][d].seen + 1, pump[c][d].read)
      shown(dd, i) == pump[c][dd].seen >= HeadPos(Stream(s, dd), i)
  IN \/ \E p \in DOMAIN chunk :
          IF d = "down" THEN chunk[p].of # 0 /\ chunk[p].k = "head" /\ ~shown("up", chunk[p].of)
          ELSE chunk[p].of = 0 /\ ~shown("down", Len(s))
     \/ d = "up" /\ Len(tap[c].pending) + Cardinality({p \in DOMAIN chunk : chunk[p].k = "head"}) > MaxPending

\* A part of write_all was accepted; the pump waits for the rest.
PumpWritePart(c, d) ==
  /\ conn[c].phase = "copying"
  /\ \E w \in pump[c][d].written + 1 .. pump[c][d].read - 1 : pump' = [pump EXCEPT ![c][d].written = w]
  /\ UNCHANGED <<conn, tap, skew, log, store, nextId, connsOpen, replay>>

\* write_all and flush return, and the chunk is observed.
PumpWritten(c, d) ==
  /\ conn[c].phase = "copying"
  /\ pump[c][d].seen < pump[c][d].read
  /\ pump' = [pump EXCEPT ![c][d].written = pump[c][d].read, ![c][d].seen = pump[c][d].read]
  /\ LET s == conn[c].script IN
     Adopt(c, observe(s, tap[c], d, SubSeq(Stream(s, d), pump[c][d].seen + 1, pump[c][d].read)))
  /\ skew' = [skew EXCEPT ![c] = @ \/ Overtakes(c, d, tap[c])]
  /\ UNCHANGED <<conn, connsOpen, replay>>

AllCopied(c) == \A d \in Dirs : pump[c][d].seen = Len(Stream(conn[c].script, d))

\* Both directions ended, or one failed and took the other with it.
CloseConn(c) ==
  /\ conn[c].phase = "copying"
  /\ conn' = [conn EXCEPT ![c].phase = IF AllCopied(c) THEN "done" ELSE "broken"]
  /\ connsOpen' = connsOpen - 1
  /\ Adopt(c, finish(tap[c]))
  /\ UNCHANGED <<pump, skew, replay>>

-----------------------------------------------------------------------------
(* The inspector's page *)

clear ==
  /\ store # <<>>
  /\ store' = <<>>
  /\ UNCHANGED <<conn, pump, tap, skew, log, nextId, connsOpen, replay>>

\* replay_request up to send().await.  The method "?" is refused.
ReplaySend(i) ==
  /\ Len(replay) < MaxReplays
  /\ store[i].rq # Unknown
  /\ replay' = Append(replay, [of |-> store[i], target |-> local_addr_for(store[i].label), state |-> "sent"])
  /\ UNCHANGED <<conn, pump, tap, skew, log, store, nextId, connsOpen>>

\* The answer is recorded as an exchange of its own.
ReplayAnswered(r) ==
  /\ replay[r].state = "sent"
  /\ replay' = [replay EXCEPT ![r].state = "ended"]
  /\ record(<<[conn |-> replay[r].of.conn, label |-> replay[r].of.label, served |-> replay[r].target,
               rq |-> replay[r].of.rq, rs |-> Unknown, replayed |-> TRUE]>>)
  /\ UNCHANGED <<conn, pump, tap, skew, log, connsOpen>>

ReplayFails(r) ==
  /\ replay[r].state = "sent"
  /\ replay' = [replay EXCEPT ![r].state = "ended"]
  /\ UNCHANGED <<conn, pump, tap, skew, log, store, nextId, connsOpen>>

TapNext ==
  \/ \E c \in Conns :
       \/ \E v \in Range(Registered), s \in IF c \in HttpConns THEN Scripts ELSE {<<>>} : SpawnProxy(c, v, s)
       \/ LocalConnected(c) \/ ConnectFails(c) \/ CloseConn(c)
       \/ \E d \in Dirs : PumpRead(c, d) \/ PumpWritePart(c, d) \/ PumpWritten(c, d)
  \/ clear
  \/ \E i \in DOMAIN store : ReplaySend(i)
  \/ \E r \in DOMAIN replay : ReplayAnswered(r) \/ ReplayFails(r)

TapSpec == TapInit /\ [][TapNext]_tapVars

-----------------------------------------------------------------------------
(* Properties *)

\* Every variable has the shape of the Rust value it stands for: the ring and
\* the queue of pending requests stay within their capacities.
TapTypeOK ==
  /\ \A c \in Conns :
       /\ conn[c].phase \in {"new", "connecting", "copying", "done", "broken"}
       /\ Len(tap[c].pending) <= MaxPending /\ Len(tap[c].current) <= 1
       /\ \A d \in Dirs : pump[c][d].seen <= pump[c][d].written /\ pump[c][d].written <= pump[c][d].read
  /\ Len(store) <= RingCap
  /\ nextId \in Nat /\ connsOpen \in Nat

\* However the two byte streams are cut into chunks, and whatever the bodies,
\* interim responses and the upgrade look like, the j-th exchange the tap
\* records is the j-th request with the j-th response and all of its body --
\* unless the tap was shown a response before its request, or had to forget a
\* request.
PairedInOrder ==
  \A c \in Conns : ~skew[c] =>
    \A j \in DOMAIN log[c] :
      LET e == conn[c].script[j] IN
      /\ j <= Len(conn[c].script)
      /\ log[c][j].rq = j /\ log[c][j].rs = j
      /\ log[c][j].rqBody.total <= e.rq.n
      /\ log[c][j].rsBody.total <= Carried(e).n
      /\ log[c][j].rsBody.total < Carried(e).n => Carried(e).f = "eof" /\ conn[c].phase = "broken"

\* A connection that is copied to its end leaves one record per exchange.
CleanCloseRecordsAll ==
  \A c \in Conns : conn[c].phase = "done" /\ ~skew[c] /\ AllCopied(c) => Len(log[c]) = Len(conn[c].script)

\* The gauge of open connections counts the proxy tasks that run.
GaugeIsExact == connsOpen = Cardinality({c \in Conns : conn[c].phase \in {"connecting", "copying"}})

\* A connection reaches the local service of the tunnel the visitor used.
ServedByItsOwnTunnel ==
  \A c \in Conns : conn[c].phase # "new" => conn[c].local = conn[c].via.local

\* A replay is sent to the service that had served the request.
ReplayHitsItsService == \A r \in DOMAIN replay : replay[r].target = replay[r].of.served

\* The inspector shows and replays what happened: exchanges paired and complete,
\* the gauge exact, connections and replays at the service they are meant for
\* (ConnTap, ConnGuard, find_local_target, local_addr_for).
InspectorIsFaithful ==
  /\ TapTypeOK /\ PairedInOrder /\ CleanCloseRecordsAll /\ GaugeIsExact
  /\ ServedByItsOwnTunnel /\ ReplayHitsItsService

=============================================================================
