----------------------------- MODULE P2P_proofs -----------------------------
(***************************************************************************)
(* Proofs about the peer-to-peer rendezvous for any number of publishers   *)
(* and local connections and channels of any capacity: the relay leads to  *)
(* a publisher that knows the secret, the name to a tunnel that exists,    *)
(* and the subscriber's client recognises its streams (P2P).               *)
(***************************************************************************)
EXTENDS P2P, TLAPS

-----------------------------------------------------------------------------
(* Types *)

FrameType == [kind : {"error", "connected", "new", "punch"}, conn : Conns]
HandType == {Idle} \cup [at : {"ask", "answer"}, conn : Conns, pub : Publishers]

ServerShape ==
    /\ enabled \in BOOLEAN
    /\ reg \in [Publishers -> {"new", "checked", "in", "refused", "gone"}]
    /\ online \subseteq Publishers
    /\ entry = Nobody \/ entry \in [pub : Publishers, direct : BOOLEAN]

ClientShape ==
    /\ local \in [Conns -> {"new", "asked", "waiting", "bridged", "closed"}]
    /\ streams \subseteq Conns /\ metas \subseteq Conns /\ data \subseteq Conns
    /\ asked \in Seq(Conns) /\ toSub \in Seq(FrameType)

\* No control channel is over its capacity.
WithinCapacity ==
    /\ \A p \in Publishers : Len(pubCtl[p]) <= CtlCapacity
    /\ Len(subCtl) <= CtlCapacity

-----------------------------------------------------------------------------
(* The secret *)

\* The session's task is in the middle of a request to a publisher that knows
\* the secret, no other publisher is ever asked, and a relay is past waiting
\* for the publisher only with a stream of one that knows it.
AsksKnowing == hand # Idle => hand.pub \in Knowing
OnlyKnowingAsked ==
    \A p \in Publishers \ Knowing : \A i \in 1 .. Len(pubCtl[p]) : pubCtl[p][i] = Other
StreamsKnowing == \A c \in Conns : "pub" \in got[c] => who[c] \in Knowing
RelayHasStream == \A c \in Conns : relay[c] \in {"waitSub", "bridged"} => "pub" \in got[c]

-----------------------------------------------------------------------------
(* The name *)

NameInv == entry = Nobody \/ (entry.pub \in Publishers /\ reg[entry.pub] = "in")

-----------------------------------------------------------------------------
(* The question of a local connection and its answer *)

In(q, x) == \E i \in 1 .. Len(q) : q[i] = x
Once(q, x) == \A i, j \in 1 .. Len(q) : q[i] = x /\ q[j] = x => i = j

Handling(c) == hand # Idle /\ hand.conn = c
Answers(c) == {Frame("error", c), Frame("connected", c)}
Answered(q, c) == \E i \in 1 .. Len(q) : q[i] \in Answers(c)
OneAnswer(q, c) == \A i, j \in 1 .. Len(q) : q[i] \in Answers(c) /\ q[j] \in Answers(c) => i = j

\* A question is in one place until its one answer has arrived.
QuestionInv(c) ==
    /\ In(asked, c) \/ Handling(c) \/ Answered(toSub, c) => local[c] = "asked"
    /\ In(asked, c) => ~Handling(c) /\ ~Answered(toSub, c)
    /\ Handling(c) => ~Answered(toSub, c)
    /\ Once(asked, c) /\ OneAnswer(toSub, c)

-----------------------------------------------------------------------------
(* The subscriber's stream *)

\* NewConnection comes after P2pConnected.
Announced(q, c) ==
    \A i \in 1 .. Len(q) :
        q[i] = Frame("new", c) => \E j \in 1 .. (i - 1) : q[j] = Frame("connected", c)

\* The request for the subscriber's stream and the stream itself are in one
\* place, and P2pConnected has reached the client or is on its way in front.
StreamInv(c) ==
    /\ Once(subCtl, c)
    /\ In(subCtl, c) => c \notin data /\ c \notin streams
    /\ c \in data => c \notin streams
    /\ In(subCtl, c) \/ c \in data \/ c \in streams =>
         \/ local[c] = "asked" /\ In(toSub, Frame("connected", c))
         \/ local[c] = "waiting" /\ c \notin streams
    /\ c \in metas => local[c] \in {"bridged", "closed"}
    /\ In(toSub, Frame("new", c)) =>
         \/ local[c] \in {"waiting", "bridged", "closed"}
         \/ local[c] = "asked" /\ Announced(toSub, c)

ConnInv == \A c \in Conns : QuestionInv(c) /\ StreamInv(c)

-----------------------------------------------------------------------------
(* What the steps leave alone *)

LEMMA ServerStep == Next => (\E p \in Publishers : Publishing(p)) \/ UNCHANGED serverVars
  BY DEF Next, PublisherTurn, PubOther, OpenPub, OpenPubFails, Accept, ClientTurn, OnError, OnConnected,
     OnNewConnection, OnPunch, OnStream, TakeFrame, RelayTurn, RelayHasPublisher, RelayLosesPublisher,
     RelayHasSubscriber, RelayLosesSubscriber, RelayEnds, LocalEnds, SessionTurn, HandleConnect,
     AskPublisher, AnswerSubscriber, SubOther, OpenSub, OpenSubFails, OtherTraffic, DataDrop, SubUnchanged

-----------------------------------------------------------------------------
(* The publishers: types, the name and the NAT *)

PublishInv == ServerShape /\ NameInv /\ NatIsNotMistaken

LEMMA NeverMistaken ==
    ASSUME NEW nat \in {"open", "cone", "symmetric"}, NEW m1 \in {Mapped(nat, 1), "none"},
           NEW m2 \in SecondAnswer(nat, m1 = "none")
    PROVE  ~Mistaken(nat, m1, m2)
<1>1. Mapped(nat, 1) # "none" /\ Mapped(nat, 2) # "none"
  BY DEF Mapped
<1>2. m2 = Mapped(nat, 2) \/ m2 = "none"
  BY DEF SecondAnswer
<1>3. CASE m1 = "none" /\ m2 = "none"
  <2>1. NatType(m1, m2) = "unknown"
    BY <1>3 DEF NatType
  <2> QED BY <2>1, Zenon DEF Mistaken
<1>4. CASE m1 = "none" /\ m2 = Mapped(nat, 2)
  <2>1. ~((m1 # "none") = (m2 = Mapped(nat, 2)))
    BY <1>4, Zenon
  <2> QED BY <2>1, Zenon DEF Mistaken
<1>5. CASE m1 = Mapped(nat, 1) /\ m2 = "none"
  <2>1. ~((m1 # "none") = (m2 = Mapped(nat, 2)))
    BY <1>1, <1>5, Zenon
  <2> QED BY <2>1, Zenon DEF Mistaken
<1>6. CASE m1 = Mapped(nat, 1) /\ m2 = Mapped(nat, 2)
  <2>1. NatType(m1, m2) = nat
    <3>1. CASE nat = "open"
      BY <1>6, <3>1 DEF NatType, Mapped
    <3>2. CASE nat = "cone"
      BY <1>6, <3>2 DEF NatType, Mapped
    <3>3. CASE nat = "symmetric"
      <4>1. m1 = "ext1" /\ m2 = "ext2"
        BY <1>6, <3>3 DEF Mapped
      <4> QED BY <3>3, <4>1 DEF NatType
    <3> QED BY <3>1, <3>2, <3>3
  <2> QED BY <2>1, Zenon DEF Mistaken
<1> QED BY <1>1, <1>2, <1>3, <1>4, <1>5, <1>6

LEMMA PublishStep == PublishInv /\ Next => PublishInv'
<1> SUFFICES ASSUME PublishInv, Next PROVE PublishInv'
  OBVIOUS
<1> USE DEF PublishInv, ServerShape, NameInv, NatIsNotMistaken
<1>1. CASE UNCHANGED serverVars
  BY <1>1 DEF serverVars
<1>2. ASSUME NEW p \in Publishers, CheckName(p) PROVE PublishInv'
  BY <1>2 DEF CheckName
<1>3. ASSUME NEW p \in Publishers, InsertName(p) PROVE PublishInv'
  BY <1>3 DEF InsertName
<1>4. ASSUME NEW p \in Publishers, ReportNat(p) PROVE PublishInv'
  <2>1. PICK nat \in {"open", "cone", "symmetric"} :
          \E m1 \in {Mapped(nat, 1), "none"} : \E m2 \in SecondAnswer(nat, m1 = "none") :
             /\ mistaken' = (mistaken \/ Mistaken(nat, m1, m2))
             /\ entry' = IF entry = Nobody THEN entry
                         ELSE [entry EXCEPT !.direct = attempt_direct(NatType(m1, m2))]
    BY <1>4, Zenon DEF ReportNat
  <2>a. PICK m1 \in {Mapped(nat, 1), "none"} : \E m2 \in SecondAnswer(nat, m1 = "none") :
             /\ mistaken' = (mistaken \/ Mistaken(nat, m1, m2))
             /\ entry' = IF entry = Nobody THEN entry
                         ELSE [entry EXCEPT !.direct = attempt_direct(NatType(m1, m2))]
    BY <2>1, Zenon
  <2>2. PICK m2 \in SecondAnswer(nat, m1 = "none") :
             /\ mistaken' = (mistaken \/ Mistaken(nat, m1, m2))
             /\ entry' = IF entry = Nobody THEN entry
                         ELSE [entry EXCEPT !.direct = attempt_direct(NatType(m1, m2))]
    BY <2>a, Zenon
  <2>3. ~Mistaken(nat, m1, m2)
    BY NeverMistaken
  <2>4. ~mistaken'
    BY <2>2, <2>3, Zenon
  <2>b. attempt_direct(NatType(m1, m2)) \in BOOLEAN
    BY DEF attempt_direct
  <2>5. PICK d \in BOOLEAN : d = attempt_direct(NatType(m1, m2))
    BY <2>b, Zenon
  <2>6. entry' = IF entry = Nobody THEN entry ELSE [entry EXCEPT !.direct = d]
    BY <2>2, <2>5, Zenon
  <2>7. UNCHANGED <<enabled, reg, online>>
    BY <1>4 DEF ReportNat
  <2> QED BY <2>4, <2>6, <2>7
<1>5. ASSUME NEW p \in Publishers, PublisherGone(p) PROVE PublishInv'
  BY <1>5 DEF PublisherGone
<1>6. ASSUME NEW p \in Publishers, remove_tunnel(p) PROVE PublishInv'
  BY <1>6 DEF remove_tunnel
<1> QED BY <1>1, <1>2, <1>3, <1>4, <1>5, <1>6, ServerStep DEF Publishing

-----------------------------------------------------------------------------
(* The sessions and the relay: types, capacity and the secret *)

ChannelInv ==
    /\ hand \in HandType /\ pubCtl \in [Publishers -> Seq(Conns \cup {Other})]
    /\ subCtl \in Seq(Conns \cup {Other}) /\ WithinCapacity
    /\ AsksKnowing /\ OnlyKnowingAsked

\* The steps that touch a control channel or the session's task.
LEMMA ChannelStep ==
    Next => \/ \E p \in Publishers : PublisherGone(p) \/ PublisherTurn(p)
            \/ SessionTurn \/ OtherTraffic \/ UNCHANGED <<hand, pubCtl, subCtl>>
  BY DEF Next, Publishing, CheckName, InsertName, ReportNat, remove_tunnel, Accept, ClientTurn, OnError,
     OnConnected, OnNewConnection, OnPunch, OnStream, TakeFrame, RelayTurn, RelayHasPublisher,
     RelayLosesPublisher, RelayHasSubscriber, RelayLosesSubscriber, RelayEnds, LocalEnds, DataDrop, relayVars

LEMMA ChannelKept == PublishInv /\ asked \in Seq(Conns) /\ ChannelInv /\ Next => ChannelInv'
<1> SUFFICES ASSUME PublishInv, asked \in Seq(Conns), ChannelInv, Next PROVE ChannelInv'
  OBVIOUS
<1> USE P2PBounds, OtherIsNoConn DEF ChannelInv, WithinCapacity, AsksKnowing, OnlyKnowingAsked
<1>1. CASE UNCHANGED <<hand, pubCtl, subCtl>>
  BY <1>1
<1>2. ASSUME NEW p \in Publishers, PublisherGone(p) PROVE ChannelInv'
  BY <1>2 DEF PublisherGone
<1>3. ASSUME NEW p \in Publishers, pubCtl[p] # <<>>, pubCtl' = [pubCtl EXCEPT ![p] = Tail(@)],
             UNCHANGED <<hand, subCtl>>
      PROVE  ChannelInv'
  BY <1>3
<1>4. ASSUME NEW p \in Publishers, PublisherTurn(p) PROVE ChannelInv'
  BY <1>3, <1>4 DEF PublisherTurn, PubOther, OpenPub, OpenPubFails
<1>5. ASSUME subCtl # <<>>, subCtl' = Tail(subCtl), UNCHANGED <<hand, pubCtl>> PROVE ChannelInv'
  BY <1>5
<1>6. CASE SubOther \/ \E c \in Conns : OpenSub(c) \/ OpenSubFails(c)
  BY <1>5, <1>6 DEF SubOther, OpenSub, OpenSubFails
<1>7. CASE OtherTraffic
  <2>1. CASE Len(subCtl) < CtlCapacity /\ subCtl' = Append(subCtl, Other) /\ UNCHANGED <<hand, pubCtl>>
    BY <2>1
  <2>2. ASSUME NEW p \in Publishers, Len(pubCtl[p]) < CtlCapacity,
               pubCtl' = [pubCtl EXCEPT ![p] = Append(@, Other)], UNCHANGED <<hand, subCtl>>
        PROVE  ChannelInv'
    BY <2>2
  <2>3. online \subseteq Publishers
    BY DEF PublishInv, ServerShape
  <2> QED BY <1>7, <2>1, <2>2, <2>3 DEF OtherTraffic
<1>8. CASE HandleConnect
  <2>1. UNCHANGED <<pubCtl, subCtl>>
    BY <1>8 DEF HandleConnect
  <2>2. Head(asked) \in Conns
    BY <1>8 DEF HandleConnect
  <2>3. resolve_p2p # Nobody => resolve_p2p.pub \in Publishers
    BY DEF resolve_p2p, PublishInv, ServerShape
  <2>4. hand' = hand \/ \E q \in Knowing : hand' = [at |-> "ask", conn |-> Head(asked), pub |-> q]
    BY <1>8 DEF HandleConnect
  <2> QED BY <2>1, <2>2, <2>4 DEF HandType
<1>9. CASE AskPublisher
  <2>1. hand # Idle /\ hand.at = "ask" /\ hand.conn \in Conns /\ hand.pub \in Knowing
    BY <1>9 DEF AskPublisher, HandType, Idle
  <2>2. subCtl' = subCtl
    BY <1>9 DEF AskPublisher
  <2>3. CASE hand' = Idle /\ pubCtl' = pubCtl
    BY <2>2, <2>3 DEF HandType
  <2>4. CASE /\ Len(pubCtl[hand.pub]) < CtlCapacity
             /\ pubCtl' = [pubCtl EXCEPT ![hand.pub] = Append(@, hand.conn)]
             /\ hand' = [hand EXCEPT !.at = "answer"]
    <3>1. hand' \in HandType /\ hand'.pub \in Knowing
      BY <2>1, <2>4 DEF HandType
    <3>2. /\ pubCtl' \in [Publishers -> Seq(Conns \cup {Other})]
          /\ \A p \in Publishers : Len(pubCtl'[p]) <= CtlCapacity
          /\ \A p \in Publishers \ Knowing : pubCtl'[p] = pubCtl[p]
      BY <2>1, <2>4
    <3> QED BY <2>2, <3>1, <3>2
  <2> QED BY <1>9, <2>3, <2>4 DEF AskPublisher, Target
<1>10. CASE AnswerSubscriber
  <2>1. hand.conn \in Conns /\ hand' = Idle /\ pubCtl' = pubCtl
    BY <1>10 DEF AnswerSubscriber, HandType, Idle
  <2>2. subCtl' \in {subCtl, Append(subCtl, hand.conn)} /\ Len(subCtl') <= CtlCapacity
    BY <1>10, <2>1 DEF AnswerSubscriber, Offered
  <2> QED BY <2>1, <2>2 DEF HandType
<1> QED BY <1>1, <1>2, <1>4, <1>6, <1>7, <1>8, <1>9, <1>10, ChannelStep DEF SessionTurn

RelayInv ==
    /\ got \in [Conns -> SUBSET {"pub", "sub"}] /\ DOMAIN who = Conns
    /\ relay \in [Conns -> {"none", "waitPub", "waitSub", "bridged", "over"}]
    /\ StreamsKnowing /\ RelayHasStream

LEMMA RelayStep ==
    Next => \/ \E p \in Publishers, c \in Conns : OpenPub(p, c)
            \/ \E c \in Conns : RelayTurn(c) \/ RelayEnds(c) \/ OpenSub(c)
            \/ AnswerSubscriber \/ UNCHANGED <<got, who, relay>>
  BY DEF Next, Publishing, CheckName, InsertName, ReportNat, remove_tunnel, PublisherGone, PublisherTurn,
     PubOther, OpenPubFails, Accept, ClientTurn, OnError, OnConnected, OnNewConnection, OnPunch, OnStream,
     TakeFrame, LocalEnds, DataDrop, SessionTurn, HandleConnect, AskPublisher, SubOther, OpenSubFails,
     OtherTraffic, SubUnchanged, relayVars

LEMMA RelayKept == ChannelInv /\ RelayInv /\ Next => RelayInv'
<1> SUFFICES ASSUME ChannelInv, RelayInv, Next PROVE RelayInv'
  OBVIOUS
<1> USE P2PBounds, OtherIsNoConn DEF RelayInv, StreamsKnowing, RelayHasStream
<1>1. CASE UNCHANGED <<got, who, relay>>
  BY <1>1
<1>2. ASSUME NEW p \in Publishers, NEW c \in Conns, OpenPub(p, c) PROVE RelayInv'
  <2>1. p \in Knowing
    <3>1. pubCtl[p] \in Seq(Conns \cup {Other}) /\ pubCtl[p] # <<>> /\ pubCtl[p][1] = c
      BY <1>2 DEF OpenPub, ChannelInv
    <3> QED BY <3>1 DEF ChannelInv, OnlyKnowingAsked
  <2>2. who' = [who EXCEPT ![c] = p] /\ UNCHANGED relay
    BY <1>2 DEF OpenPub
  <2>3. got' = got \/ got' = [got EXCEPT ![c] = @ \cup {"pub"}]
    BY <1>2 DEF OpenPub
  <2> QED BY <2>1, <2>2, <2>3
<1>3. ASSUME NEW c \in Conns, RelayTurn(c) \/ RelayEnds(c) PROVE RelayInv'
  BY <1>3 DEF RelayTurn, RelayHasPublisher, RelayLosesPublisher, RelayHasSubscriber, RelayLosesSubscriber,
     RelayEnds
<1>4. ASSUME NEW c \in Conns, OpenSub(c) PROVE RelayInv'
  <2>1. UNCHANGED <<who, relay>> /\ (got' = got \/ got' = [got EXCEPT ![c] = @ \cup {"sub"}])
    BY <1>4 DEF OpenSub
  <2> QED BY <2>1
<1>5. CASE AnswerSubscriber
  BY <1>5 DEF AnswerSubscriber, SubUnchanged
<1> QED BY <1>1, <1>2, <1>3, <1>4, <1>5, RelayStep

\* core.pending_conns, by itself.
LEMMA PendingKept == ChannelInv /\ pending \subseteq Ids /\ Next => (pending \subseteq Ids)'
<1> SUFFICES ASSUME ChannelInv, pending \subseteq Ids, Next PROVE pending' \subseteq Ids
  BY DEF Ids
<1>1. \/ pending' \subseteq pending
      \/ hand.at \in {"ask", "answer"} /\ pending' \subseteq pending \cup ({hand.conn} \X {"pub", "sub"})
  <2>1. CASE AskPublisher \/ AnswerSubscriber
    BY <2>1 DEF AskPublisher, AnswerSubscriber
  <2>2. CASE \E p \in Publishers : Publishing(p) \/ PublisherTurn(p)
    BY <2>2 DEF Publishing, CheckName, InsertName, ReportNat, remove_tunnel, PublisherGone, PublisherTurn,
       PubOther, OpenPub, OpenPubFails, relayVars
  <2>3. CASE \E c \in Conns : Accept(c) \/ ClientTurn(c) \/ RelayTurn(c) \/ LocalEnds(c) \/ RelayEnds(c)
    BY <2>3 DEF Accept, ClientTurn, OnError, OnConnected, OnNewConnection, OnPunch, OnStream, TakeFrame,
       LocalEnds, RelayTurn, RelayHasPublisher, RelayLosesPublisher, RelayHasSubscriber,
       RelayLosesSubscriber, RelayEnds, relayVars
  <2>4. CASE HandleConnect \/ SubOther \/ OtherTraffic \/ DataDrop
    BY <2>4 DEF HandleConnect, SubOther, OtherTraffic, DataDrop, relayVars
  <2>5. CASE \E c \in Conns : OpenSub(c) \/ OpenSubFails(c)
    BY <2>5 DEF OpenSub, OpenSubFails
  <2> QED BY <2>1, <2>2, <2>3, <2>4, <2>5 DEF Next, SessionTurn
<1>2. hand.at \in {"ask", "answer"} => hand.conn \in Conns
  BY DEF ChannelInv, HandType, Idle
<1> QED BY <1>1, <1>2 DEF Ids

-----------------------------------------------------------------------------
(* Queues *)

LEMMA ConcatOne ==
    ASSUME NEW S, NEW q \in Seq(S), NEW x \in S
    PROVE  q \o <<x>> = Append(q, x) /\ q \o <<x>> \in Seq(S)
<1>1. q \o <<x>> = Append(q, x)
  OBVIOUS
<1> QED BY <1>1

LEMMA FrameFacts ==
    ASSUME NEW k, NEW m, NEW c, NEW d
    PROVE  Frame(k, c) = Frame(m, d) <=> k = m /\ c = d
<1>1. Frame(k, c).kind = k /\ Frame(k, c).conn = c /\ Frame(m, d).kind = m /\ Frame(m, d).conn = d
  BY DEF Frame
<1>2. Frame(k, c) = Frame(m, d) => k = m /\ c = d
  BY <1>1, Zenon
<1>3. k = m /\ c = d => Frame(k, c) = Frame(m, d)
  BY Zenon
<1> QED BY <1>2, <1>3

LEMMA AppendQueue ==
    ASSUME NEW S, NEW q \in Seq(S), NEW x \in S, NEW y
    PROVE  /\ In(Append(q, x), y) <=> In(q, y) \/ x = y
           /\ Once(q, y) /\ (x = y => ~In(q, y)) => Once(Append(q, x), y)
  BY DEF In, Once

LEMMA TailQueue ==
    ASSUME NEW S, NEW q \in Seq(S), q # <<>>, NEW y
    PROVE  /\ In(q, y) <=> Head(q) = y \/ In(Tail(q), y)
           /\ Once(q, y) => Once(Tail(q), y)
           /\ Once(q, y) /\ Head(q) = y => ~In(Tail(q), y)
<1>1. Head(q) = q[1] /\ Tail(q) \in Seq(S) /\ Len(Tail(q)) = Len(q) - 1 /\ Len(q) \in Nat \ {0}
  OBVIOUS
<1>2. \A i \in 1 .. Len(Tail(q)) : Tail(q)[i] = q[i + 1] /\ i + 1 \in 1 .. Len(q)
  OBVIOUS
<1>3. \A i \in 2 .. Len(q) : q[i] = Tail(q)[i - 1] /\ i - 1 \in 1 .. Len(Tail(q))
  BY <1>1, <1>2
<1>4. In(q, y) <=> Head(q) = y \/ In(Tail(q), y)
  <2>1. ASSUME In(q, y), ~(Head(q) = y) PROVE In(Tail(q), y)
    <3>1. PICK i \in 1 .. Len(q) : q[i] = y
      BY <2>1 DEF In
    <3>2. i \in 2 .. Len(q)
      BY <1>1, <2>1, <3>1
    <3> QED BY <1>3, <3>1, <3>2 DEF In
  <2>2. In(Tail(q), y) => In(q, y)
    BY <1>2 DEF In
  <2>3. Head(q) = y => In(q, y)
    BY <1>1 DEF In
  <2> QED BY <2>1, <2>2, <2>3
<1>5. Once(q, y) => Once(Tail(q), y)
  BY <1>1, <1>2 DEF Once
<1>6. Once(q, y) /\ Head(q) = y => ~In(Tail(q), y)
  BY <1>1, <1>2 DEF Once, In
<1> QED BY <1>4, <1>5, <1>6

LEMMA AppendAnswer ==
    ASSUME NEW S, NEW q \in Seq(S), NEW x \in S, NEW c
    PROVE  /\ Answered(Append(q, x), c) <=> Answered(q, c) \/ x \in Answers(c)
           /\ OneAnswer(q, c) /\ (x \in Answers(c) => ~Answered(q, c)) => OneAnswer(Append(q, x), c)
           /\ Announced(q, c) /\ (x = Frame("new", c) => In(q, Frame("connected", c)))
                => Announced(Append(q, x), c)
<1>1. Answered(Append(q, x), c) <=> Answered(q, c) \/ x \in Answers(c)
  BY DEF Answered
<1>2. OneAnswer(q, c) /\ (x \in Answers(c) => ~Answered(q, c)) => OneAnswer(Append(q, x), c)
  BY DEF OneAnswer, Answered
<1>3. Announced(q, c) /\ (x = Frame("new", c) => In(q, Frame("connected", c)))
                => Announced(Append(q, x), c)
  <2> SUFFICES ASSUME Announced(q, c), x = Frame("new", c) => In(q, Frame("connected", c)),
                      NEW i \in 1 .. Len(Append(q, x)), Append(q, x)[i] = Frame("new", c)
               PROVE  \E j \in 1 .. (i - 1) : Append(q, x)[j] = Frame("connected", c)
    BY DEF Announced
  <2>1. \A j \in 1 .. Len(q) : Append(q, x)[j] = q[j]
    OBVIOUS
  <2>2. Len(Append(q, x)) = Len(q) + 1 /\ Append(q, x)[Len(q) + 1] = x /\ Len(q) \in Nat
    OBVIOUS
  <2>3. CASE i \in 1 .. Len(q)
    <3>1. PICK j \in 1 .. (i - 1) : q[j] = Frame("connected", c)
      BY <2>1, <2>3 DEF Announced
    <3> QED BY <2>1, <2>2, <2>3, <3>1
  <2>4. CASE i = Len(q) + 1
    <3>1. PICK j \in 1 .. Len(q) : q[j] = Frame("connected", c)
      BY <2>2, <2>4 DEF In
    <3> QED BY <2>1, <2>2, <2>4, <3>1
  <2> QED BY <2>2, <2>3, <2>4
<1> QED BY <1>1, <1>2, <1>3

LEMMA TailAnswer ==
    ASSUME NEW S, NEW q \in Seq(S), q # <<>>, NEW c
    PROVE  /\ Answered(q, c) <=> Head(q) \in Answers(c) \/ Answered(Tail(q), c)
           /\ OneAnswer(q, c) => OneAnswer(Tail(q), c)
           /\ OneAnswer(q, c) /\ Head(q) \in Answers(c) => ~Answered(Tail(q), c)
           /\ Announced(q, c) /\ Head(q) # Frame("connected", c) => Announced(Tail(q), c)
           /\ Announced(q, c) => Head(q) # Frame("new", c)
<1>1. Head(q) = q[1] /\ Tail(q) \in Seq(S) /\ Len(Tail(q)) = Len(q) - 1 /\ Len(q) \in Nat \ {0}
  OBVIOUS
<1>2. \A i \in 1 .. Len(Tail(q)) : Tail(q)[i] = q[i + 1] /\ i + 1 \in 1 .. Len(q)
  OBVIOUS
<1>3. \A i \in 2 .. Len(q) : q[i] = Tail(q)[i - 1] /\ i - 1 \in 1 .. Len(Tail(q))
  BY <1>1, <1>2
<1>4. Answered(q, c) <=> Head(q) \in Answers(c) \/ Answered(Tail(q), c)
  <2>1. ASSUME Answered(q, c), ~(Head(q) \in Answers(c)) PROVE Answered(Tail(q), c)
    <3>1. PICK i \in 1 .. Len(q) : q[i] \in Answers(c)
      BY <2>1 DEF Answered
    <3>2. i \in 2 .. Len(q)
      BY <1>1, <2>1, <3>1
    <3> QED BY <1>3, <3>1, <3>2 DEF Answered
  <2>2. Answered(Tail(q), c) => Answered(q, c)
    BY <1>2 DEF Answered
  <2>3. Head(q) \in Answers(c) => Answered(q, c)
    BY <1>1 DEF Answered
  <2> QED BY <2>1, <2>2, <2>3
<1>5. OneAnswer(q, c) => OneAnswer(Tail(q), c)
  BY <1>1, <1>2 DEF OneAnswer
<1>6. OneAnswer(q, c) /\ Head(q) \in Answers(c) => ~Answered(Tail(q), c)
  BY <1>1, <1>2 DEF OneAnswer, Answered
<1>7. ASSUME Announced(q, c), Head(q) # Frame("connected", c) PROVE Announced(Tail(q), c)
  <2> SUFFICES ASSUME NEW i \in 1 .. Len(Tail(q)), Tail(q)[i] = Frame("new", c)
               PROVE  \E j \in 1 .. (i - 1) : Tail(q)[j] = Frame("connected", c)
    BY DEF Announced
  <2>1. PICK j \in 1 .. i : q[j] = Frame("connected", c)
    BY <1>1, <1>2, <1>7 DEF Announced
  <2>2. j # 1
    BY <1>1, <1>7, <2>1
  <2> QED BY <1>1, <1>3, <2>1, <2>2
<1>8. Announced(q, c) => Head(q) # Frame("new", c)
  BY <1>1 DEF Announced
<1> QED BY <1>4, <1>5, <1>6, <1>7, <1>8

-----------------------------------------------------------------------------
(* The local connections *)

clientSide == <<asked, hand, toSub, subCtl, data, streams, metas, local, selfdial>>

LEMMA ClientStep ==
    Next => \/ \E c \in Conns : Accept(c) \/ ClientTurn(c) \/ LocalEnds(c)
            \/ SessionTurn \/ OtherTraffic \/ DataDrop \/ UNCHANGED clientSide
  BY DEF Next, Publishing, CheckName, InsertName, ReportNat, remove_tunnel, PublisherGone, PublisherTurn,
     PubOther, OpenPub, OpenPubFails, SubUnchanged, RelayTurn, RelayHasPublisher, RelayLosesPublisher,
     RelayHasSubscriber, RelayLosesSubscriber, RelayEnds, relayVars, clientVars, wires, clientSide

ClientInv == ClientShape /\ ConnInv /\ NeverDialsItself

LEMMA FrameTypes == \A c \in Conns : \A k \in {"error", "connected", "new", "punch"} : Frame(k, c) \in FrameType
  BY DEF Frame, FrameType

LEMMA ClientShapeKept == ChannelInv /\ ClientShape /\ Next => ClientShape'
<1> SUFFICES ASSUME ChannelInv, ClientShape, Next PROVE ClientShape'
  OBVIOUS
<1> USE FrameTypes DEF ClientShape
<1>1. CASE UNCHANGED clientSide
  BY <1>1 DEF clientSide
<1>2. ASSUME NEW c \in Conns, Accept(c) PROVE ClientShape'
  BY <1>2 DEF Accept
<1>3. ASSUME NEW c \in Conns, OnError(c) PROVE ClientShape'
  BY <1>3 DEF OnError, TakeFrame
<1>4. ASSUME NEW c \in Conns, OnConnected(c) PROVE ClientShape'
  BY <1>4 DEF OnConnected, TakeFrame
<1>5. ASSUME NEW c \in Conns, OnNewConnection(c) PROVE ClientShape'
  BY <1>5 DEF OnNewConnection, TakeFrame
<1>6. ASSUME NEW c \in Conns, OnPunch(c) PROVE ClientShape'
  BY <1>6 DEF OnPunch, TakeFrame
<1>7. ASSUME NEW c \in Conns, OnStream(c) PROVE ClientShape'
  BY <1>7 DEF OnStream
<1>8. ASSUME NEW c \in Conns, LocalEnds(c) PROVE ClientShape'
  BY <1>8 DEF LocalEnds, wires
<1>9. CASE DataDrop
  BY <1>9 DEF DataDrop
<1>10. CASE OtherTraffic \/ SubOther
  BY <1>10 DEF OtherTraffic, SubOther, SubUnchanged, clientVars
<1>11. CASE HandleConnect
  <2>1. Head(asked) \in Conns /\ Tail(asked) \in Seq(Conns)
    BY <1>11 DEF HandleConnect
  <2>2. \/ toSub' = toSub
        \/ toSub' = Append(toSub, Frame("error", Head(asked)))
        \/ toSub' = Append(toSub, Frame("punch", Head(asked)))
    <3>1. \/ toSub' = Append(toSub, Frame("error", Head(asked)))
          \/ toSub' = IF resolve_p2p.direct THEN Append(toSub, Frame("punch", Head(asked))) ELSE toSub
      BY <1>11 DEF HandleConnect
    <3> QED BY <3>1, Zenon
  <2>3. toSub' \in Seq(FrameType)
    BY <2>1, <2>2
  <2> QED BY <1>11, <2>1, <2>3 DEF HandleConnect, SubUnchanged, clientVars
<1>12. CASE AskPublisher \/ AnswerSubscriber
  <2>1. hand.conn \in Conns
    BY <1>12 DEF AskPublisher, AnswerSubscriber, ChannelInv, HandType, Idle
  <2>2. \/ toSub' = toSub
        \/ toSub' = toSub \o <<Frame("error", hand.conn)>>
        \/ toSub' = toSub \o <<Frame("connected", hand.conn)>>
    BY <1>12 DEF AskPublisher, AnswerSubscriber, Disconnected, Announcement
  <2>a. Frame("error", hand.conn) \in FrameType /\ Frame("connected", hand.conn) \in FrameType
    BY <2>1
  <2>3. toSub' \in Seq(FrameType)
    BY <2>2, <2>a, ConcatOne
  <2> QED BY <1>12, <2>3 DEF AskPublisher, AnswerSubscriber, SubUnchanged, clientVars
<1>13. ASSUME NEW c \in Conns, OpenSub(c) \/ OpenSubFails(c) PROVE ClientShape'
  <2>1. toSub' = toSub \/ toSub' = Append(toSub, Frame("new", c))
    BY <1>13 DEF OpenSub, OpenSubFails
  <2>2. data' \subseteq Conns /\ UNCHANGED <<asked, local, streams, metas>>
    BY <1>13 DEF OpenSub, OpenSubFails, SubUnchanged, clientVars
  <2> QED BY <2>1, <2>2
<1> QED
  BY <1>1, <1>2, <1>3, <1>4, <1>5, <1>6, <1>7, <1>8, <1>9, <1>10, <1>11, <1>12, <1>13, ClientStep
  DEF ClientTurn, SessionTurn

LEMMA ConnAccept ==
    ASSUME ClientShape, ConnInv, NEW c \in Conns, Accept(c) PROVE ConnInv'
<1> SUFFICES ASSUME NEW d \in Conns PROVE QuestionInv(d)' /\ StreamInv(d)'
  BY DEF ConnInv
<1>1. QuestionInv(d) /\ StreamInv(d)
  BY DEF ConnInv
<1>2. /\ In(asked', d) <=> In(asked, d) \/ c = d
      /\ Once(asked, d) /\ (c = d => ~In(asked, d)) => Once(asked', d)
  BY AppendQueue DEF Accept, ClientShape
<1>3. local' = [local EXCEPT ![c] = "asked"] /\ local[c] = "new"
      /\ UNCHANGED <<hand, toSub, subCtl, data, streams, metas>>
  BY DEF Accept, relayVars
<1>4. QuestionInv(d)'
  BY <1>1, <1>2, <1>3 DEF QuestionInv, Handling, ClientShape
<1>5. StreamInv(d)'
  BY <1>1, <1>3 DEF StreamInv, ClientShape
<1> QED BY <1>4, <1>5

\* What taking the first frame to the client does to the two invariants.
LEMMA ConnFrame ==
    ASSUME ClientShape, ConnInv, NEW c \in Conns, NEW k, TakeFrame(k, c), NEW d \in Conns
    PROVE  /\ Answered(toSub, d) <=> (c = d /\ k \in {"error", "connected"}) \/ Answered(toSub', d)
           /\ OneAnswer(toSub', d)
           /\ c = d /\ k \in {"error", "connected"} => ~Answered(toSub', d)
           /\ \A m : In(toSub, Frame(m, d)) <=> (c = d /\ k = m) \/ In(toSub', Frame(m, d))
           /\ Announced(toSub, d) /\ ~(c = d /\ k = "connected") => Announced(toSub', d)
           /\ Announced(toSub, d) => ~(c = d /\ k = "new")
           /\ UNCHANGED <<asked, hand, subCtl, data>>
<1>1. toSub # <<>> /\ Head(toSub) = Frame(k, c) /\ toSub' = Tail(toSub)
      /\ UNCHANGED <<asked, hand, subCtl, data>>
  BY DEF TakeFrame, relayVars
<1>2. toSub \in Seq(FrameType) /\ OneAnswer(toSub, d)
  BY DEF ClientShape, ConnInv, QuestionInv
<1>3. Frame(k, c) \in Answers(d) <=> c = d /\ k \in {"error", "connected"}
  BY FrameFacts DEF Answers
<1>4. \A m : Frame(k, c) = Frame(m, d) <=> c = d /\ k = m
  BY FrameFacts
<1>5. \A m : In(toSub, Frame(m, d)) <=> Head(toSub) = Frame(m, d) \/ In(Tail(toSub), Frame(m, d))
  BY <1>1, <1>2, TailQueue
<1>6. /\ Answered(toSub, d) <=> Head(toSub) \in Answers(d) \/ Answered(Tail(toSub), d)
      /\ OneAnswer(toSub, d) => OneAnswer(Tail(toSub), d)
      /\ OneAnswer(toSub, d) /\ Head(toSub) \in Answers(d) => ~Answered(Tail(toSub), d)
      /\ Announced(toSub, d) /\ Head(toSub) # Frame("connected", d) => Announced(Tail(toSub), d)
      /\ Announced(toSub, d) => Head(toSub) # Frame("new", d)
  BY <1>1, <1>2, TailAnswer
<1> QED BY <1>1, <1>2, <1>3, <1>4, <1>5, <1>6, Zenon

LEMMA ConnOnError ==
    ASSUME ClientShape, ConnInv, NEW c \in Conns, OnError(c) PROVE ConnInv'
<1> SUFFICES ASSUME NEW d \in Conns PROVE QuestionInv(d)' /\ StreamInv(d)'
  BY DEF ConnInv
<1>1. QuestionInv(d) /\ StreamInv(d)
  BY DEF ConnInv
<1>2. TakeFrame("error", c)
  BY DEF OnError
<1>3. /\ Answered(toSub, d) <=> c = d \/ Answered(toSub', d)
      /\ OneAnswer(toSub', d) /\ (c = d => ~Answered(toSub', d))
      /\ In(toSub, Frame("connected", d)) <=> In(toSub', Frame("connected", d))
      /\ In(toSub, Frame("new", d)) <=> In(toSub', Frame("new", d))
      /\ Announced(toSub, d) => Announced(toSub', d)
      /\ UNCHANGED <<asked, hand, subCtl, data>>
  BY <1>2, ConnFrame
<1>4. In(toSub', Frame("connected", d)) => Answered(toSub', d)
  BY DEF In, Answered, Answers
<1>5. local' = [local EXCEPT ![c] = "closed"] /\ UNCHANGED <<streams, metas>>
  BY DEF OnError
<1>6. QuestionInv(d)'
  BY <1>1, <1>3, <1>5 DEF QuestionInv, Handling, ClientShape
<1>7. StreamInv(d)'
  BY <1>1, <1>3, <1>4, <1>5 DEF StreamInv, QuestionInv, ClientShape
<1> QED BY <1>6, <1>7

LEMMA ConnOnConnected ==
    ASSUME ClientShape, ConnInv, NEW c \in Conns, OnConnected(c) PROVE ConnInv'
<1> SUFFICES ASSUME NEW d \in Conns PROVE QuestionInv(d)' /\ StreamInv(d)'
  BY DEF ConnInv
<1>1. QuestionInv(d) /\ StreamInv(d)
  BY DEF ConnInv
<1>2. TakeFrame("connected", c)
  BY DEF OnConnected
<1>3. /\ Answered(toSub, d) <=> c = d \/ Answered(toSub', d)
      /\ OneAnswer(toSub', d) /\ (c = d => ~Answered(toSub', d))
      /\ In(toSub, Frame("connected", d)) <=> c = d \/ In(toSub', Frame("connected", d))
      /\ In(toSub, Frame("new", d)) <=> In(toSub', Frame("new", d))
      /\ Announced(toSub, d) /\ c # d => Announced(toSub', d)
      /\ UNCHANGED <<asked, hand, subCtl, data>>
  BY <1>2, ConnFrame
<1>4. local' = [local EXCEPT ![c] = IF c \in streams THEN "bridged" ELSE "waiting"]
      /\ streams' = streams \ {c} /\ UNCHANGED metas
  BY DEF OnConnected
<1>5. QuestionInv(d)'
  BY <1>1, <1>3, <1>4 DEF QuestionInv, Handling, ClientShape
<1>6. StreamInv(d)'
  BY <1>1, <1>3, <1>4 DEF StreamInv, QuestionInv, ClientShape
<1> QED BY <1>5, <1>6

LEMMA ConnOnNewConnection ==
    ASSUME ClientShape, ConnInv, NeverDialsItself, NEW c \in Conns, OnNewConnection(c)
    PROVE  ConnInv' /\ NeverDialsItself'
<1>0. TakeFrame("new", c)
  BY DEF OnNewConnection
<1>1. local[c] = "waiting" \/ (local[c] \in {"bridged", "closed"} /\ c \notin streams)
  <2>1. QuestionInv(c) /\ StreamInv(c)
    BY DEF ConnInv
  <2>2. In(toSub, Frame("new", c)) /\ ~Announced(toSub, c)
    BY <1>0, ConnFrame
  <2> QED BY <2>1, <2>2 DEF StreamInv
<1>2. UNCHANGED <<local, streams>> /\ metas \subseteq metas'
      /\ metas' \subseteq metas \cup (IF local[c] = "waiting" THEN {} ELSE {c})
  BY <1>1 DEF OnNewConnection
<1>a. NeverDialsItself'
  <2>1. CASE local[c] = "waiting"
    BY <2>1 DEF OnNewConnection, NeverDialsItself
  <2>2. CASE local[c] # "waiting"
    BY <1>1, <2>2, Zenon DEF OnNewConnection, NeverDialsItself
  <2> QED BY <2>1, <2>2
<1> SUFFICES ASSUME NEW d \in Conns PROVE QuestionInv(d)' /\ StreamInv(d)'
  BY <1>a DEF ConnInv
<1>3. QuestionInv(d) /\ StreamInv(d)
  BY DEF ConnInv
<1>4. /\ Answered(toSub, d) <=> Answered(toSub', d)
      /\ OneAnswer(toSub', d)
      /\ In(toSub, Frame("connected", d)) <=> In(toSub', Frame("connected", d))
      /\ In(toSub', Frame("new", d)) => In(toSub, Frame("new", d))
      /\ Announced(toSub, d) => Announced(toSub', d)
      /\ UNCHANGED <<asked, hand, subCtl, data>>
  BY <1>0, ConnFrame
<1>5. QuestionInv(d)'
  BY <1>2, <1>3, <1>4 DEF QuestionInv, Handling
<1>6. StreamInv(d)'
  BY <1>1, <1>2, <1>3, <1>4 DEF StreamInv
<1> QED BY <1>5, <1>6

LEMMA ConnOnPunch ==
    ASSUME ClientShape, ConnInv, NEW c \in Conns, OnPunch(c) PROVE ConnInv'
<1> SUFFICES ASSUME NEW d \in Conns PROVE QuestionInv(d)' /\ StreamInv(d)'
  BY DEF ConnInv
<1>1. QuestionInv(d) /\ StreamInv(d)
  BY DEF ConnInv
<1>2. TakeFrame("punch", c) /\ UNCHANGED <<local, streams, metas>>
  BY DEF OnPunch
<1>3. /\ Answered(toSub, d) <=> Answered(toSub', d)
      /\ OneAnswer(toSub', d)
      /\ In(toSub, Frame("connected", d)) <=> In(toSub', Frame("connected", d))
      /\ In(toSub, Frame("new", d)) <=> In(toSub', Frame("new", d))
      /\ Announced(toSub, d) => Announced(toSub', d)
      /\ UNCHANGED <<asked, hand, subCtl, data>>
  BY <1>2, ConnFrame
<1> QED BY <1>1, <1>2, <1>3 DEF QuestionInv, StreamInv, Handling

LEMMA ConnOnStream ==
    ASSUME ClientShape, ConnInv, NEW c \in Conns, OnStream(c)
    PROVE  ConnInv' /\ selfdial' = selfdial
<1>1. c \in data /\ data' = data \ {c} /\ UNCHANGED <<asked, hand, toSub, subCtl>>
  BY DEF OnStream, relayVars
<1>2. QuestionInv(c) /\ StreamInv(c)
  BY DEF ConnInv
<1>3. c \notin metas /\ local[c] \in {"asked", "waiting"}
  BY <1>1, <1>2 DEF StreamInv
<1>4. /\ local[c] = "waiting" => local' = [local EXCEPT ![c] = "bridged"] /\ UNCHANGED <<streams, metas, selfdial>>
      /\ local[c] # "waiting" => streams' = streams \cup {c} /\ UNCHANGED <<local, metas, selfdial>>
  BY <1>3 DEF OnStream
<1> SUFFICES ASSUME NEW d \in Conns PROVE QuestionInv(d)' /\ StreamInv(d)'
  BY <1>4 DEF ConnInv
<1>5. QuestionInv(d) /\ StreamInv(d)
  BY DEF ConnInv
<1>6. QuestionInv(d)'
  BY <1>1, <1>4, <1>5 DEF QuestionInv, Handling, ClientShape
<1>7. StreamInv(d)'
  BY <1>1, <1>2, <1>3, <1>4, <1>5 DEF StreamInv, ClientShape
<1> QED BY <1>6, <1>7

LEMMA ConnLocal ==
    ASSUME ClientShape, ConnInv, DataDrop \/ \E c \in Conns : LocalEnds(c) PROVE ConnInv'
<1> SUFFICES ASSUME NEW d \in Conns PROVE QuestionInv(d)' /\ StreamInv(d)'
  BY DEF ConnInv
<1>1. QuestionInv(d) /\ StreamInv(d)
  BY DEF ConnInv
<1>2. CASE DataDrop
  BY <1>1, <1>2 DEF DataDrop, QuestionInv, StreamInv, Handling, ClientShape, relayVars
<1>3. ASSUME NEW c \in Conns, LocalEnds(c) PROVE QuestionInv(d)' /\ StreamInv(d)'
  BY <1>1, <1>3 DEF LocalEnds, QuestionInv, StreamInv, Handling, ClientShape, relayVars, wires
<1> QED BY <1>2, <1>3

\* A question leaves the client's frames for the session's task.
LEMMA ConnHandleConnect ==
    ASSUME ChannelInv, ClientShape, ConnInv, HandleConnect PROVE ConnInv'
<1> DEFINE c == Head(asked)
<1>1. c \in Conns /\ hand = Idle /\ asked' = Tail(asked) /\ asked # <<>>
      /\ UNCHANGED <<subCtl, data, streams, metas, local>>
  BY DEF HandleConnect, SubUnchanged, clientVars, ClientShape
<1>2. \/ toSub' = Append(toSub, Frame("error", c)) /\ hand' = Idle
      \/ /\ hand' # Idle /\ hand'.conn = c
         /\ toSub' \in {toSub, Append(toSub, Frame("punch", c))}
  <2>1. \/ toSub' = Append(toSub, Frame("error", c)) /\ hand' = hand
        \/ /\ hand' = [at |-> "ask", conn |-> c, pub |-> resolve_p2p.pub]
           /\ toSub' = IF resolve_p2p.direct THEN Append(toSub, Frame("punch", c)) ELSE toSub
    BY DEF HandleConnect
  <2>2. [at |-> "ask", conn |-> c, pub |-> resolve_p2p.pub] # Idle
    BY DEF Idle
  <2>3. [at |-> "ask", conn |-> c, pub |-> resolve_p2p.pub].conn = c
    OBVIOUS
  <2> HIDE DEF c
  <2> QED BY <1>1, <2>1, <2>2, <2>3, Zenon
<1> SUFFICES ASSUME NEW d \in Conns PROVE QuestionInv(d)' /\ StreamInv(d)'
  BY DEF ConnInv
<1>3. QuestionInv(d) /\ StreamInv(d)
  BY DEF ConnInv
<1>4. /\ In(asked, d) <=> c = d \/ In(asked', d)
      /\ Once(asked, d) => Once(asked', d)
      /\ Once(asked, d) /\ c = d => ~In(asked', d)
  BY <1>1, TailQueue DEF ClientShape
<1> HIDE DEF c
<1>5. \A k \in {"error", "punch"} : toSub' = Append(toSub, Frame(k, c)) =>
        /\ Answered(toSub', d) <=> Answered(toSub, d) \/ (k = "error" /\ c = d)
        /\ OneAnswer(toSub, d) /\ (k = "error" /\ c = d => ~Answered(toSub, d)) => OneAnswer(toSub', d)
        /\ In(toSub', Frame("connected", d)) <=> In(toSub, Frame("connected", d))
        /\ In(toSub', Frame("new", d)) <=> In(toSub, Frame("new", d))
        /\ Announced(toSub, d) => Announced(toSub', d)
  <2> SUFFICES ASSUME NEW k \in {"error", "punch"}, toSub' = Append(toSub, Frame(k, c))
               PROVE  /\ Answered(toSub', d) <=> Answered(toSub, d) \/ (k = "error" /\ c = d)
                      /\ OneAnswer(toSub, d) /\ (k = "error" /\ c = d => ~Answered(toSub, d))
                           => OneAnswer(toSub', d)
                      /\ In(toSub', Frame("connected", d)) <=> In(toSub, Frame("connected", d))
                      /\ In(toSub', Frame("new", d)) <=> In(toSub, Frame("new", d))
                      /\ Announced(toSub, d) => Announced(toSub', d)
    OBVIOUS
  <2>1. Frame(k, c) \in FrameType /\ toSub \in Seq(FrameType)
    BY <1>1, FrameTypes DEF ClientShape
  <2>2. Frame(k, c) \in Answers(d) <=> k = "error" /\ c = d
    BY FrameFacts DEF Answers
  <2>3. Frame(k, c) # Frame("connected", d) /\ Frame(k, c) # Frame("new", d)
    BY FrameFacts
  <2>4. \A f : In(toSub', f) <=> In(toSub, f) \/ Frame(k, c) = f
    BY <2>1, AppendQueue
  <2>5. /\ Answered(toSub', d) <=> Answered(toSub, d) \/ Frame(k, c) \in Answers(d)
        /\ OneAnswer(toSub, d) /\ (Frame(k, c) \in Answers(d) => ~Answered(toSub, d)) => OneAnswer(toSub', d)
        /\ Announced(toSub, d) /\ (Frame(k, c) = Frame("new", d) => In(toSub, Frame("connected", d)))
             => Announced(toSub', d)
    BY <2>1, AppendAnswer
  <2> QED BY <2>2, <2>3, <2>4, <2>5, Zenon
<1>6. In(toSub, Frame("connected", d)) => Answered(toSub, d)
  BY DEF In, Answered, Answers
<1>7. CASE toSub' = Append(toSub, Frame("error", c)) /\ hand' = Idle
  <2>1. QuestionInv(d)'
    BY <1>1, <1>3, <1>4, <1>5, <1>7 DEF QuestionInv, Handling
  <2>2. StreamInv(d)'
    BY <1>1, <1>3, <1>5, <1>7 DEF StreamInv
  <2> QED BY <2>1, <2>2
<1>8. CASE hand' # Idle /\ hand'.conn = c /\ toSub' \in {toSub, Append(toSub, Frame("punch", c))}
  <2>1. /\ Answered(toSub', d) <=> Answered(toSub, d)
        /\ OneAnswer(toSub, d) => OneAnswer(toSub', d)
        /\ In(toSub', Frame("connected", d)) <=> In(toSub, Frame("connected", d))
        /\ In(toSub', Frame("new", d)) <=> In(toSub, Frame("new", d))
        /\ Announced(toSub, d) => Announced(toSub', d)
    BY <1>5, <1>8
  <2>2. QuestionInv(d)'
    BY <1>1, <1>3, <1>4, <1>8, <2>1 DEF QuestionInv, Handling
  <2>3. StreamInv(d)'
    BY <1>1, <1>3, <2>1 DEF StreamInv
  <2> QED BY <2>2, <2>3
<1> QED BY <1>2, <1>7, <1>8

\* The publisher's session has gone, or the request waits in its channel.
LEMMA ConnAskPublisher ==
    ASSUME ChannelInv, ClientShape, ConnInv, AskPublisher PROVE ConnInv'
<1> SUFFICES ASSUME NEW d \in Conns PROVE QuestionInv(d)' /\ StreamInv(d)'
  BY DEF ConnInv
<1>1. hand # Idle /\ hand.conn \in Conns
      /\ UNCHANGED <<asked, subCtl, data, streams, metas, local>>
  BY DEF AskPublisher, SubUnchanged, clientVars, ChannelInv, HandType, Idle
<1>2. QuestionInv(d) /\ StreamInv(d)
  BY DEF ConnInv
<1>3. CASE toSub' = toSub /\ hand' = [hand EXCEPT !.at = "answer"]
  <2>1. hand' # Idle /\ hand'.conn = hand.conn
    BY <1>1, <1>3 DEF ChannelInv, HandType, Idle
  <2>2. Handling(d)' <=> Handling(d)
    BY <1>1, <2>1, Zenon DEF Handling
  <2>3. QuestionInv(d)'
    BY <1>1, <1>2, <1>3, <2>2 DEF QuestionInv
  <2>4. StreamInv(d)'
    BY <1>1, <1>2, <1>3 DEF StreamInv
  <2> QED BY <2>3, <2>4
<1>4. CASE toSub' = toSub \o Disconnected(hand.conn) /\ hand' = Idle
  <2>1. Frame("error", hand.conn) \in FrameType /\ toSub \in Seq(FrameType)
    BY <1>1, FrameTypes DEF ClientShape
  <2>2. toSub' = Append(toSub, Frame("error", hand.conn))
    BY <1>4, <2>1, ConcatOne DEF Disconnected
  <2>3. Frame("error", hand.conn) \in Answers(d) <=> hand.conn = d
    BY FrameFacts DEF Answers
  <2>4. Frame("error", hand.conn) # Frame("connected", d) /\ Frame("error", hand.conn) # Frame("new", d)
    BY FrameFacts
  <2>5. \A f : In(toSub', f) <=> In(toSub, f) \/ Frame("error", hand.conn) = f
    BY <2>1, <2>2, AppendQueue
  <2>6. /\ Answered(toSub', d) <=> Answered(toSub, d) \/ hand.conn = d
        /\ OneAnswer(toSub, d) /\ (hand.conn = d => ~Answered(toSub, d)) => OneAnswer(toSub', d)
        /\ Announced(toSub, d) => Announced(toSub', d)
    BY <2>1, <2>2, <2>3, <2>4, AppendAnswer
  <2>7. QuestionInv(d)'
    BY <1>1, <1>2, <1>4, <2>6 DEF QuestionInv, Handling
  <2>8. StreamInv(d)'
    BY <1>1, <1>2, <2>4, <2>5, <2>6 DEF StreamInv
  <2> QED BY <2>7, <2>8
<1> QED BY <1>3, <1>4 DEF AskPublisher

\* P2pConnected is on its way before the request for the subscriber's stream.
LEMMA ConnAnswerSubscriber ==
    ASSUME ChannelInv, ClientShape, ConnInv, AnswerSubscriber PROVE ConnInv'
<1> DEFINE c == hand.conn
<1>1. hand # Idle /\ c \in Conns /\ hand' = Idle
      /\ UNCHANGED <<asked, data, streams, metas, local>>
  BY DEF AnswerSubscriber, SubUnchanged, clientVars, ChannelInv, HandType, Idle
<1> SUFFICES ASSUME NEW d \in Conns PROVE QuestionInv(d)' /\ StreamInv(d)'
  BY DEF ConnInv
<1>2. QuestionInv(d) /\ StreamInv(d)
  BY DEF ConnInv
<1>3. Handling(d) <=> c = d
  BY <1>1 DEF Handling
<1>4. Frame("connected", c) \in FrameType /\ toSub \in Seq(FrameType)
  BY <1>1, FrameTypes DEF ClientShape
<1>5. toSub' = Append(toSub, Frame("connected", c))
  BY <1>4, ConcatOne DEF AnswerSubscriber, Announcement
<1>6. subCtl' = subCtl \/ subCtl' = Append(subCtl, c)
  BY DEF AnswerSubscriber, Offered
<1>7. subCtl \in Seq(Conns \cup {Other}) /\ c \in Conns \cup {Other}
  BY <1>1 DEF ChannelInv
<1> HIDE DEF c
<1>8. /\ In(subCtl', d) => In(subCtl, d) \/ c = d
      /\ Once(subCtl, d) /\ (c = d => ~In(subCtl, d)) => Once(subCtl', d)
  <2>1. /\ In(Append(subCtl, c), d) <=> In(subCtl, d) \/ c = d
        /\ Once(subCtl, d) /\ (c = d => ~In(subCtl, d)) => Once(Append(subCtl, c), d)
    BY <1>7, AppendQueue
  <2> QED BY <1>6, <2>1, Zenon
<1>9. Frame("connected", c) \in Answers(d) <=> c = d
  BY FrameFacts DEF Answers
<1>10. /\ Frame("connected", c) # Frame("new", d)
       /\ Frame("connected", c) = Frame("connected", d) <=> c = d
  BY FrameFacts
<1>11. \A f : In(toSub', f) <=> In(toSub, f) \/ Frame("connected", c) = f
  BY <1>4, <1>5, AppendQueue
<1>12. /\ Answered(toSub', d) <=> Answered(toSub, d) \/ c = d
       /\ OneAnswer(toSub, d) /\ (c = d => ~Answered(toSub, d)) => OneAnswer(toSub', d)
       /\ Announced(toSub, d) => Announced(toSub', d)
  BY <1>4, <1>5, <1>9, <1>10, AppendAnswer
<1>13. /\ In(toSub', Frame("connected", d)) <=> In(toSub, Frame("connected", d)) \/ c = d
       /\ In(toSub', Frame("new", d)) <=> In(toSub, Frame("new", d))
  BY <1>10, <1>11
<1>14. In(toSub, Frame("connected", d)) => Answered(toSub, d)
  BY DEF In, Answered, Answers
<1>15. QuestionInv(d)'
  BY <1>1, <1>2, <1>3, <1>12 DEF QuestionInv, Handling
<1>16. StreamInv(d)'
  <2>1. c = d => local[d] = "asked" /\ ~In(subCtl, d) /\ d \notin data /\ d \notin streams
    BY <1>2, <1>3, <1>14 DEF StreamInv, QuestionInv
  <2> QED BY <1>1, <1>2, <1>8, <1>12, <1>13, <2>1 DEF StreamInv
<1> QED BY <1>15, <1>16

LEMMA ConnOther ==
    ASSUME ChannelInv, ClientShape, ConnInv, OtherTraffic \/ SubOther PROVE ConnInv'
<1>1. UNCHANGED <<asked, hand, toSub, data, streams, metas, local>>
  BY DEF OtherTraffic, SubOther, SubUnchanged, clientVars
<1>2. subCtl \in Seq(Conns \cup {Other})
  BY DEF ChannelInv
<1> SUFFICES ASSUME NEW d \in Conns PROVE QuestionInv(d)' /\ StreamInv(d)'
  BY DEF ConnInv
<1>3. QuestionInv(d) /\ StreamInv(d)
  BY DEF ConnInv
<1>4. (In(subCtl', d) <=> In(subCtl, d)) /\ (Once(subCtl, d) => Once(subCtl', d))
  <2>1. Other # d
    BY OtherIsNoConn
  <2>2. CASE subCtl' = subCtl
    BY <2>2
  <2>3. CASE subCtl' = Append(subCtl, Other)
    <3>1. /\ In(Append(subCtl, Other), d) <=> In(subCtl, d) \/ Other = d
          /\ Once(subCtl, d) /\ (Other = d => ~In(subCtl, d)) => Once(Append(subCtl, Other), d)
      BY <1>2, AppendQueue
    <3> QED BY <2>1, <2>3, <3>1, Zenon
  <2>4. CASE subCtl # <<>> /\ Head(subCtl) = Other /\ subCtl' = Tail(subCtl)
    <3>1. /\ In(subCtl, d) <=> Head(subCtl) = d \/ In(Tail(subCtl), d)
          /\ Once(subCtl, d) => Once(Tail(subCtl), d)
      BY <1>2, <2>4, TailQueue
    <3> QED BY <2>1, <2>4, <3>1, Zenon
  <2> QED BY <2>2, <2>3, <2>4 DEF OtherTraffic, SubOther
<1> QED BY <1>1, <1>3, <1>4 DEF QuestionInv, StreamInv, Handling

\* NewConnection follows P2pConnected, and the stream is the only one.
LEMMA ConnOpenSub ==
    ASSUME ChannelInv, ClientShape, ConnInv, NEW c \in Conns, OpenSub(c) \/ OpenSubFails(c)
    PROVE  ConnInv'
<1>1. /\ subCtl # <<>> /\ Head(subCtl) = c /\ subCtl' = Tail(subCtl)
      /\ UNCHANGED <<asked, hand, streams, metas, local>>
  BY DEF OpenSub, OpenSubFails, SubUnchanged, clientVars
<1>2. toSub' = toSub \/ toSub' = Append(toSub, Frame("new", c))
  BY DEF OpenSub, OpenSubFails
<1>3. data' = data \/ data' = data \cup {c}
  BY DEF OpenSub, OpenSubFails, SubUnchanged
<1>4. subCtl \in Seq(Conns \cup {Other})
  BY DEF ChannelInv
<1> SUFFICES ASSUME NEW d \in Conns PROVE QuestionInv(d)' /\ StreamInv(d)'
  BY DEF ConnInv
<1>5. QuestionInv(d) /\ StreamInv(d)
  BY DEF ConnInv
<1>6. /\ In(subCtl, d) <=> c = d \/ In(subCtl', d)
      /\ Once(subCtl, d) => Once(subCtl', d)
      /\ Once(subCtl, d) /\ c = d => ~In(subCtl', d)
  <2>1. /\ In(subCtl, d) <=> Head(subCtl) = d \/ In(Tail(subCtl), d)
        /\ Once(subCtl, d) => Once(Tail(subCtl), d)
        /\ Once(subCtl, d) /\ Head(subCtl) = d => ~In(Tail(subCtl), d)
    BY <1>1, <1>4, TailQueue
  <2> QED BY <1>1, <2>1, Zenon
<1>7. /\ Answered(toSub', d) <=> Answered(toSub, d)
      /\ OneAnswer(toSub, d) => OneAnswer(toSub', d)
      /\ In(toSub', Frame("connected", d)) <=> In(toSub, Frame("connected", d))
      /\ In(toSub', Frame("new", d)) => In(toSub, Frame("new", d)) \/ c = d
      /\ Announced(toSub, d) /\ (c = d => In(toSub, Frame("connected", d))) => Announced(toSub', d)
  <2>1. CASE toSub' = toSub
    BY <2>1, Zenon
  <2>2. CASE toSub' = Append(toSub, Frame("new", c))
    <3>1. Frame("new", c) \in FrameType /\ toSub \in Seq(FrameType)
      BY FrameTypes DEF ClientShape
    <3>2. Frame("new", c) \notin Answers(d) /\ Frame("new", c) # Frame("connected", d)
          /\ (Frame("new", c) = Frame("new", d) <=> c = d)
      BY FrameFacts DEF Answers
    <3>3. \A f : In(toSub', f) <=> In(toSub, f) \/ Frame("new", c) = f
      BY <2>2, <3>1, AppendQueue
    <3>4. /\ Answered(toSub', d) <=> Answered(toSub, d) \/ Frame("new", c) \in Answers(d)
          /\ OneAnswer(toSub, d) /\ (Frame("new", c) \in Answers(d) => ~Answered(toSub, d))
               => OneAnswer(toSub', d)
          /\ Announced(toSub, d) /\ (Frame("new", c) = Frame("new", d) => In(toSub, Frame("connected", d)))
               => Announced(toSub', d)
      BY <2>2, <3>1, AppendAnswer
    <3> QED BY <3>2, <3>3, <3>4, Zenon
  <2> QED BY <1>2, <2>1, <2>2
<1>8. QuestionInv(d)'
  BY <1>1, <1>5, <1>7 DEF QuestionInv, Handling
<1>9. StreamInv(d)'
  <2>1. c = d => \/ local[d] = "asked" /\ In(toSub, Frame("connected", d))
                 \/ local[d] = "waiting"
    BY <1>5, <1>6 DEF StreamInv
  <2>2. ~In(toSub, Frame("new", d)) => Announced(toSub, d)
    BY DEF In, Announced
  <2> QED BY <1>1, <1>3, <1>5, <1>6, <1>7, <2>1, <2>2 DEF StreamInv
<1> QED BY <1>8, <1>9

LEMMA ClientKept == ChannelInv /\ ClientInv /\ Next => ClientInv'
<1> SUFFICES ASSUME ChannelInv, ClientShape, ConnInv, NeverDialsItself, Next
             PROVE  ConnInv' /\ NeverDialsItself'
  BY ClientShapeKept DEF ClientInv
<1>1. ASSUME UNCHANGED selfdial PROVE NeverDialsItself'
  BY <1>1 DEF NeverDialsItself
<1>2. CASE UNCHANGED clientSide
  BY <1>2 DEF clientSide, ConnInv, QuestionInv, StreamInv, Handling, NeverDialsItself
<1>3. ASSUME NEW c \in Conns, Accept(c) \/ OnError(c) \/ OnConnected(c) \/ OnPunch(c)
      PROVE  ConnInv' /\ NeverDialsItself'
  BY <1>1, <1>3, ConnAccept, ConnOnError, ConnOnConnected, ConnOnPunch
  DEF Accept, OnError, OnConnected, OnPunch
<1>4. ASSUME NEW c \in Conns, OnNewConnection(c) \/ OnStream(c) PROVE ConnInv' /\ NeverDialsItself'
  BY <1>1, <1>4, ConnOnNewConnection, ConnOnStream
<1>5. CASE DataDrop \/ \E c \in Conns : LocalEnds(c)
  BY <1>1, <1>5, ConnLocal DEF DataDrop, LocalEnds
<1>6. CASE OtherTraffic \/ SubOther
  BY <1>1, <1>6, ConnOther DEF OtherTraffic, SubOther, SubUnchanged, clientVars
<1>7. CASE HandleConnect \/ AskPublisher \/ AnswerSubscriber
  BY <1>1, <1>7, ConnHandleConnect, ConnAskPublisher, ConnAnswerSubscriber
  DEF HandleConnect, AskPublisher, AnswerSubscriber, SubUnchanged, clientVars
<1>8. ASSUME NEW c \in Conns, OpenSub(c) \/ OpenSubFails(c) PROVE ConnInv' /\ NeverDialsItself'
  BY <1>1, <1>8, ConnOpenSub DEF OpenSub, OpenSubFails, SubUnchanged, clientVars
<1> QED
  BY <1>2, <1>3, <1>4, <1>5, <1>6, <1>7, <1>8, ClientStep DEF ClientTurn, SessionTurn

-----------------------------------------------------------------------------
(* The theorems *)

P2PInv == PublishInv /\ ChannelInv /\ RelayInv /\ pending \subseteq Ids /\ ClientInv

LEMMA P2PInitially == Init => P2PInv
<1> SUFFICES ASSUME Init PROVE P2PInv
  OBVIOUS
<1>1. PublishInv
  BY DEF Init, PublishInv, ServerShape, NameInv, NatIsNotMistaken
<1>2. ChannelInv
  BY P2PBounds DEF Init, ChannelInv, HandType, WithinCapacity, AsksKnowing, OnlyKnowingAsked
<1>3. RelayInv /\ pending \subseteq Ids
  BY DEF Init, RelayInv, StreamsKnowing, RelayHasStream
<1>4. ClientInv
  <2>1. ClientShape /\ NeverDialsItself
    BY DEF Init, ClientShape, NeverDialsItself
  <2>2. ConnInv
    BY DEF Init, ConnInv, QuestionInv, StreamInv, Handling, In, Once, Answered, OneAnswer, Announced
  <2> QED BY <2>1, <2>2 DEF ClientInv
<1> QED BY <1>1, <1>2, <1>3, <1>4 DEF P2PInv

\* The inductive invariant, for any publishers, local connections and channel
\* capacity.
THEOREM P2PInvariant == Spec => []P2PInv
<1>1. P2PInv /\ [Next]_vars => P2PInv'
  <2>1. P2PInv /\ Next => P2PInv'
    BY PublishStep, ChannelKept, RelayKept, PendingKept, ClientKept DEF P2PInv, ClientInv, ClientShape
  <2>2. P2PInv /\ UNCHANGED vars => P2PInv'
    <3> SUFFICES ASSUME P2PInv, UNCHANGED vars PROVE P2PInv'
      OBVIOUS
    <3> USE DEF vars, serverVars, relayVars, clientVars, wires, P2PInv
    <3>1. PublishInv'
      BY DEF PublishInv, ServerShape, NameInv, NatIsNotMistaken
    <3>2. ChannelInv'
      BY DEF ChannelInv, WithinCapacity, AsksKnowing, OnlyKnowingAsked
    <3>3. RelayInv' /\ (pending \subseteq Ids)'
      BY DEF RelayInv, StreamsKnowing, RelayHasStream, Ids
    <3>4. ClientInv'
      BY DEF ClientInv, ClientShape, NeverDialsItself, ConnInv, QuestionInv, StreamInv, Handling
    <3> QED BY <3>1, <3>2, <3>3, <3>4
  <2> QED BY <2>1, <2>2
<1> QED BY <1>1, P2PInitially, PTL DEF Spec

\* A relay only carries the subscriber's bytes to a publisher that knows the
\* secret: the check of handle_p2p_connect still holds when the publisher's
\* stream arrives, whatever has become of the name.
THEOREM SecretIsGuarded == Spec => []SecretGuards
<1>1. P2PInv => SecretGuards
  BY DEF P2PInv, RelayInv, StreamsKnowing, RelayHasStream, SecretGuards
<1> QED BY <1>1, P2PInvariant, PTL

\* The name stands for a tunnel that is registered (register_p2p_tunnel,
\* remove_tunnel).
THEOREM NameStaysAlive == Spec => []NameIsAlive
<1>1. P2PInv => NameIsAlive
  BY DEF P2PInv, PublishInv, NameInv, NameIsAlive
<1> QED BY <1>1, P2PInvariant, PTL

\* No NAT is taken for a friendlier one because of a late answer, the client
\* never dials its own port for a relay stream, and no control channel is over
\* its capacity (probe_nat, main_loop).
THEOREM PeersAreKnown == Spec => []PeersNotMistaken
<1>1. P2PInv => PeersNotMistaken
  BY DEF P2PInv, PublishInv, ChannelInv, RelayInv, ClientInv, ServerShape, ClientShape, WithinCapacity,
     Nobody, PeersNotMistaken, P2PTypeOK
<1> QED BY <1>1, P2PInvariant, PTL
=============================================================================
