--------------------------- MODULE Traffic_proofs ---------------------------
(***************************************************************************)
(* Proofs about what carries a tunnel's bytes and about what counts them.  *)
(*                                                                         *)
(* DataPlane and DataPipe, for every set of connections, every capacity of *)
(* the control and open channels and every number of reconnects, and       *)
(* Metering, for every set of sessions and tunnels, every plan and every   *)
(* bound: tunnel_log implements the account of UsageAccount, an open row   *)
(* is some session's to close, and a user's sessions overtake his plan by  *)
(* no more than their own number.                                          *)
(***************************************************************************)
EXTENDS DataPlane, DataPipe, Metering, FiniteSetTheorems, TLAPS

-----------------------------------------------------------------------------
(* Types *)

\* TypeOK without the upper bound of permits, which rests on their conservation.
Shape ==
  /\ edge \in [Conns -> EdgeStates]
  /\ permits \in Nat
  /\ pending \in SUBSET Conns
  /\ oneshot \in [Conns -> {"empty", "stream", "dropped"}]
  /\ ctrl \in Seq(Conns) /\ Len(ctrl) <= CtrlCap
  /\ alive \in BOOLEAN
  /\ hand \in Conns \cup {None}
  /\ driver \in {"running", "draining", "exiting", "dead"}
  /\ opening \in Conns \cup {None}
  /\ openq \in Seq(Conns) /\ Len(openq) <= OpenCap
  /\ link \in BOOLEAN
  /\ writer \in [Conns -> {"none", "writing", "cut"}]

-----------------------------------------------------------------------------
(* The decision about a connection *)

\* A connection that has not arrived is not registered and nothing was sent to
\* it.
Untouched ==
  \A c \in Conns : edge[c] \in {"new", "turned_away"} => c \notin pending /\ oneshot[c] = "empty"

DecisionInv == Untouched /\ PendingMeansUndecided /\ HttpLeavesNothing

-----------------------------------------------------------------------------
(* The place of a request *)

Queued(q, c) == \E i \in 1 .. Len(q) : q[i] = c
Distinct(q) == \A i, j \in 1 .. Len(q) : q[i] = q[j] => i = j

\* Before the edge task has sent it, a request is nowhere.
Unsent(c) == edge[c] \in {"new", "turned_away", "registered"}

\* In one stage of the hand-off there is no second stage for the same request.
OnePlace(c) ==
  /\ Unsent(c) =>
       ~Queued(ctrl, c) /\ ~Queued(openq, c) /\ hand # c /\ opening # c /\ writer[c] = "none"
  /\ Queued(ctrl, c) => ~Queued(openq, c) /\ hand # c /\ opening # c /\ writer[c] = "none"
  /\ Queued(openq, c) => hand # c /\ opening # c /\ writer[c] = "none"
  /\ hand = c => opening # c /\ writer[c] = "none"
  /\ opening = c => writer[c] = "none"

PlaceInv == Distinct(ctrl) /\ Distinct(openq) /\ \A c \in Conns : OnePlace(c)

-----------------------------------------------------------------------------
(* The permits *)

Holding == {c \in TcpConns : edge[c] \in {"registered", "waiting", "served"}}
PermitInv == IsFiniteSet(Holding) /\ permits + Cardinality(Holding) = MaxConns

-----------------------------------------------------------------------------

\* What Append, Head and Tail do to a channel.
LEMMA Appended ==
  ASSUME NEW q \in Seq(Conns), NEW c \in Conns
  PROVE  /\ Append(q, c) \in Seq(Conns) /\ Len(Append(q, c)) = Len(q) + 1
         /\ \A d : Queued(Append(q, c), d) <=> Queued(q, d) \/ d = c
         /\ Distinct(q) /\ ~Queued(q, c) => Distinct(Append(q, c))
<1>1. /\ Append(q, c) \in Seq(Conns) /\ Len(Append(q, c)) = Len(q) + 1 /\ Len(q) \in Nat
      /\ \A i \in 1 .. Len(q) : Append(q, c)[i] = q[i]
      /\ Append(q, c)[Len(q) + 1] = c
  OBVIOUS
<1>2. \A d : Queued(Append(q, c), d) <=> Queued(q, d) \/ d = c
  BY <1>1 DEF Queued
<1>3. Distinct(q) /\ ~Queued(q, c) => Distinct(Append(q, c))
  BY <1>1 DEF Queued, Distinct
<1> QED BY <1>1, <1>2, <1>3

LEMMA Taken ==
  ASSUME NEW q \in Seq(Conns), q # <<>>
  PROVE  /\ Head(q) \in Conns /\ Queued(q, Head(q))
         /\ Tail(q) \in Seq(Conns) /\ Len(Tail(q)) = Len(q) - 1
         /\ \A d : Queued(Tail(q), d) => Queued(q, d)
         /\ Distinct(q) => Distinct(Tail(q)) /\ ~Queued(Tail(q), Head(q))
<1>1. /\ Head(q) = q[1] /\ Len(q) \in Nat /\ Len(q) >= 1 /\ q[1] \in Conns
      /\ Tail(q) \in Seq(Conns) /\ Len(Tail(q)) = Len(q) - 1
      /\ \A i \in 1 .. Len(Tail(q)) : Tail(q)[i] = q[i + 1]
  OBVIOUS
<1>2. Queued(q, Head(q)) /\ \A d : Queued(Tail(q), d) => Queued(q, d)
  BY <1>1 DEF Queued
<1>3. Distinct(q) => Distinct(Tail(q)) /\ ~Queued(Tail(q), Head(q))
  BY <1>1 DEF Queued, Distinct
<1> QED BY <1>1, <1>2, <1>3

\* An empty channel is within its capacity.
LEMMA NoRoomTaken ==
  <<>> \in Seq(Conns) /\ Len(<<>>) <= CtrlCap /\ Len(<<>>) <= OpenCap
BY CapsPositive

LEMMA NothingQueued == Distinct(<<>>) /\ \A d : ~Queued(<<>>, d)
BY DEF Distinct, Queued

\* A connection is handled by one of the two edges.
LEMMA OneEdge == \A c \in Conns : c \in HttpConns <=> c \notin TcpConns
BY ConnsDisjoint DEF Conns

\* The steps by whose they are: Next, flattened.
EdgeMove(c) ==
  \/ SendControl(c) \/ Receive(c)
  \/ c \in HttpConns /\ (ArriveHttp(c) \/ SendFailsHttp(c) \/ TimeoutHttp(c) \/ AbandonHttp(c))
  \/ c \in TcpConns /\ (ArriveTcp(c) \/ TurnAway(c) \/ CopyEnds(c) \/ SendFailsTcp(c) \/ TimeoutTcp(c))
MainMove == TakeControl \/ PassOn \/ Rebuild \/ EndSession
DriverMove ==
  TakeOpen \/ OpenOk \/ OpenErr \/ OpenTimeout \/ StopDriver \/ Drain \/ DrainEnd \/ ExitDriver \/ DataDrop
WriterMove(c) == Deliver(c) \/ WriteFails(c)

LEMMA Moves ==
  ASSUME [Next]_vars
  PROVE  \/ \E c \in Conns : EdgeMove(c) \/ WriterMove(c)
         \/ MainMove \/ DriverMove \/ UNCHANGED vars
BY DEF Next, EdgeStep, MainStep, DriverStep, Environment, EdgeMove, MainMove, DriverMove,
       WriterMove, Conns

LEMMA ShapeInit == Init => Shape
BY CapsPositive DEF Init, Shape, EdgeStates

LEMMA ShapeStep == Shape /\ [Next]_vars => Shape'
<1> SUFFICES ASSUME Shape, [Next]_vars PROVE Shape'
  OBVIOUS
<1>1. ASSUME NEW c \in Conns, EdgeMove(c) PROVE Shape'
  <2> USE DEF Shape, EdgeStates, SetEdge, Leave, Cancel, mainVars, driverVars
  <2>1. CASE SendControl(c)
    BY <2>1, Appended, CapsPositive DEF SendControl
  <2>2. CASE Receive(c)
    BY <2>2 DEF Receive
  <2>3. CASE ArriveHttp(c) \/ SendFailsHttp(c) \/ TimeoutHttp(c) \/ AbandonHttp(c)
    BY <2>3 DEF ArriveHttp, SendFailsHttp, TimeoutHttp, AbandonHttp
  <2>4. CASE ArriveTcp(c) \/ TurnAway(c) \/ CopyEnds(c) \/ SendFailsTcp(c) \/ TimeoutTcp(c)
    BY <2>4 DEF ArriveTcp, TurnAway, CopyEnds, SendFailsTcp, TimeoutTcp
  <2> QED BY <1>1, <2>1, <2>2, <2>3, <2>4 DEF EdgeMove
<1>2. ASSUME NEW c \in Conns, WriterMove(c) PROVE Shape'
  BY <1>2 DEF WriterMove, Deliver, WriteFails, Resolve, Shape, mainVars, driverVars
<1>3. CASE MainMove
  <2> USE DEF Shape, Cancel, mainVars, driverVars
  <2>1. CASE TakeControl
    BY <2>1, Taken, CapsPositive DEF TakeControl
  <2>2. CASE PassOn
    <3>1. hand \in Conns
      BY <2>2 DEF PassOn
    <3>2. openq' \in Seq(Conns) /\ Len(openq') <= OpenCap
      BY <2>2, <3>1, Appended, CapsPositive DEF PassOn
    <3>3. pending' \in SUBSET Conns /\ oneshot' \in [Conns -> {"empty", "stream", "dropped"}]
      BY <2>2 DEF PassOn
    <3> QED BY <2>2, <3>2, <3>3 DEF PassOn
  <2>3. CASE Rebuild
    BY <2>3, NoRoomTaken DEF Rebuild
  <2>4. CASE EndSession
    BY <2>4, NoRoomTaken DEF EndSession
  <2> QED BY <1>3, <2>1, <2>2, <2>3, <2>4 DEF MainMove
<1>4. CASE DriverMove
  <2> USE DEF Shape, Cancel, mainVars, driverVars
  <2>1. CASE TakeOpen
    BY <2>1, Taken, CapsPositive DEF TakeOpen
  <2>4. CASE Drain
    <3>1. openq' \in Seq(Conns) /\ Len(openq') <= OpenCap
      BY <2>4, Taken, CapsPositive DEF Drain
    <3>2. pending' \in SUBSET Conns /\ oneshot' \in [Conns -> {"empty", "stream", "dropped"}]
      BY <2>4 DEF Drain
    <3> QED BY <2>4, <3>1, <3>2 DEF Drain
  <2>2. CASE OpenOk \/ OpenErr \/ OpenTimeout
    BY <2>2 DEF OpenOk, OpenErr, OpenTimeout
  <2>3. CASE StopDriver \/ DrainEnd \/ DataDrop
    BY <2>3 DEF StopDriver, DrainEnd, DataDrop
  <2>5. CASE ExitDriver
    BY <2>5, NoRoomTaken DEF ExitDriver
  <2> QED BY <1>4, <2>1, <2>2, <2>3, <2>4, <2>5 DEF DriverMove
<1>5. CASE UNCHANGED vars
  BY <1>5 DEF Shape, vars
<1> QED BY <1>1, <1>2, <1>3, <1>4, <1>5, Moves

\* Cancelling or resolving decides the connection if it is still registered.
LEMMA Decided ==
  ASSUME Shape, DecisionInv, NEW c \in Conns, Cancel(c) \/ Resolve(c), edge' = edge
  PROVE  DecisionInv'
<1>1. /\ pending' = pending \ {c}
      /\ \A d \in Conns \ {c} : oneshot'[d] = oneshot[d]
      /\ IF c \in pending THEN oneshot'[c] # "empty" ELSE oneshot'[c] = oneshot[c]
  BY DEF Cancel, Resolve, Shape
<1> QED BY <1>1 DEF DecisionInv, Untouched, PendingMeansUndecided, HttpLeavesNothing, Conns

LEMMA DecisionStep == Shape /\ DecisionInv /\ [Next]_vars => DecisionInv'
<1> SUFFICES ASSUME Shape, DecisionInv, [Next]_vars PROVE DecisionInv'
  OBVIOUS
<1>1. ASSUME edge' = edge, pending' = pending, oneshot' = oneshot PROVE DecisionInv'
  BY <1>1 DEF DecisionInv, Untouched, PendingMeansUndecided, HttpLeavesNothing
<1>2. ASSUME NEW c \in Conns, EdgeMove(c) PROVE DecisionInv'
  <2>1. \A d \in Conns \ {c} : edge'[d] = edge[d]
    BY <1>2 DEF EdgeMove, SendControl, Receive, ArriveHttp, SendFailsHttp, TimeoutHttp, AbandonHttp,
       ArriveTcp, TurnAway, CopyEnds, SendFailsTcp, TimeoutTcp, SetEdge, Leave, Shape
  <2> USE <2>1, OneEdge
      DEF DecisionInv, Untouched, PendingMeansUndecided, HttpLeavesNothing, Shape, SetEdge, Leave,
          Ended, Conns
  <2>2. CASE ArriveHttp(c) \/ ArriveTcp(c)
    BY <2>2 DEF ArriveHttp, ArriveTcp
  <2>3. CASE SendControl(c) \/ TurnAway(c)
    BY <2>3 DEF SendControl, TurnAway
  <2>4. CASE Receive(c)
    BY <2>4 DEF Receive
  <2>5. ASSUME SendFailsHttp(c) \/ TimeoutHttp(c) PROVE DecisionInv'
    <3>1. /\ pending' = pending \ {c}
          /\ \A d \in Conns \ {c} : oneshot'[d] = oneshot[d]
          /\ edge'[c] \in {"refused", "timed_out"}
      BY <2>5 DEF SendFailsHttp, TimeoutHttp, Cancel
    <3> QED BY <3>1
  <2>6. CASE c \in HttpConns /\ AbandonHttp(c)
    BY <2>6 DEF AbandonHttp
  <2>7. CASE c \in TcpConns /\ (CopyEnds(c) \/ SendFailsTcp(c) \/ TimeoutTcp(c))
    BY <2>7 DEF CopyEnds, SendFailsTcp, TimeoutTcp
  <2> QED BY <1>2, <2>2, <2>3, <2>4, <2>5, <2>6, <2>7 DEF EdgeMove
<1>3. ASSUME NEW c \in Conns, WriterMove(c) PROVE DecisionInv'
  BY <1>1, <1>3, Decided DEF WriterMove, Deliver, WriteFails
<1>4. CASE MainMove
  <2>1. CASE PassOn
    BY <1>1, <2>1, Decided DEF PassOn, Shape
  <2> QED BY <1>1, <1>4, <2>1 DEF MainMove, TakeControl, Rebuild, EndSession
<1>5. CASE DriverMove
  <2>1. CASE OpenTimeout
    BY <2>1, Decided DEF OpenTimeout, Shape
  <2>2. CASE Drain
    BY <2>2, Decided, Taken DEF Drain, Shape
  <2> QED
    BY <1>1, <1>5, <2>1, <2>2
    DEF DriverMove, TakeOpen, OpenOk, OpenErr, StopDriver, DrainEnd, ExitDriver, DataDrop
<1>6. CASE UNCHANGED vars
  BY <1>1, <1>6 DEF vars
<1> QED BY <1>2, <1>3, <1>4, <1>5, <1>6, Moves

\* Requests that leave a stage of the hand-off for nowhere keep the others single.
LEMMA FewerPlaces ==
  ASSUME PlaceInv, Distinct(ctrl'), Distinct(openq'),
         \A d \in Conns : /\ Unsent(d)' => Unsent(d)
                          /\ Queued(ctrl', d) => Queued(ctrl, d)
                          /\ Queued(openq', d) => Queued(openq, d)
                          /\ hand' = d => hand = d
                          /\ opening' = d => opening = d
                          /\ writer'[d] # "none" => writer[d] # "none"
  PROVE  PlaceInv'
BY DEF PlaceInv, OnePlace

LEMMA PlaceStep == Shape /\ PlaceInv /\ [Next]_vars => PlaceInv'
<1> SUFFICES ASSUME Shape, PlaceInv, [Next]_vars PROVE PlaceInv'
  OBVIOUS
<1>1. ASSUME NEW c \in Conns, EdgeMove(c) PROVE PlaceInv'
  <2>1. CASE SendControl(c)
    <3>1. ctrl' = Append(ctrl, c) /\ UNCHANGED <<openq, hand, opening, writer>>
      BY <2>1 DEF SendControl, driverVars
    <3>2. Unsent(c) /\ \A d \in Conns : Unsent(d)' <=> Unsent(d) /\ d # c
      BY <2>1 DEF SendControl, SetEdge, Unsent, Shape
    <3>3. Distinct(ctrl') /\ \A d : Queued(ctrl', d) <=> Queued(ctrl, d) \/ d = c
      BY <3>1, <3>2, Appended DEF PlaceInv, OnePlace, Shape
    <3>4. \A d \in Conns : OnePlace(d)'
      BY <3>1, <3>2, <3>3 DEF PlaceInv, OnePlace
    <3> QED BY <3>1, <3>3, <3>4 DEF PlaceInv
  <2>2. CASE ~SendControl(c)
    <3>1. UNCHANGED <<ctrl, openq, hand, opening, writer>>
      BY <1>1, <2>2 DEF EdgeMove, Receive, ArriveHttp, SendFailsHttp, TimeoutHttp, AbandonHttp,
         ArriveTcp, TurnAway, CopyEnds, SendFailsTcp, TimeoutTcp, mainVars, driverVars
    <3>2. \A d \in Conns : Unsent(d)' => Unsent(d)
      BY <1>1, <2>2 DEF EdgeMove, Receive, ArriveHttp, SendFailsHttp, TimeoutHttp, AbandonHttp,
         ArriveTcp, TurnAway, CopyEnds, SendFailsTcp, TimeoutTcp, SetEdge, Leave, Unsent, Shape
    <3> QED BY <3>1, <3>2, FewerPlaces DEF PlaceInv
  <2> QED BY <2>1, <2>2
<1>2. ASSUME NEW c \in Conns, WriterMove(c) PROVE PlaceInv'
  <2>1. UNCHANGED <<edge, ctrl, openq, hand, opening>>
        /\ \A d \in Conns : writer'[d] # "none" => writer[d] # "none"
    BY <1>2 DEF WriterMove, Deliver, WriteFails, mainVars, driverVars, Shape
  <2> QED BY <2>1, FewerPlaces DEF PlaceInv, Unsent
<1>3. CASE MainMove
  <2>1. CASE TakeControl
    <3>1. /\ ctrl # <<>> /\ hand = None /\ hand' = Head(ctrl) /\ ctrl' = Tail(ctrl)
          /\ UNCHANGED <<edge, openq, opening, writer>>
      BY <2>1 DEF TakeControl, driverVars
    <3>2. /\ Head(ctrl) \in Conns /\ Queued(ctrl, Head(ctrl)) /\ Distinct(ctrl')
          /\ ~Queued(ctrl', Head(ctrl)) /\ \A d : Queued(ctrl', d) => Queued(ctrl, d)
      BY <3>1, Taken DEF PlaceInv, Shape
    <3>3. \A d \in Conns : OnePlace(d)'
      BY <3>1, <3>2 DEF PlaceInv, OnePlace, Unsent
    <3> QED BY <3>1, <3>2, <3>3 DEF PlaceInv
  <2>2. CASE PassOn
    <3>1. /\ hand \in Conns /\ hand' = None /\ UNCHANGED <<edge, ctrl, opening, writer>>
          /\ openq' = openq \/ openq' = Append(openq, hand)
      BY <2>2 DEF PassOn, Shape
    <3>2. CASE openq' = openq
      BY <3>1, <3>2, FewerPlaces, NoneIsNoConn DEF PlaceInv, Unsent, Conns
    <3>3. CASE openq' = Append(openq, hand)
      <4>1. Distinct(openq') /\ \A d : Queued(openq', d) <=> Queued(openq, d) \/ d = hand
        BY <3>1, <3>3, Appended DEF PlaceInv, OnePlace, Shape
      <4>2. \A d \in Conns : OnePlace(d)'
        BY <3>1, <4>1, NoneIsNoConn DEF PlaceInv, OnePlace, Unsent, Conns
      <4> QED BY <3>1, <4>1, <4>2 DEF PlaceInv
    <3> QED BY <3>1, <3>2, <3>3
  <2>3. CASE Rebuild
    BY <2>3, FewerPlaces, NothingQueued, NoneIsNoConn DEF Rebuild, mainVars, PlaceInv, Unsent, Conns
  <2>4. CASE EndSession
    BY <2>4, FewerPlaces, NothingQueued DEF EndSession, driverVars, PlaceInv, Unsent
  <2> QED BY <1>3, <2>1, <2>2, <2>3, <2>4 DEF MainMove
<1>4. CASE DriverMove
  <2>1. CASE TakeOpen
    <3>1. /\ openq # <<>> /\ opening = None /\ opening' = Head(openq) /\ openq' = Tail(openq)
          /\ UNCHANGED <<edge, ctrl, hand, writer>>
      BY <2>1 DEF TakeOpen, mainVars
    <3>2. /\ Head(openq) \in Conns /\ Queued(openq, Head(openq)) /\ Distinct(openq')
          /\ ~Queued(openq', Head(openq)) /\ \A d : Queued(openq', d) => Queued(openq, d)
      BY <3>1, Taken DEF PlaceInv, Shape
    <3>3. \A d \in Conns : OnePlace(d)'
      BY <3>1, <3>2 DEF PlaceInv, OnePlace, Unsent
    <3> QED BY <3>1, <3>2, <3>3 DEF PlaceInv
  <2>2. CASE OpenOk
    <3>1. /\ opening \in Conns /\ opening' = None /\ UNCHANGED <<edge, ctrl, openq, hand>>
          /\ writer'[opening] = "writing" /\ \A d \in Conns \ {opening} : writer'[d] = writer[d]
      BY <2>2 DEF OpenOk, mainVars, Shape
    <3>2. \A d \in Conns : OnePlace(d)'
      BY <3>1, NoneIsNoConn DEF PlaceInv, OnePlace, Unsent, Conns
    <3> QED BY <3>1, <3>2 DEF PlaceInv
  <2>3. CASE OpenErr \/ OpenTimeout
    BY <2>3, FewerPlaces, NoneIsNoConn DEF OpenErr, OpenTimeout, mainVars, PlaceInv, Unsent, Conns
  <2>4. CASE Drain
    BY <2>4, FewerPlaces, Taken DEF Drain, mainVars, PlaceInv, Unsent, Shape
  <2>5. CASE ExitDriver
    BY <2>5, FewerPlaces, NothingQueued DEF ExitDriver, mainVars, PlaceInv, Unsent
  <2>6. CASE StopDriver \/ DrainEnd
    BY <2>6, FewerPlaces DEF StopDriver, DrainEnd, mainVars, PlaceInv, Unsent
  <2>7. CASE DataDrop
    BY <2>7, FewerPlaces DEF DataDrop, mainVars, PlaceInv, Unsent
  <2> QED BY <1>4, <2>1, <2>2, <2>3, <2>4, <2>5, <2>6, <2>7 DEF DriverMove
<1>5. CASE UNCHANGED vars
  BY <1>5, FewerPlaces DEF vars, PlaceInv, Unsent
<1> QED BY <1>1, <1>2, <1>3, <1>4, <1>5, Moves

\* A connection that lets go of its permit gives it back.
LEMMA PermitReturned ==
  ASSUME Shape, PermitInv, NEW c \in Holding, Holding' = Holding \ {c}, permits' = permits + 1
  PROVE  PermitInv'
<1>1. /\ IsFiniteSet(Holding \ {c}) /\ Cardinality(Holding \ {c}) = Cardinality(Holding) - 1
      /\ Cardinality(Holding) \in Nat
  BY FS_RemoveElement, FS_CardinalityType DEF PermitInv
<1> QED BY <1>1 DEF PermitInv, Shape

LEMMA PermitStep == Shape /\ PermitInv /\ [Next]_vars => PermitInv'
<1> SUFFICES ASSUME Shape, PermitInv, [Next]_vars PROVE PermitInv'
  OBVIOUS
<1>1. ASSUME permits' = permits, Holding' = Holding PROVE PermitInv'
  BY <1>1 DEF PermitInv
<1>2. ASSUME NEW c \in Conns, EdgeMove(c) PROVE PermitInv'
  <2> USE OneEdge DEF Shape, Holding, SetEdge, Leave, Conns
  <2>1. CASE SendControl(c)
    <3>1. permits' = permits /\ Holding' = Holding
      BY <2>1 DEF SendControl
    <3> QED BY <1>1, <3>1
  <2>2. CASE c \in HttpConns /\ (ArriveHttp(c) \/ SendFailsHttp(c) \/ TimeoutHttp(c) \/ AbandonHttp(c)
                                \/ Receive(c))
    <3>1. permits' = permits /\ Holding' = Holding
      BY <2>2 DEF ArriveHttp, SendFailsHttp, TimeoutHttp, AbandonHttp, Receive
    <3> QED BY <1>1, <3>1
  <2>3. CASE c \in TcpConns /\ (TurnAway(c) \/ (Receive(c) /\ oneshot[c] = "stream"))
    <3>1. permits' = permits /\ Holding' = Holding
      BY <2>3 DEF TurnAway, Receive
    <3> QED BY <1>1, <3>1
  <2>4. CASE c \in TcpConns /\ (CopyEnds(c) \/ SendFailsTcp(c) \/ TimeoutTcp(c)
                               \/ (Receive(c) /\ oneshot[c] # "stream"))
    <3>1. c \in Holding /\ permits' = permits + 1 /\ Holding' = Holding \ {c}
      BY <2>4 DEF CopyEnds, SendFailsTcp, TimeoutTcp, Receive
    <3> HIDE DEF Holding, Shape
    <3> QED BY <3>1, PermitReturned
  <2>5. CASE c \in TcpConns /\ ArriveTcp(c)
    <3>1. c \notin Holding /\ permits > 0 /\ permits' = permits - 1 /\ Holding' = Holding \cup {c}
      BY <2>5 DEF ArriveTcp
    <3>2. /\ IsFiniteSet(Holding \cup {c}) /\ Cardinality(Holding \cup {c}) = Cardinality(Holding) + 1
          /\ Cardinality(Holding) \in Nat
      <4> HIDE DEF Holding, Shape
      <4> QED BY <3>1, FS_AddElement, FS_CardinalityType DEF PermitInv
    <3>3. permits \in Nat
      OBVIOUS
    <3> HIDE DEF Holding, Shape
    <3> QED BY <3>1, <3>2, <3>3 DEF PermitInv
  <2> QED BY <1>2, <2>1, <2>2, <2>3, <2>4, <2>5 DEF EdgeMove
<1>3. ASSUME edge' = edge, permits' = permits PROVE PermitInv'
  BY <1>1, <1>3 DEF Holding
<1>4. ASSUME NEW c \in Conns, WriterMove(c) PROVE PermitInv'
  BY <1>3, <1>4 DEF WriterMove, Deliver, WriteFails
<1>5. CASE MainMove
  BY <1>3, <1>5 DEF MainMove, TakeControl, PassOn, Rebuild, EndSession
<1>6. CASE DriverMove
  BY <1>3, <1>6 DEF DriverMove, TakeOpen, OpenOk, OpenErr, OpenTimeout, StopDriver, Drain, DrainEnd,
     ExitDriver, DataDrop
<1>7. CASE UNCHANGED vars
  BY <1>3, <1>7 DEF vars
<1> QED BY <1>2, <1>4, <1>5, <1>6, <1>7, Moves

DataInv == Shape /\ DecisionInv /\ PlaceInv /\ PermitInv

\* The inductive invariant holds throughout.
THEOREM DataInvariant == Spec => []DataInv
<1>1. Init => DataInv
  <2> SUFFICES ASSUME Init PROVE DataInv
    OBVIOUS
  <2>1. DecisionInv
    BY DEF Init, DecisionInv, Untouched, PendingMeansUndecided, HttpLeavesNothing, Conns, Ended
  <2>2. PlaceInv
    BY NothingQueued, NoneIsNoConn DEF Init, PlaceInv, OnePlace, Conns
  <2>3. PermitInv
    <3>1. Holding = {}
      BY DEF Init, Holding, Conns
    <3> QED BY <3>1, FS_EmptySet, CapsPositive DEF Init, PermitInv
  <2> QED BY <2>1, <2>2, <2>3, ShapeInit DEF DataInv
<1>2. DataInv /\ [Next]_vars => DataInv'
  BY ShapeStep, DecisionStep, PlaceStep, PermitStep DEF DataInv
<1> QED BY <1>1, <1>2, PTL DEF Spec

\* One place means one element in the union that RequestIsSingle counts.
LEMMA OnePlaceCounts ==
  ASSUME Shape, PlaceInv, NEW c \in Conns
  PROVE  Cardinality({i \in 1..Len(ctrl) : ctrl[i] = c} \X {"ctrl"}
                     \cup {i \in 1..Len(openq) : openq[i] = c} \X {"openq"}
                     \cup {i \in {1} : hand = c} \X {"hand"}
                     \cup {i \in {1} : opening = c} \X {"opening"}
                     \cup {i \in {1} : writer[c] # "none"} \X {"writer"}) <= 1
<1> DEFINE C == {i \in 1..Len(ctrl) : ctrl[i] = c} \X {"ctrl"}
           O == {i \in 1..Len(openq) : openq[i] = c} \X {"openq"}
           H == {i \in {1} : hand = c} \X {"hand"}
           P == {i \in {1} : opening = c} \X {"opening"}
           W == {i \in {1} : writer[c] # "none"} \X {"writer"}
<1>1. /\ \A x, y \in C : x = y
      /\ \A x, y \in O : x = y
      /\ \A x, y \in H : x = y
      /\ \A x, y \in P : x = y
      /\ \A x, y \in W : x = y
  BY DEF PlaceInv, Distinct
<1>2. /\ C # {} => Queued(ctrl, c)
      /\ O # {} => Queued(openq, c)
      /\ H # {} => hand = c
      /\ P # {} => opening = c
      /\ W # {} => writer[c] # "none"
  BY DEF Queued
<1>3. OnePlace(c)
  BY DEF PlaceInv
<1> DEFINE S == C \cup O \cup H \cup P \cup W
<1> HIDE DEF C, O, H, P, W
<1>4. \A x, y \in S : x = y
  BY <1>1, <1>2, <1>3 DEF OnePlace
<1>5. S = {} \/ \E x : S = {x}
  BY <1>4
<1>6. Cardinality(S) <= 1
  <2> HIDE DEF S
  <2>1. CASE S = {}
    BY <2>1, FS_EmptySet
  <2>2. CASE \E x : S = {x}
    BY <2>2, FS_Singleton
  <2> QED BY <1>5, <2>1, <2>2
<1> QED BY <1>6 DEF C, O, H, P, W

\* A connection's request is in one stage of the hand-off, and its registration
\* ends exactly when it is decided, for any number of connections and any
\* capacity of the channels.
THEOREM DecidedOnce == Spec => []OneDecision
<1>1. DataInv => OneDecision
  <2> SUFFICES ASSUME DataInv PROVE OneDecision
    OBVIOUS
  <2>1. permits \in 0 .. MaxConns
    <3>1. Cardinality(Holding) \in Nat
      BY FS_CardinalityType DEF DataInv, PermitInv
    <3> QED BY <3>1, CapsPositive DEF DataInv, PermitInv, Shape
  <2>2. TypeOK
    BY <2>1 DEF DataInv, Shape, TypeOK
  <2>3. RequestIsSingle
    BY OnePlaceCounts DEF DataInv, RequestIsSingle
  <2> QED BY <2>2, <2>3 DEF DataInv, DecisionInv, OneDecision
<1> QED BY <1>1, DataInvariant, PTL

\* However a connection ends, its permit is back in conn_semaphore, and an HTTP
\* one whose visitor stayed has left nothing in pending_conns.
THEOREM EndsLeaveNothing == Spec => []EndedLeavesNothing
<1>1. DataInv => EndedLeavesNothing
  BY DEF DataInv, EndedLeavesNothing, PermitInv, Holding, TcpPermitsReturn, DecisionInv
<1> QED BY <1>1, DataInvariant, PTL

-----------------------------------------------------------------------------
(* Drivers and data WebSockets *)

SocketType ==
  [srv : {"none", "finding", "bridging", "done"}, tries : 0 .. MaxTries, pipe : 0 .. MaxEpoch,
   net : {"ok", "reset", "silent"}, open : BOOLEAN]

PipeFlags == registered \in BOOLEAN /\ running \in BOOLEAN
PipeSockets == sock \in [Sockets -> SocketType]
PipeCounts ==
  /\ epoch \in 0 .. MaxEpoch /\ slot \in 0 .. MaxEpoch /\ blips \in 0 .. MaxBlips
  /\ peers \in [1 .. MaxEpoch -> Nat]
PipeClient ==
  local \in [pc : {"first", "connected", "retry", "without", "gone"},
             sock : Sockets \cup {Nowhere}, failed : Nat]

PipeShape == PipeFlags /\ PipeSockets /\ PipeCounts /\ PipeClient

\* No handler has a pipe of a driver still to come.
PipesArePast == \A w \in Sockets : sock[w].pipe <= epoch

\* A pipe in the slot has met nobody, and neither has a driver still to come.
SlotIsFresh ==
  /\ slot # 0 => peers[slot] = 0
  /\ \A e \in 1 .. MaxEpoch : e > epoch => peers[e] = 0

\* While the session lasts, the client only closes a WebSocket whose handler is
\* at work because the network broke it.
ClosedIsBroken ==
  registered => \A w \in Sockets :
    sock[w].srv \in {"finding", "bridging"} /\ ~sock[w].open => sock[w].net # "ok"

\* A driver whose replacement is due, and handlers that will cost one.
Lost == IF running /\ Held(epoch) THEN 0 ELSE 1
Doomed ==
  {w \in Sockets : /\ sock[w].net # "ok"
                   /\ \/ sock[w].srv = "finding"
                      \/ sock[w].srv = "bridging" /\ sock[w].pipe = epoch /\ running}

\* Every driver after the first has been paid for with a blip.
Budget == registered => IsFiniteSet(Doomed) /\ epoch + Lost + Cardinality(Doomed) <= 1 + blips

PipeInv ==
  /\ PipeShape /\ SlotIsCurrent /\ OneConversation
  /\ PipesArePast /\ SlotIsFresh /\ ClosedIsBroken /\ Budget

LEMMA PipeBoundNat == MaxEpoch \in Nat /\ MaxEpoch = MaxBlips + 1 /\ MaxTries \in Nat /\ MaxBlips \in Nat
  BY PipeBounds DEF MaxEpoch

LEMMA UnusedSocket == Unused \in SocketType
  BY PipeBoundNat DEF Unused, SocketType

LEMMA PipeInitially == PipeInit => PipeInv
<1> SUFFICES ASSUME PipeInit PROVE PipeInv
  OBVIOUS
<1>1. Doomed = {}
  BY DEF Doomed, PipeInit, Unused
<1>2. IsFiniteSet(Doomed) /\ Cardinality(Doomed) = 0
  BY <1>1, FS_EmptySet
<1>3. Budget
  BY <1>2 DEF Budget, Lost, PipeInit
<1>4. PipeShape
  <2>1. PipeFlags
    BY DEF PipeFlags, PipeInit
  <2>2. PipeSockets
    BY PipeBoundNat DEF PipeSockets, PipeInit, SocketType, Unused
  <2>3. PipeCounts /\ PipeClient
    BY PipeBoundNat DEF PipeCounts, PipeClient, PipeInit, Client
  <2> QED BY <2>1, <2>2, <2>3 DEF PipeShape
<1>5. SlotIsCurrent /\ OneConversation /\ PipesArePast /\ SlotIsFresh /\ ClosedIsBroken
  BY PipeBoundNat DEF PipeInit, SlotIsCurrent, OneConversation, PipesArePast, SlotIsFresh,
     ClosedIsBroken, Unused
<1> QED BY <1>3, <1>4, <1>5 DEF PipeInv

LEMMA PipeShapeStep == PipeShape /\ SlotIsCurrent /\ PipeNext => PipeShape'
<1> SUFFICES ASSUME PipeShape, SlotIsCurrent, PipeNext PROVE PipeShape'
  OBVIOUS
<1> USE PipeBoundNat
<1>1. PipeFlags'
  BY DEF PipeShape, PipeFlags, PipeNext, ServerSide, spawn_yamux_driver, DriverEnds, DriverFails,
     SessionOver, ConnectFails, TakePipe, TryAgain, NotFound, BridgeEnds, Returns, ConnectData,
     DataLost, NetworkFails
<1>2. PipeCounts'
  <2> USE DEF PipeShape, PipeCounts
  <2>1. CASE spawn_yamux_driver
    BY <2>1 DEF spawn_yamux_driver
  <2>2. CASE DriverEnds \/ DriverFails \/ SessionOver \/ ConnectFails
    BY <2>2 DEF DriverEnds, DriverFails, SessionOver, ConnectFails, Blip
  <2>3. ASSUME NEW w \in Sockets, TakePipe(w) PROVE PipeCounts'
    BY <2>3 DEF TakePipe
  <2>4. ASSUME NEW w \in Sockets, TryAgain(w) \/ Returns(w) \/ ConnectData(w) \/ DataLost(w)
        PROVE  PipeCounts'
    BY <2>4 DEF TryAgain, Returns, ConnectData, DataLost
  <2>5. ASSUME NEW w \in Sockets, NetworkFails(w) PROVE PipeCounts'
    BY <2>5 DEF NetworkFails, Blip
  <2> QED
    BY <2>1, <2>2, <2>3, <2>4, <2>5 DEF PipeNext, ServerSide, NotFound, BridgeEnds
<1>3. PipeClient'
  <2> USE DEF PipeShape, PipeClient
  <2>1. CASE spawn_yamux_driver \/ DriverEnds \/ DriverFails
    BY <2>1 DEF spawn_yamux_driver, DriverEnds, DriverFails
  <2>2. CASE SessionOver
    BY <2>2 DEF SessionOver, Client
  <2>3. CASE ConnectFails
    <3>1. local' \in {Client("without", Nowhere, 0), Client("gone", Nowhere, 0),
                      [local EXCEPT !.failed = @ + 1]}
      BY <2>3 DEF ConnectFails
    <3> QED BY <3>1 DEF Client
  <2>4. ASSUME NEW w \in Sockets, TakePipe(w) \/ TryAgain(w) \/ Returns(w) \/ NetworkFails(w)
        PROVE  PipeClient'
    BY <2>4 DEF TakePipe, TryAgain, Returns, NetworkFails
  <2>5. ASSUME NEW w \in Sockets, ConnectData(w) \/ DataLost(w) PROVE PipeClient'
    BY <2>5 DEF ConnectData, DataLost, Client
  <2> QED
    BY <2>1, <2>2, <2>3, <2>4, <2>5 DEF PipeNext, ServerSide, NotFound, BridgeEnds
<1>4. PipeSockets'
  <2> USE DEF PipeShape, PipeSockets, SocketType
  <2>1. CASE SessionOver
    BY <2>1 DEF SessionOver
  <2>2. CASE spawn_yamux_driver \/ DriverEnds \/ DriverFails \/ ConnectFails
    BY <2>2 DEF spawn_yamux_driver, DriverEnds, DriverFails, ConnectFails
  <2>3. ASSUME NEW w \in Sockets, TakePipe(w) PROVE PipeSockets'
    <3>1. slot \in 0 .. MaxEpoch
      BY DEF PipeCounts
    <3>2. [sock[w] EXCEPT !.srv = "bridging", !.pipe = slot] \in SocketType
      BY <3>1
    <3> QED BY <2>3, <3>2 DEF TakePipe
  <2>4. ASSUME NEW w \in Sockets, TryAgain(w) PROVE PipeSockets'
    BY <2>4 DEF TryAgain
  <2>5. ASSUME NEW w \in Sockets, Returns(w) PROVE PipeSockets'
    <3>0. 0 \in 0 .. MaxEpoch
      OBVIOUS
    <3>1. [sock[w] EXCEPT !.srv = "done", !.pipe = 0] \in SocketType
      BY <3>0
    <3>2. sock' \in {[sock EXCEPT ![w] = Unused],
                     [sock EXCEPT ![w] = [sock[w] EXCEPT !.srv = "done", !.pipe = 0]]}
      BY <2>5 DEF Returns
    <3> HIDE DEF SocketType
    <3> QED BY <3>1, <3>2, UnusedSocket
  <2>6. ASSUME NEW w \in Sockets, ConnectData(w) PROVE PipeSockets'
    BY <2>6 DEF ConnectData, Unused, Accepted
  <2>7. ASSUME NEW w \in Sockets, DataLost(w) PROVE PipeSockets'
    <3>1. [sock[w] EXCEPT !.open = FALSE] \in SocketType
      OBVIOUS
    <3>2. sock' \in {[sock EXCEPT ![w] = Unused],
                     [sock EXCEPT ![w] = [sock[w] EXCEPT !.open = FALSE]]}
      BY <2>7 DEF DataLost
    <3> HIDE DEF SocketType
    <3> QED BY <3>1, <3>2, UnusedSocket
  <2>8. ASSUME NEW w \in Sockets, NetworkFails(w) PROVE PipeSockets'
    BY <2>8 DEF NetworkFails
  <2> QED
    BY <2>1, <2>2, <2>3, <2>4, <2>5, <2>6, <2>7, <2>8
    DEF PipeNext, ServerSide, NotFound, BridgeEnds
<1> QED BY <1>1, <1>2, <1>3, <1>4 DEF PipeShape

PipeSafe == SlotIsCurrent /\ OneConversation /\ PipesArePast /\ SlotIsFresh /\ ClosedIsBroken

LEMMA PipeSafeStep == PipeShape /\ PipeSafe /\ PipeNext => PipeSafe'
<1> SUFFICES ASSUME PipeShape, PipeSafe, PipeNext PROVE PipeSafe'
  OBVIOUS
<1> USE PipeBoundNat
<1> USE DEF PipeSafe, SlotIsCurrent, OneConversation, PipesArePast, SlotIsFresh, ClosedIsBroken,
            PipeShape, PipeFlags, PipeSockets, PipeCounts, SocketType
<1>1. CASE spawn_yamux_driver
  BY <1>1 DEF spawn_yamux_driver
<1>2. CASE DriverEnds \/ DriverFails
  BY <1>2 DEF DriverEnds, DriverFails
<1>3. CASE SessionOver
  BY <1>3 DEF SessionOver
<1>4. CASE ConnectFails
  BY <1>4 DEF ConnectFails
<1>5. ASSUME NEW w \in Sockets, TakePipe(w) PROVE PipeSafe'
  BY <1>5 DEF TakePipe
<1>6. ASSUME NEW w \in Sockets, TryAgain(w) PROVE PipeSafe'
  BY <1>6 DEF TryAgain
<1>7. ASSUME NEW w \in Sockets, Returns(w) PROVE PipeSafe'
  BY <1>7 DEF Returns, Unused
<1>8. ASSUME NEW w \in Sockets, ConnectData(w) PROVE PipeSafe'
  BY <1>8 DEF ConnectData, Unused, Accepted
<1>9. ASSUME NEW w \in Sockets, DataLost(w) PROVE PipeSafe'
  BY <1>9 DEF DataLost, Noticed, ReadEnds, ReadErr, Unused
<1>10. ASSUME NEW w \in Sockets, NetworkFails(w) PROVE PipeSafe'
  BY <1>10 DEF NetworkFails
<1> QED
  BY <1>1, <1>2, <1>3, <1>4, <1>5, <1>6, <1>7, <1>8, <1>9, <1>10
  DEF PipeNext, ServerSide, NotFound, BridgeEnds

-----------------------------------------------------------------------------
(* The budget of drivers *)

\* The budget survives a step that keeps the session, if what the step adds to
\* the drivers, the lost one and the doomed handlers is paid in blips.
LEMMA Paid ==
  \A e, l, d, b, e2, l2, d2, b2 \in Nat :
    e + l + d <= 1 + b /\ e2 + l2 + b <= e + l + b2 /\ d2 <= d => e2 + l2 + d2 <= 1 + b2
  OBVIOUS

LEMMA BudgetOf ==
  ASSUME NEW S, IsFiniteSet(S), NEW T, T \subseteq S
  PROVE  IsFiniteSet(T) /\ Cardinality(T) \in Nat /\ Cardinality(S) \in Nat
         /\ Cardinality(T) <= Cardinality(S)
  BY FS_Subset, FS_CardinalityType

LEMMA PipeBudgetStep == PipeInv /\ PipeNext => Budget'
<1>a. Lost' \in Nat
  BY DEF Lost
<1>b. PICK l2 \in Nat : l2 = Lost'
  BY <1>a
<1> SUFFICES ASSUME PipeInv, PipeNext, registered'
             PROVE  IsFiniteSet(Doomed') /\ epoch' + l2 + Cardinality(Doomed') <= 1 + blips'
  BY <1>b, Zenon DEF Budget
<1> USE PipeBoundNat
<1>0. registered
  BY DEF PipeInv, PipeShape, PipeFlags, PipeNext, ServerSide, spawn_yamux_driver, DriverEnds,
     DriverFails, SessionOver, ConnectFails, TakePipe, TryAgain, NotFound, BridgeEnds, Returns,
     ConnectData, DataLost, NetworkFails
<1>1. IsFiniteSet(Doomed) /\ epoch + Lost + Cardinality(Doomed) <= 1 + blips
  BY <1>0 DEF PipeInv, Budget
<1>2. epoch \in Nat /\ blips \in Nat /\ Lost \in Nat /\ l2 <= 1
  <2>1. epoch \in Nat /\ blips \in Nat
    BY DEF PipeInv, PipeShape, PipeCounts
  <2>2. (Lost = 0 \/ Lost = 1) /\ (l2 = 0 \/ l2 = 1)
    BY <1>b, Zenon DEF Lost
  <2> QED BY <2>1, <2>2
<1>3. Cardinality(Doomed) \in Nat
  BY <1>1, FS_CardinalityType
<1>4. ASSUME Doomed' \subseteq Doomed, epoch' + l2 + blips <= epoch + Lost + blips',
             epoch' \in Nat, blips' \in Nat
      PROVE  IsFiniteSet(Doomed') /\ epoch' + l2 + Cardinality(Doomed') <= 1 + blips'
  <2>1. IsFiniteSet(Doomed') /\ Cardinality(Doomed') \in Nat
        /\ Cardinality(Doomed') <= Cardinality(Doomed)
    BY <1>1, <1>4, BudgetOf
  <2>2. epoch' + l2 + blips <= epoch + Lost + blips' /\ epoch' \in Nat /\ blips' \in Nat
    BY <1>4, Zenon
  <2>3. PICK n \in Nat : n = Cardinality(Doomed')
    BY <2>1
  <2>4. n <= Cardinality(Doomed)
    BY <2>1, <2>3, Zenon
  <2>5. epoch' + l2 + n <= 1 + blips'
    BY <1>1, <1>2, <1>3, <2>2, <2>4, Paid, Zenon
  <2> QED BY <2>1, <2>3, <2>5, Zenon
<1> USE DEF PipeInv
<1>5. CASE spawn_yamux_driver
  <2>1. Lost = 1 /\ l2 = 0 /\ epoch' = epoch + 1 /\ blips' = blips
    BY <1>b, <1>5 DEF spawn_yamux_driver, Lost, Held
  <2>2. Doomed' \subseteq Doomed
    BY <1>2, <1>5 DEF spawn_yamux_driver, Doomed, PipesArePast, PipeShape, PipeSockets, SocketType
  <2>9. epoch' + l2 + blips <= epoch + Lost + blips' /\ epoch' \in Nat /\ blips' \in Nat
    BY <1>2, <2>1
  <2> QED BY <1>4, <2>9, <2>2
<1>6. CASE DriverEnds
  <2>1. Lost = 1 /\ epoch' = epoch /\ blips' = blips
    BY <1>0, <1>6 DEF DriverEnds, Lost
  <2>2. Doomed' \subseteq Doomed
    BY <1>6 DEF DriverEnds, Doomed
  <2>9. epoch' + l2 + blips <= epoch + Lost + blips' /\ epoch' \in Nat /\ blips' \in Nat
    BY <1>2, <2>1
  <2> QED BY <1>4, <2>9, <2>2
<1>7. CASE DriverFails
  <2>1. epoch' = epoch /\ blips' = blips + 1
    BY <1>7 DEF DriverFails, Blip
  <2>2. Doomed' \subseteq Doomed
    BY <1>7 DEF DriverFails, Doomed
  <2>9. epoch' + l2 + blips <= epoch + Lost + blips' /\ epoch' \in Nat /\ blips' \in Nat
    BY <1>2, <2>1
  <2> QED BY <1>4, <2>9, <2>2
<1>8. CASE SessionOver
  BY <1>8 DEF SessionOver
<1>9. CASE ConnectFails
  <2>1. epoch' = epoch /\ blips' = blips + 1
    BY <1>9 DEF ConnectFails, Blip
  <2>2. Doomed' \subseteq Doomed
    BY <1>9 DEF ConnectFails, Doomed
  <2>9. epoch' + l2 + blips <= epoch + Lost + blips' /\ epoch' \in Nat /\ blips' \in Nat
    BY <1>2, <2>1
  <2> QED BY <1>4, <2>9, <2>2
<1>10. ASSUME NEW w \in Sockets, TakePipe(w)
       PROVE  IsFiniteSet(Doomed') /\ epoch' + l2 + Cardinality(Doomed') <= 1 + blips'
  <2>1. epoch' = epoch /\ blips' = blips /\ slot = epoch /\ running' = running
    BY <1>10 DEF TakePipe, SlotIsCurrent
  <2>2. sock'[w].srv = "bridging" /\ sock'[w].pipe = epoch
    BY <1>10, <2>1 DEF TakePipe, PipeShape, PipeSockets, SocketType
  <2>3. Held(epoch) /\ Held(epoch)'
    BY <2>1, <2>2 DEF Held
  <2>4. l2 = Lost
    BY <1>b, <2>1, <2>3 DEF Lost
  <2>5. Doomed' \subseteq Doomed
    BY <1>10 DEF TakePipe, Doomed, PipeShape, PipeSockets, SocketType
  <2>9. epoch' + l2 + blips <= epoch + Lost + blips' /\ epoch' \in Nat /\ blips' \in Nat
    BY <1>2, <2>1, <2>4
  <2> QED BY <1>4, <2>9, <2>5
<1>11. ASSUME NEW w \in Sockets, TryAgain(w)
       PROVE  IsFiniteSet(Doomed') /\ epoch' + l2 + Cardinality(Doomed') <= 1 + blips'
  <2>1. epoch' = epoch /\ blips' = blips /\ running' = running /\ slot' = slot
    BY <1>11 DEF TryAgain
  <2>2. Held(epoch) => Held(epoch)'
    BY <1>11, <2>1 DEF TryAgain, Held, PipeShape, PipeSockets, SocketType
  <2>3. l2 <= Lost
    BY <1>b, <2>1, <2>2 DEF Lost
  <2>4. Doomed' \subseteq Doomed
    BY <1>11 DEF TryAgain, Doomed, PipeShape, PipeSockets, SocketType
  <2>9. epoch' + l2 + blips <= epoch + Lost + blips' /\ epoch' \in Nat /\ blips' \in Nat
    BY <1>2, <2>1, <2>3
  <2> QED BY <1>4, <2>9, <2>4
<1>12. ASSUME NEW w \in Sockets, ConnectData(w)
       PROVE  IsFiniteSet(Doomed') /\ epoch' + l2 + Cardinality(Doomed') <= 1 + blips'
  <2>1. epoch' = epoch /\ blips' = blips /\ running' = running /\ slot' = slot
    BY <1>12 DEF ConnectData
  <2>2. Held(epoch) => Held(epoch)'
    BY <1>12, <2>1 DEF ConnectData, Unused, Held, PipeShape, PipeSockets, SocketType
  <2>3. l2 <= Lost
    BY <1>b, <2>1, <2>2 DEF Lost
  <2>4. Doomed' \subseteq Doomed
    BY <1>12 DEF ConnectData, Accepted, Unused, Doomed, PipeShape, PipeSockets, SocketType
  <2>9. epoch' + l2 + blips <= epoch + Lost + blips' /\ epoch' \in Nat /\ blips' \in Nat
    BY <1>2, <2>1, <2>3
  <2> QED BY <1>4, <2>9, <2>4
<1>13. ASSUME NEW w \in Sockets, DataLost(w)
       PROVE  IsFiniteSet(Doomed') /\ epoch' + l2 + Cardinality(Doomed') <= 1 + blips'
  <2>1. epoch' = epoch /\ blips' = blips /\ running' = running /\ slot' = slot
    BY <1>13 DEF DataLost
  <2>2. Held(epoch) => Held(epoch)'
    BY <1>13, <2>1 DEF DataLost, Unused, Held, PipeShape, PipeSockets, SocketType
  <2>3. l2 <= Lost
    BY <1>b, <2>1, <2>2 DEF Lost
  <2>4. Doomed' \subseteq Doomed
    BY <1>13 DEF DataLost, Unused, Doomed, PipeShape, PipeSockets, SocketType
  <2>9. epoch' + l2 + blips <= epoch + Lost + blips' /\ epoch' \in Nat /\ blips' \in Nat
    BY <1>2, <2>1, <2>3
  <2> QED BY <1>4, <2>9, <2>4
<1>14. ASSUME NEW w \in Sockets, NetworkFails(w)
       PROVE  IsFiniteSet(Doomed') /\ epoch' + l2 + Cardinality(Doomed') <= 1 + blips'
  <2>1. epoch' = epoch /\ blips' = blips + 1 /\ running' = running /\ slot' = slot
    BY <1>14 DEF NetworkFails, Blip
  <2>2. Held(epoch) => Held(epoch)'
    BY <1>14, <2>1 DEF NetworkFails, Held, PipeShape, PipeSockets, SocketType
  <2>3. l2 <= Lost
    BY <1>b, <2>1, <2>2 DEF Lost
  <2>4. Doomed' \subseteq Doomed \cup {w}
    BY <1>14 DEF NetworkFails, Doomed, PipeShape, PipeSockets, SocketType
  <2>5. IsFiniteSet(Doomed \cup {w}) /\ Cardinality(Doomed \cup {w}) <= Cardinality(Doomed) + 1
        /\ Cardinality(Doomed \cup {w}) \in Nat
    <3>1. IsFiniteSet(Doomed \cup {w}) /\ Cardinality(Doomed \cup {w})
                = IF w \in Doomed THEN Cardinality(Doomed) ELSE Cardinality(Doomed) + 1
      BY <1>1, FS_AddElement
    <3> QED BY <1>3, <3>1
  <2>6. IsFiniteSet(Doomed') /\ Cardinality(Doomed') \in Nat
        /\ Cardinality(Doomed') <= Cardinality(Doomed \cup {w})
    BY <2>4, <2>5, BudgetOf
  <2> QED BY <1>1, <1>2, <1>3, <2>1, <2>3, <2>5, <2>6
<1>15. ASSUME NEW w \in Sockets, NotFound(w)
       PROVE  IsFiniteSet(Doomed') /\ epoch' + l2 + Cardinality(Doomed') <= 1 + blips'
  <2>1. epoch' = epoch /\ blips' = blips /\ running' = running /\ slot' = slot
    BY <1>15 DEF NotFound, Returns
  <2>2. Held(epoch) => Held(epoch)'
    BY <1>15, <2>1 DEF NotFound, Returns, Unused, Held, PipeShape, PipeSockets, SocketType
  <2>3. l2 <= Lost
    BY <1>b, <2>1, <2>2 DEF Lost
  <2>4. Doomed' \subseteq Doomed
    BY <1>15 DEF NotFound, Returns, Unused, Doomed, PipeShape, PipeSockets, SocketType
  <2>9. epoch' + l2 + blips <= epoch + Lost + blips' /\ epoch' \in Nat /\ blips' \in Nat
    BY <1>2, <2>1, <2>3
  <2> QED BY <1>4, <2>9, <2>4
<1>16. ASSUME NEW w \in Sockets, BridgeEnds(w)
       PROVE  IsFiniteSet(Doomed') /\ epoch' + l2 + Cardinality(Doomed') <= 1 + blips'
  <2>1. epoch' = epoch /\ blips' = blips /\ running' = running /\ slot' = slot
    BY <1>16 DEF BridgeEnds, Returns
  <2>2. Doomed' \subseteq Doomed \ {w}
    BY <1>16 DEF BridgeEnds, Returns, Unused, Doomed, PipeShape, PipeSockets, SocketType
  <2>3. CASE sock[w].pipe = epoch /\ running
    <3>1. w \in Doomed
      BY <1>0, <1>16, <2>3 DEF BridgeEnds, Doomed, ClosedIsBroken
    <3>2. IsFiniteSet(Doomed \ {w}) /\ Cardinality(Doomed \ {w}) = Cardinality(Doomed) - 1
      BY <1>1, <3>1, FS_RemoveElement
    <3>3. IsFiniteSet(Doomed') /\ Cardinality(Doomed') \in Nat
          /\ Cardinality(Doomed') <= Cardinality(Doomed \ {w})
      BY <2>2, <3>2, BudgetOf
    <3> QED BY <1>1, <1>2, <1>3, <2>1, <3>2, <3>3
  <2>4. CASE ~(sock[w].pipe = epoch /\ running)
    <3>1. Held(epoch) /\ running => Held(epoch)'
      BY <1>16, <2>1, <2>4 DEF BridgeEnds, Returns, Held, PipeShape, PipeSockets, SocketType
    <3>2. l2 <= Lost
      BY <1>b, <2>1, <3>1 DEF Lost
    <3>3. epoch' + l2 + blips <= epoch + Lost + blips' /\ epoch' \in Nat /\ blips' \in Nat
      BY <1>2, <2>1, <3>2
    <3> QED BY <1>4, <2>2, <3>3
  <2> QED BY <2>3, <2>4
<1> QED
  BY <1>5, <1>6, <1>7, <1>8, <1>9, <1>10, <1>11, <1>12, <1>13, <1>14, <1>15, <1>16
  DEF PipeNext, ServerSide

\* The inductive invariant of the pipe, for any number of data WebSockets,
\* looks and faults.
THEOREM PipeInvariant == PipeSpec => []PipeInv
<1>1. PipeInv /\ [PipeNext]_pipeVars => PipeInv'
  <2>1. PipeInv /\ PipeNext => PipeInv'
    BY PipeShapeStep, PipeSafeStep, PipeBudgetStep DEF PipeInv, PipeSafe
  <2>2. PipeInv /\ UNCHANGED pipeVars => PipeInv'
    BY DEF pipeVars, PipeInv, PipeShape, PipeFlags, PipeSockets, PipeCounts, PipeClient,
       SlotIsCurrent, OneConversation, PipesArePast, SlotIsFresh, ClosedIsBroken, Budget, Lost,
       Doomed, Held
  <2> QED BY <2>1, <2>2
<1> QED BY <1>1, PipeInitially, PTL DEF PipeSpec

LEMMA PipeInvSuffices == PipeInv => PipesAreCurrent
<1> SUFFICES ASSUME PipeInv PROVE PipesAreCurrent
  OBVIOUS
<1>1. registered /\ ~running => epoch < MaxEpoch
  <2> SUFFICES ASSUME registered, ~running PROVE epoch < MaxEpoch
    OBVIOUS
  <2>1. IsFiniteSet(Doomed) /\ epoch + 1 + Cardinality(Doomed) <= 1 + blips
    BY DEF PipeInv, Budget, Lost
  <2>2. Cardinality(Doomed) \in Nat
    BY <2>1, FS_CardinalityType
  <2> QED BY <2>1, <2>2, PipeBoundNat DEF PipeInv, PipeShape, PipeCounts
<1> QED
  BY <1>1, PipeBoundNat
  DEF PipesAreCurrent, PipeTypeOK, PipeInv, PipeShape, PipeFlags, PipeSockets, PipeCounts, PipeClient,
      SocketType

\* The slot never holds the pipe of an earlier driver, no driver talks to two
\* WebSockets, and a fault costs one driver at most, whatever order the main
\* loop, the handlers of /_data/<session_id> and the client notice it in
\* (set_data_pipe, take_data_pipe, handle_data_connection).
THEOREM PipesStayCurrent == PipeSpec => []PipesAreCurrent
  BY PipeInvariant, PipeInvSuffices, PTL

-----------------------------------------------------------------------------
(* Metering: counters, rows and plans. *)

-----------------------------------------------------------------------------
(* The inductive invariant *)

\* An exit has been accounted for before main begins its shutdown.
StopIsCounted == phase \in {"flush", "close"} => stops < MaxStops

\* A snapshot never exceeds the counter it was taken from, however late it is
\* written.
SnapshotsTrue == \A k \in Tasks : \A t \in DOMAIN todo[k] : todo[k][t] <= meter[t]

\* Nor does a row; a row not yet inserted has no bytes.
RowsTrue ==
  \A t \in Tunnels : /\ rows[t].bytes <= meter[t]
                     /\ rows[t].state = "none" => rows[t].bytes = 0

\* An id nobody was given has no row, and no session has it.
IdsFresh ==
  \A t \in Tunnels \ issued : rows[t].state = "none" /\ \A s \in Sessions : t \notin own[s]

\* An id is in one session's list.
OwnedOnce == \A r, s \in Sessions : \A t \in own[r] \cap own[s] : r = s

\* A session inserts the row of a tunnel in its list, and there is none yet.
InsertsOwn ==
  \A s \in Sessions : sess[s] = "insert" =>
    \A t \in DOMAIN todo[s] : t \in own[s] /\ rows[t].state = "none"

\* The snapshot at the end of main_loop covers every row left to close.
EndingCovers ==
  \A s \in Sessions : sess[s] = "ending" =>
    \A t \in own[s] : t \in DOMAIN todo[s] \/ rows[t].state # "open" \/ t \in unclosed

MInv ==
  /\ MeterTypeOK /\ DOMAIN todo = Tasks /\ StopIsCounted
  /\ SnapshotsTrue /\ RowsTrue
  /\ IdsFresh /\ OwnedOnce /\ InsertsOwn /\ EndingCovers /\ RowsFollowSessions

\* The overrun is bounded by what is about to be inserted: a check that let a
\* registration through leaves room for every session's own and for the one
\* elsewhere.
Inserting == {s \in Sessions : sess[s] = "insert"}
Due == Cardinality(Inserting) + (IF elsewhere = "checked" THEN 1 ELSE 0)
PlanInv ==
  /\ IsFiniteSet(OpenRows)
  /\ UserRows + Due <= MaxTunnels + Cardinality(Sessions)

-----------------------------------------------------------------------------
(* What the pieces of an action do *)

\* The shape of the variables, as the provers use it.
LEMMA Shapes ==
  ASSUME MInv
  PROVE  /\ \A s \in Sessions : s \in Tasks /\ own[s] \subseteq Tunnels
         /\ "timer" \in Tasks /\ "main" \in Tasks
         /\ \A k \in Tasks : \A t \in DOMAIN todo[k] : t \in Tunnels /\ todo[k][t] \in 0 .. MaxBytes
         /\ live \subseteq Tunnels
BY DEF MInv, MeterTypeOK, Tasks, Flushers

\* A task gets a new snapshot.
LEMMA TodoIsSet ==
  ASSUME DOMAIN todo = Tasks, NEW k \in Tasks, NEW f, todo' = [todo EXCEPT ![k] = f]
  PROVE  /\ DOMAIN todo' = Tasks /\ todo'[k] = f
         /\ \A j \in Tasks \ {k} : todo'[j] = todo[j]
OBVIOUS

\* A task has dealt with one tunnel of its snapshot.
LEMMA DoneDrops ==
  ASSUME DOMAIN todo = Tasks, NEW k \in Tasks, NEW t, Done(k, t)
  PROVE  /\ DOMAIN todo' = Tasks
         /\ DOMAIN todo'[k] = DOMAIN todo[k] \ {t}
         /\ \A u \in DOMAIN todo'[k] : todo'[k][u] = todo[k][u]
         /\ \A j \in Tasks \ {k} : todo'[j] = todo[j]
BY DEF Done, Drop

\* The counters of a snapshot are those of the moment.
LEMMA MetersAreCounters ==
  ASSUME MInv
  PROVE  /\ \A t \in Tunnels : tunnel_meter(t) \in 0 .. MaxBytes /\ tunnel_meter(t) <= meter[t]
         /\ DOMAIN live_tunnel_meters = live
         /\ \A t \in live : live_tunnel_meters[t] = meter[t]
BY MeterBounds DEF MInv, MeterTypeOK, tunnel_meter, live_tunnel_meters

\* A row is left alone or, if it is open, gets the larger count.
Settles(t, n) ==
  \/ rows' = rows
  \/ /\ rows[t].state = "open" /\ n \in rows[t].bytes .. meter[t] /\ n \in 0 .. MaxBytes
     /\ \/ rows' = [rows EXCEPT ![t].bytes = n]
        \/ rows' = [rows EXCEPT ![t] = [state |-> "closed", bytes |-> n]]

\* GREATEST keeps a row between what it was and what was carried.
LEMMA WritesSettle ==
  ASSUME MInv, NEW k \in Tasks, NEW t \in DOMAIN todo[k],
         \/ WriteCounters(t, todo[k][t])
         \/ WriteClose(t, todo[k][t])
  PROVE  /\ t \in Tunnels
         /\ Settles(t, Greatest(rows[t].bytes, todo[k][t]))
<1>1. t \in Tunnels /\ todo[k][t] \in 0 .. MaxBytes /\ todo[k][t] <= meter[t]
  BY Shapes DEF MInv, SnapshotsTrue
<1>2. rows[t].bytes \in 0 .. MaxBytes /\ rows[t].bytes <= meter[t] /\ meter[t] \in 0 .. MaxBytes
  BY <1>1 DEF MInv, MeterTypeOK, RowsTrue
<1> DEFINE n == Greatest(rows[t].bytes, todo[k][t])
<1>3. n \in rows[t].bytes .. meter[t] /\ n \in 0 .. MaxBytes
  BY <1>1, <1>2, MeterBounds DEF Greatest
<1>4. \/ rows' = rows
      \/ /\ rows[t].state = "open"
         /\ \/ rows' = [rows EXCEPT ![t].bytes = n]
            \/ rows' = [rows EXCEPT ![t] = [state |-> "closed", bytes |-> n]]
  BY <1>1 DEF WriteCounters, WriteClose, MInv, MeterTypeOK
<1> QED BY <1>1, <1>3, <1>4 DEF Settles

\* Such a write keeps the rows typed and true, and opens none.
LEMMA SettledRows ==
  ASSUME MInv, NEW t \in Tunnels, NEW n, Settles(t, n), meter' = meter
  PROVE  /\ rows' \in [Tunnels -> [state : {"none", "open", "closed"}, bytes : 0 .. MaxBytes]]
         /\ RowsTrue'
         /\ \A u \in Tunnels : /\ rows'[u].state = "open" => rows[u].state = "open"
                               /\ rows'[u].state = "none" <=> rows[u].state = "none"
<1>1. CASE rows' = rows
  BY <1>1 DEF MInv, MeterTypeOK, RowsTrue
<1>2. CASE /\ rows[t].state = "open" /\ n \in rows[t].bytes .. meter[t] /\ n \in 0 .. MaxBytes
           /\ \/ rows' = [rows EXCEPT ![t].bytes = n]
              \/ rows' = [rows EXCEPT ![t] = [state |-> "closed", bytes |-> n]]
  <2>1. rows' \in [Tunnels -> [state : {"none", "open", "closed"}, bytes : 0 .. MaxBytes]]
    BY <1>2 DEF MInv, MeterTypeOK
  <2>2. /\ rows'[t].bytes = n /\ rows'[t].state \in {"open", "closed"}
        /\ \A u \in Tunnels \ {t} : rows'[u] = rows[u]
    BY <1>2 DEF MInv, MeterTypeOK
  <2>3. RowsTrue'
    BY <1>2, <2>2, MeterBounds DEF MInv, MeterTypeOK, RowsTrue
  <2> QED BY <1>2, <2>1, <2>2, <2>3
<1> QED BY <1>1, <1>2 DEF Settles

-----------------------------------------------------------------------------
(* Each action keeps the invariant *)

RowType == [Tunnels -> [state : {"none", "open", "closed"}, bytes : 0 .. MaxBytes]]
SessType == [Sessions -> {"gone", "loop", "insert", "unregister", "ending"}]

\* The rows stay typed and true, and none is inserted.
RowsKept ==
  /\ rows' \in RowType /\ RowsTrue'
  /\ \A u \in Tunnels : /\ rows'[u].state = "open" => rows[u].state = "open"
                        /\ rows'[u].state = "none" <=> rows[u].state = "none"

\* The snapshot of task k has been replaced or shortened, and nobody else's.
SnapshotOf(k) ==
  /\ DOMAIN todo' = Tasks
  /\ \A j \in Tasks \ {k} : todo'[j] = todo[j]
  /\ \A t \in DOMAIN todo'[k] :
       t \in Tunnels /\ todo'[k][t] \in 0 .. MaxBytes /\ todo'[k][t] <= meter[t]

\* The process goes on, in whatever phase.
ProcessGoesOn ==
  /\ Running
  /\ phase' \in {"serving", "flush", "close", "down"} /\ stops' \in 0 .. MaxStops
  /\ StopIsCounted' /\ elsewhere' \in {"none", "checked", "open", "closed"}

\* What one task does between two of its statements.
LEMMA Turn ==
  ASSUME MInv, NEW k \in Tasks, SnapshotOf(k), RowsKept, ProcessGoesOn,
         UNCHANGED <<meter, own, issued, counted>>,
         live' \subseteq live, unclosed \subseteq unclosed', unclosed' \subseteq Tunnels,
         sess' \in SessType, \A s \in Sessions \ {k} : sess'[s] = sess[s],
         k \in Sessions => /\ sess'[k] # "insert"
                           /\ sess'[k] = "ending" =>
                                \A t \in own[k] : \/ t \in DOMAIN todo'[k]
                                                  \/ rows'[t].state # "open"
                                                  \/ t \in unclosed'
  PROVE  MInv'
<1>1. MeterTypeOK'
  BY DEF MInv, MeterTypeOK, SnapshotOf, RowsKept, RowType, SessType, ProcessGoesOn
<1>2. SnapshotsTrue'
  BY DEF MInv, SnapshotsTrue, SnapshotOf
<1>3. IdsFresh' /\ OwnedOnce'
  BY DEF MInv, IdsFresh, OwnedOnce, RowsKept
<1>4. InsertsOwn'
  BY Shapes DEF MInv, InsertsOwn, RowsKept, SnapshotOf
<1>5. EndingCovers'
  BY Shapes DEF MInv, EndingCovers, RowsKept, SnapshotOf
<1>6. RowsFollowSessions'
  BY DEF MInv, RowsFollowSessions, RowsKept, OpenRows, Running, ProcessGoesOn
<1> QED BY <1>1, <1>2, <1>3, <1>4, <1>5, <1>6 DEF MInv, RowsKept, SnapshotOf, ProcessGoesOn

\* Rows that are not written are kept.
LEMMA SameRowsKept ==
  ASSUME MInv, UNCHANGED <<rows, meter>>
  PROVE  RowsKept
BY DEF MInv, MeterTypeOK, RowsTrue, RowsKept, RowType

\* A statement with a snapshot keeps the rows.
LEMMA WrittenRowsKept ==
  ASSUME MInv, NEW k \in Tasks, NEW t \in DOMAIN todo[k], meter' = meter,
         \/ WriteCounters(t, todo[k][t])
         \/ WriteClose(t, todo[k][t])
  PROVE  RowsKept
BY WritesSettle, SettledRows DEF RowsKept, RowType

\* The snapshot after one of its tunnels is done.
LEMMA DoneSnapshot ==
  ASSUME MInv, NEW k \in Tasks, NEW t, Done(k, t)
  PROVE  SnapshotOf(k)
BY Shapes, DoneDrops DEF MInv, SnapshotOf, SnapshotsTrue

\* A snapshot of the live tunnels, or of none.
LEMMA NewSnapshot ==
  ASSUME MInv, NEW k \in Tasks, NEW f, f \in {live_tunnel_meters, Empty},
         todo' = [todo EXCEPT ![k] = f]
  PROVE  SnapshotOf(k)
<1>1. DOMAIN todo' = Tasks /\ todo'[k] = f /\ \A j \in Tasks \ {k} : todo'[j] = todo[j]
  BY TodoIsSet DEF MInv
<1>2. \A t \in DOMAIN f : t \in live /\ f[t] = meter[t]
  BY MetersAreCounters DEF Empty
<1>3. \A t \in live : t \in Tunnels /\ meter[t] \in 0 .. MaxBytes /\ meter[t] <= meter[t]
  BY Shapes, MeterBounds DEF MInv, MeterTypeOK
<1> QED BY <1>1, <1>2, <1>3 DEF SnapshotOf

LEMMA TransferStep ==
  ASSUME MInv, NEW t \in Tunnels, Transfer(t)
  PROVE  MInv'
<1>1. /\ meter' \in [Tunnels -> 0 .. MaxBytes]
      /\ \A u \in Tunnels : meter[u] <= meter'[u] /\ meter[u] \in Nat /\ meter'[u] \in Nat
  BY MeterBounds DEF MInv, MeterTypeOK, Transfer
<1> USE DEF Transfer, processVars, tableVars
<1>2. MeterTypeOK' /\ StopIsCounted'
  BY <1>1 DEF MInv, MeterTypeOK, StopIsCounted
<1>3. SnapshotsTrue'
  <2>1. \A k \in Tasks : \A u \in DOMAIN todo[k] : u \in Tunnels /\ todo[k][u] \in Nat
    BY Shapes
  <2> QED BY <1>1, <2>1 DEF MInv, SnapshotsTrue
<1>4. RowsTrue'
  <2>1. \A u \in Tunnels : rows[u].bytes \in Nat
    BY DEF MInv, MeterTypeOK
  <2> QED BY <1>1, <2>1 DEF MInv, RowsTrue
<1> QED
  BY <1>2, <1>3, <1>4
  DEF MInv, IdsFresh, OwnedOnce, InsertsOwn, EndingCovers, RowsFollowSessions, OpenRows, Running

LEMMA RegisterTunnelStep ==
  ASSUME MInv, NEW s \in Sessions, NEW t \in Tunnels, RegisterTunnel(s, t)
  PROVE  MInv'
<1> USE DEF RegisterTunnel, processVars, tableVars
<1>1. s \in Tasks /\ t \notin issued /\ sess[s] = "loop"
  BY Shapes DEF NewId
<1>2. /\ DOMAIN todo' = Tasks /\ todo'[s] = [u \in {t} |-> 0]
      /\ \A j \in Tasks \ {s} : todo'[j] = todo[j]
  BY <1>1, TodoIsSet DEF MInv
<1>3. MeterTypeOK' /\ StopIsCounted'
  BY <1>1, <1>2, MeterBounds DEF MInv, MeterTypeOK, StopIsCounted
<1>4. own'[s] = own[s] \cup {t} /\ \A r \in Sessions \ {s} : own'[r] = own[r]
  BY DEF MInv, MeterTypeOK
<1>5. sess'[s] = "insert" /\ \A r \in Sessions \ {s} : sess'[r] = sess[r]
  BY DEF MInv, MeterTypeOK
<1>6. SnapshotsTrue'
  BY <1>2, Shapes, MeterBounds DEF MInv, SnapshotsTrue, MeterTypeOK
<1>7. RowsTrue'
  BY DEF MInv, RowsTrue
<1>8. rows[t].state = "none" /\ \A r \in Sessions : t \notin own[r]
  BY <1>1 DEF MInv, IdsFresh
<1>9. IdsFresh' /\ OwnedOnce'
  BY <1>4, <1>8 DEF MInv, IdsFresh, OwnedOnce
<1>10. InsertsOwn'
  BY <1>2, <1>4, <1>5, <1>8, Shapes DEF MInv, InsertsOwn
<1>11. EndingCovers'
  BY <1>2, <1>4, <1>5, <1>8, Shapes DEF MInv, EndingCovers
<1>12. RowsFollowSessions'
  BY <1>4 DEF MInv, RowsFollowSessions, OpenRows, Running
<1> QED BY <1>2, <1>3, <1>6, <1>7, <1>9, <1>10, <1>11, <1>12 DEF MInv

LEMMA InsertRowStep ==
  ASSUME MInv, NEW s \in Sessions, InsertRow(s)
  PROVE  MInv'
<1> USE DEF processVars, tableVars
<1>1. PICK t \in DOMAIN todo[s] :
        Done(s, t) /\ (rows' = [rows EXCEPT ![t].state = "open"] \/ UNCHANGED rows)
  BY DEF InsertRow
<1>2. /\ s \in Tasks /\ t \in Tunnels /\ t \in own[s] /\ rows[t].state = "none"
      /\ sess'[s] = "loop" /\ \A r \in Sessions \ {s} : sess'[r] = sess[r]
  BY <1>1, Shapes DEF InsertRow, MInv, MeterTypeOK, InsertsOwn
<1>3. SnapshotOf(s)
  BY <1>1, <1>2, DoneSnapshot
<1>4. /\ rows' \in RowType
      /\ rows'[t].bytes = rows[t].bytes /\ rows'[t].state \in {"none", "open"}
      /\ \A u \in Tunnels \ {t} : rows'[u] = rows[u]
  BY <1>1, <1>2 DEF MInv, MeterTypeOK, RowType
<1>5. MeterTypeOK' /\ StopIsCounted'
  BY <1>3, <1>4 DEF InsertRow, MInv, MeterTypeOK, StopIsCounted, SnapshotOf, RowType
<1>6. SnapshotsTrue'
  BY <1>3 DEF InsertRow, MInv, SnapshotsTrue, SnapshotOf
<1>7. RowsTrue'
  BY <1>2, <1>4 DEF InsertRow, MInv, RowsTrue
<1>8. IdsFresh' /\ OwnedOnce'
  BY <1>2, <1>4 DEF InsertRow, MInv, IdsFresh, OwnedOnce
<1>9. InsertsOwn'
  BY <1>2, <1>3, <1>4, Shapes DEF InsertRow, MInv, InsertsOwn, OwnedOnce, SnapshotOf
<1>10. EndingCovers'
  BY <1>2, <1>3, <1>4, Shapes DEF InsertRow, MInv, EndingCovers, OwnedOnce, SnapshotOf
<1>11. RowsFollowSessions'
  BY <1>2, <1>4 DEF InsertRow, MInv, RowsFollowSessions, OpenRows, Running
<1> QED
  BY <1>3, <1>5, <1>6, <1>7, <1>8, <1>9, <1>10, <1>11 DEF MInv, SnapshotOf

\* The parts of the process that most actions leave alone.
LEMMA SameProcess ==
  ASSUME MInv, Running, UNCHANGED <<phase, stops>>,
         elsewhere' \in {"none", "checked", "open", "closed"}
  PROVE  ProcessGoesOn
BY DEF MInv, MeterTypeOK, StopIsCounted, ProcessGoesOn

\* The counters a session reads before its statements.
LEMMA SessionSnapshot ==
  ASSUME MInv, NEW s \in Sessions, NEW D \in SUBSET Tunnels,
         todo' = [todo EXCEPT ![s] = [t \in D |-> tunnel_meter(t)]]
  PROVE  SnapshotOf(s) /\ DOMAIN todo'[s] = D
<1>1. /\ DOMAIN todo' = Tasks /\ todo'[s] = [t \in D |-> tunnel_meter(t)]
      /\ \A j \in Tasks \ {s} : todo'[j] = todo[j]
  BY TodoIsSet, Shapes DEF MInv
<1> QED BY <1>1, MetersAreCounters DEF SnapshotOf

LEMMA UnregisterStep ==
  ASSUME MInv, NEW s \in Sessions, NEW t \in Tunnels, Unregister(s, t)
  PROVE  MInv'
<1> USE DEF Unregister, processVars, tableVars
<1>1. SnapshotOf(s)
  <2>1. todo' = [todo EXCEPT ![s] = [u \in {t} |-> tunnel_meter(u)]]
    OBVIOUS
  <2>2. {t} \in SUBSET Tunnels
    OBVIOUS
  <2> HIDE DEF Unregister
  <2> QED BY <2>1, <2>2, SessionSnapshot
<1>2. RowsKept /\ ProcessGoesOn
  BY SameRowsKept, SameProcess DEF MInv, MeterTypeOK
<1>3. sess' \in SessType /\ sess'[s] = "unregister" /\ \A r \in Sessions \ {s} : sess'[r] = sess[r]
  BY DEF MInv, MeterTypeOK, SessType
<1>4. unclosed' = unclosed /\ unclosed \subseteq Tunnels /\ s \in Tasks
  BY Shapes DEF MInv, MeterTypeOK
<1> QED BY <1>1, <1>2, <1>3, <1>4, Turn

LEMMA FinishUnregisterStep ==
  ASSUME MInv, NEW s \in Sessions, FinishUnregister(s)
  PROVE  MInv'
<1> USE DEF FinishUnregister, processVars
<1>1. PICK t \in DOMAIN todo[s] : CloseStatement(s, t) /\ live' = live \ {t}
  OBVIOUS
<1>2. s \in Tasks /\ t \in Tunnels /\ meter' = meter
  BY <1>1, Shapes
<1>3. SnapshotOf(s)
  BY <1>1, <1>2, DoneSnapshot DEF CloseStatement
<1>4. RowsKept
  BY <1>1, <1>2, WrittenRowsKept, SameRowsKept DEF CloseStatement
<1>5. ProcessGoesOn
  BY SameProcess DEF MInv, MeterTypeOK
<1>6. sess' \in SessType /\ sess'[s] = "loop" /\ \A r \in Sessions \ {s} : sess'[r] = sess[r]
  BY DEF MInv, MeterTypeOK, SessType
<1>7. unclosed \subseteq unclosed' /\ unclosed' \subseteq Tunnels
  BY <1>1, <1>2 DEF CloseStatement, MInv, MeterTypeOK
<1> QED BY <1>1, <1>2, <1>3, <1>4, <1>5, <1>6, <1>7, Turn

LEMMA EndSessionStep ==
  ASSUME MInv, NEW s \in Sessions, CollectRemaining(s)
  PROVE  MInv'
<1> USE DEF CollectRemaining, processVars, tableVars
<1>1. SnapshotOf(s) /\ DOMAIN todo'[s] = own[s]
  BY SessionSnapshot, Shapes DEF Remaining
<1>2. RowsKept /\ ProcessGoesOn
  BY SameRowsKept, SameProcess DEF MInv, MeterTypeOK
<1>3. sess' \in SessType /\ \A r \in Sessions \ {s} : sess'[r] = sess[r]
      /\ sess'[s] = "ending"
  BY DEF MInv, MeterTypeOK, SessType
<1>4. unclosed' = unclosed /\ unclosed \subseteq Tunnels /\ s \in Tasks
      /\ live' = live /\ UNCHANGED <<meter, own, issued, counted>>
  BY Shapes DEF MInv, MeterTypeOK
<1>5. /\ sess'[s] # "insert"
      /\ \A t \in own[s] : t \in DOMAIN todo'[s] \/ rows'[t].state # "open" \/ t \in unclosed'
  BY <1>1, <1>3
<1> HIDE DEF CollectRemaining
<1> QED BY <1>1, <1>2, <1>3, <1>4, <1>5, Turn

LEMMA CloseRemainingStep ==
  ASSUME MInv, NEW s \in Sessions, CloseRemaining(s)
  PROVE  MInv'
<1> USE DEF CloseRemaining, processVars, tableVars
<1>1. PICK t \in DOMAIN todo[s] : CloseStatement(s, t)
  OBVIOUS
<1>2. s \in Tasks /\ t \in Tunnels /\ meter' = meter /\ sess[s] = "ending"
  BY <1>1, Shapes
<1>3. SnapshotOf(s) /\ DOMAIN todo'[s] = DOMAIN todo[s] \ {t}
  BY <1>1, <1>2, DoneSnapshot, DoneDrops DEF CloseStatement, MInv
<1>4. RowsKept
  BY <1>1, <1>2, WrittenRowsKept, SameRowsKept DEF CloseStatement
<1>5. ProcessGoesOn /\ sess' = sess /\ sess \in SessType
  BY SameProcess DEF MInv, MeterTypeOK, SessType
<1>6. unclosed \subseteq unclosed' /\ unclosed' \subseteq Tunnels
  BY <1>1, <1>2 DEF CloseStatement, MInv, MeterTypeOK
<1>7. rows'[t].state # "open" \/ t \in unclosed'
  BY <1>1, <1>2 DEF CloseStatement, WriteClose, MInv, MeterTypeOK
<1>8. \A u \in own[s] : u \in DOMAIN todo'[s] \/ rows'[u].state # "open" \/ u \in unclosed'
  BY <1>2, <1>3, <1>4, <1>6, <1>7, Shapes DEF MInv, EndingCovers, RowsKept
<1> QED BY <1>2, <1>3, <1>4, <1>5, <1>6, <1>8, Turn

LEMMA RemoveSessionStep ==
  ASSUME MInv, NEW s \in Sessions, RemoveSession(s)
  PROVE  MInv'
<1> USE DEF RemoveSession, processVars
<1>1. /\ own'[s] = {} /\ \A r \in Sessions \ {s} : own'[r] = own[r]
      /\ sess'[s] = "gone" /\ \A r \in Sessions \ {s} : sess'[r] = sess[r]
  BY DEF MInv, MeterTypeOK
<1>2. MeterTypeOK' /\ StopIsCounted'
  BY DEF MInv, MeterTypeOK, StopIsCounted
<1>3. SnapshotsTrue' /\ RowsTrue'
  BY DEF MInv, SnapshotsTrue, RowsTrue
<1>4. IdsFresh' /\ OwnedOnce'
  BY <1>1 DEF MInv, IdsFresh, OwnedOnce
<1>5. InsertsOwn' /\ EndingCovers'
  BY <1>1 DEF MInv, InsertsOwn, EndingCovers
<1>6. \A t \in own[s] : rows[t].state # "open" \/ t \in unclosed
  BY DEF MInv, EndingCovers, Empty
<1>7. RowsFollowSessions'
  BY <1>1, <1>6 DEF MInv, RowsFollowSessions, OpenRows, Running
<1> QED BY <1>2, <1>3, <1>4, <1>5, <1>7 DEF MInv

\* ForceClose and Elsewhere concern no snapshot.
LEMMA AsideStep ==
  ASSUME MInv, (\E t \in Tunnels : ForceClose(t)) \/ (Elsewhere /\ Running)
  PROVE  MInv'
<1> USE DEF ForceClose, Elsewhere, processVars, tableVars
<1>1. Running /\ UNCHANGED <<phase, stops, todo, rows, meter, own, issued, counted, sess, unclosed>>
      /\ live' \subseteq live /\ elsewhere' \in {"none", "checked", "open", "closed"}
  BY DEF MInv, MeterTypeOK
<1>2. RowsKept /\ ProcessGoesOn
  BY <1>1, SameRowsKept, SameProcess
<1>3. "timer" \in Tasks /\ "timer" \notin Sessions /\ SnapshotOf("timer")
  BY <1>1, Shapes, SessionsFinite DEF SnapshotOf, MInv, SnapshotsTrue
<1>4. sess \in SessType /\ unclosed \subseteq Tunnels
  BY DEF MInv, MeterTypeOK, SessType
<1> QED BY <1>1, <1>2, <1>3, <1>4, Turn

\* A step of a flusher: its snapshot is taken, shortened or dropped.
LEMMA FlusherTurn ==
  ASSUME MInv, NEW f \in Flushers, SnapshotOf(f), RowsKept, ProcessGoesOn,
         UNCHANGED <<tableVars, sess, meter, unclosed>>
  PROVE  MInv'
<1>1. f \in Tasks /\ f \notin Sessions
  BY SessionsFinite DEF Flushers, Tasks
<1>2. sess' \in SessType /\ sess' = sess /\ unclosed' = unclosed /\ unclosed \subseteq Tunnels
  BY DEF MInv, MeterTypeOK, SessType
<1>3. UNCHANGED <<meter, own, issued, counted, live>>
  BY DEF tableVars
<1> QED BY <1>1, <1>2, <1>3, Turn

\* One statement of flush_live_meters or flush_and_close_live_meters.
LEMMA FlushStatement ==
  ASSUME MInv, NEW f \in Flushers, NEW t \in DOMAIN todo[f], Running, Done(f, t),
         \/ WriteCounters(t, todo[f][t])
         \/ WriteClose(t, todo[f][t]),
         UNCHANGED <<processVars, tableVars, sess, meter, unclosed>>
  PROVE  MInv'
<1>1. f \in Tasks
  BY DEF Tasks
<1>2. SnapshotOf(f) /\ RowsKept /\ ProcessGoesOn
  BY <1>1, DoneSnapshot, WrittenRowsKept, SameProcess DEF processVars, MInv, MeterTypeOK
<1> QED BY <1>2, FlusherTurn

LEMMA AbandonStep ==
  ASSUME MInv, NEW f \in Flushers, Running, Abandon(f),
         UNCHANGED <<processVars, tableVars, sess, meter, unclosed>>
  PROVE  MInv'
<1>1. f \in Tasks
  BY DEF Tasks
<1>2. SnapshotOf(f) /\ RowsKept /\ ProcessGoesOn
  BY <1>1, NewSnapshot, SameRowsKept, SameProcess DEF Abandon, processVars, MInv, MeterTypeOK
<1> QED BY <1>2, FlusherTurn

\* A round begins: the timer's, or one of main's two.
LEMMA RoundStep ==
  ASSUME MInv, FlushTick \/ Signal \/ DrainTimeout
  PROVE  MInv'
<1>1. PICK f \in Flushers : todo' = [todo EXCEPT ![f] = live_tunnel_meters]
  BY DEF FlushTick, Signal, DrainTimeout, Flushers
<1>2. SnapshotOf(f)
  BY <1>1, NewSnapshot DEF Tasks
<1>3. RowsKept
  BY SameRowsKept DEF FlushTick, Signal, DrainTimeout
<1>4. ProcessGoesOn
  BY DEF FlushTick, Signal, DrainTimeout, ProcessGoesOn, Running, StopIsCounted, MInv, MeterTypeOK,
         processVars
<1> QED BY <1>2, <1>3, <1>4, FlusherTurn DEF FlushTick, Signal, DrainTimeout

LEMMA FlushStep ==
  ASSUME MInv, (\E t \in Tunnels : TimerFlush(t)) \/ TimerError \/ ShutdownFlush \/ ShutdownClose
  PROVE  MInv'
<1>1. "timer" \in Flushers /\ "main" \in Flushers
  BY DEF Flushers
<1>2. ASSUME NEW t \in Tunnels, TimerFlush(t) PROVE MInv'
  BY <1>1, <1>2, FlushStatement DEF TimerFlush, FlushOne
<1>3. CASE TimerError
  BY <1>1, <1>3, AbandonStep DEF TimerError
<1>4. CASE ShutdownFlush
  BY <1>1, <1>4, FlushStatement, AbandonStep DEF ShutdownFlush, FlushOne, Running
<1>5. CASE ShutdownClose
  BY <1>1, <1>5, FlushStatement, AbandonStep DEF ShutdownClose, Running
<1> QED BY <1>2, <1>3, <1>4, <1>5

LEMMA DownStep ==
  ASSUME MInv, Exit \/ Crash
  PROVE  MInv'
<1>1. Down /\ stops < MaxStops
  BY DEF Exit, Crash, MInv, StopIsCounted
<1> USE <1>1 DEF Down
<1>2. /\ DOMAIN todo' = Tasks
      /\ \A k \in Tasks : DOMAIN todo'[k] = {}
  BY DEF Empty
<1>3. MeterTypeOK' /\ StopIsCounted'
  BY <1>2, MeterBounds DEF MInv, MeterTypeOK, StopIsCounted
<1>4. SnapshotsTrue' /\ RowsTrue'
  BY <1>2 DEF SnapshotsTrue, MInv, RowsTrue
<1>5. IdsFresh' /\ OwnedOnce' /\ InsertsOwn' /\ EndingCovers'
  BY DEF MInv, IdsFresh, OwnedOnce, InsertsOwn, EndingCovers
<1>6. RowsFollowSessions'
  BY DEF RowsFollowSessions, Running
<1> QED BY <1>2, <1>3, <1>4, <1>5, <1>6 DEF MInv

LEMMA RestartStep ==
  ASSUME MInv, Restart
  PROVE  MInv'
<1> USE DEF Restart, tableVars
<1>1. /\ rows' \in RowType
      /\ \A t \in Tunnels : /\ rows'[t].state # "open" /\ rows'[t].bytes = rows[t].bytes
                            /\ rows'[t].state = "none" <=> rows[t].state = "none"
  BY DEF CloseStale, OpenRows, MInv, MeterTypeOK, RowType
<1>2. MeterTypeOK' /\ StopIsCounted'
  BY <1>1 DEF MInv, MeterTypeOK, StopIsCounted, RowType
<1>3. SnapshotsTrue' /\ RowsTrue'
  BY <1>1 DEF MInv, SnapshotsTrue, RowsTrue
<1>4. IdsFresh' /\ OwnedOnce'
  BY <1>1 DEF MInv, IdsFresh, OwnedOnce
<1>5. InsertsOwn' /\ EndingCovers'
  BY <1>1, Shapes DEF MInv, InsertsOwn, EndingCovers
<1>6. RowsFollowSessions'
  BY <1>1 DEF RowsFollowSessions, OpenRows
<1> QED BY <1>2, <1>3, <1>4, <1>5, <1>6 DEF MInv

\* Another edge's session goes on while this process is down.
LEMMA ElsewhereWhileDown ==
  ASSUME MInv, Elsewhere, ~Running
  PROVE  MInv'
BY DEF Elsewhere, tableVars, MInv, MeterTypeOK, StopIsCounted, SnapshotsTrue, RowsTrue, IdsFresh,
       OwnedOnce, InsertsOwn, EndingCovers, RowsFollowSessions, OpenRows, Running

LEMMA StutterStep ==
  ASSUME MInv, UNCHANGED meterVars
  PROVE  MInv'
BY DEF meterVars, MInv, MeterTypeOK, StopIsCounted, SnapshotsTrue, RowsTrue, IdsFresh,
       OwnedOnce, InsertsOwn, EndingCovers, RowsFollowSessions, OpenRows, Running

LEMMA MeterInitInv == MeterInit => MInv
<1> SUFFICES ASSUME MeterInit PROVE MInv
  OBVIOUS
<1> USE DEF MeterInit
<1>1. MeterTypeOK /\ DOMAIN todo = Tasks /\ StopIsCounted
  BY MeterBounds DEF MeterTypeOK, StopIsCounted, Empty
<1>2. SnapshotsTrue /\ RowsTrue
  BY MeterBounds DEF SnapshotsTrue, RowsTrue, Empty
<1>3. IdsFresh /\ OwnedOnce /\ InsertsOwn /\ EndingCovers /\ RowsFollowSessions
  BY DEF IdsFresh, OwnedOnce, InsertsOwn, EndingCovers, RowsFollowSessions, OpenRows
<1> QED BY <1>1, <1>2, <1>3 DEF MInv

LEMMA MeterNextInv == MInv /\ [MeterNext]_meterVars => MInv'
<1> SUFFICES ASSUME MInv, [MeterNext]_meterVars PROVE MInv'
  OBVIOUS
<1>1. ASSUME NEW s \in Sessions, SessionStep(s) PROVE MInv'
  BY <1>1, InsertRowStep, FinishUnregisterStep, EndSessionStep, CloseRemainingStep,
     RemoveSessionStep, RegisterTunnelStep, UnregisterStep
  DEF SessionStep
<1>2. ASSUME NEW t \in Tunnels, Transfer(t) \/ ForceClose(t) \/ TimerFlush(t) PROVE MInv'
  BY <1>2, TransferStep, AsideStep, FlushStep
<1>3. CASE FlushTick \/ TimerError \/ ShutdownStep
  BY <1>3, RoundStep, FlushStep, DownStep DEF ShutdownStep
<1>4. CASE Crash \/ Restart \/ Elsewhere
  BY <1>4, DownStep, RestartStep, AsideStep, ElsewhereWhileDown
<1>5. CASE UNCHANGED meterVars
  BY <1>5, StutterStep
<1> QED BY <1>1, <1>2, <1>3, <1>4, <1>5 DEF MeterNext

\* The inductive invariant holds throughout.
THEOREM MeterInvariant == MeterSpec => []MInv
BY MeterInitInv, MeterNextInv, PTL DEF MeterSpec

\* While the server runs, an open row belongs to a session that will close it,
\* unless a closing statement failed, for any number of sessions.
THEOREM RowsFollow == MeterSpec => [](MeterTypeOK /\ RowsFollowSessions)
<1>1. MInv => MeterTypeOK /\ RowsFollowSessions
  BY DEF MInv
<1> QED BY <1>1, MeterInvariant, PTL

-----------------------------------------------------------------------------
(* The plan's limit and the race of check and insert *)

\* The two statements on counters open no row.
LEMMA WritesOpenNothing ==
  ASSUME MInv, NEW t \in Tunnels, NEW n, WriteCounters(t, n) \/ WriteClose(t, n)
  PROVE  OpenRows' \subseteq OpenRows
BY DEF WriteCounters, WriteClose, OpenRows, MInv, MeterTypeOK

\* Rows are only opened by InsertRow.
LEMMA NoNewRow ==
  ASSUME MInv, [MeterNext]_meterVars, \A s \in Sessions : ~InsertRow(s)
  PROVE  OpenRows' \subseteq OpenRows
<1>1. ASSUME rows' = rows PROVE OpenRows' \subseteq OpenRows
  BY <1>1 DEF OpenRows
<1>2. ASSUME NEW s \in Sessions, NEW t \in DOMAIN todo[s], CloseStatement(s, t)
      PROVE  OpenRows' \subseteq OpenRows
  <2>1. t \in Tunnels
    BY Shapes
  <2> QED BY <1>1, <1>2, <2>1, WritesOpenNothing DEF CloseStatement
<1>3. ASSUME NEW f \in Flushers, NEW t \in DOMAIN todo[f],
             WriteCounters(t, todo[f][t]) \/ WriteClose(t, todo[f][t])
      PROVE  OpenRows' \subseteq OpenRows
  <2>1. t \in Tunnels
    BY Shapes DEF Tasks
  <2> QED BY <1>3, <2>1, WritesOpenNothing
<1>4. ASSUME NEW s \in Sessions, SessionStep(s) PROVE OpenRows' \subseteq OpenRows
  BY <1>1, <1>2, <1>4
  DEF SessionStep, FinishUnregister, CollectRemaining, CloseRemaining, RemoveSession,
      RegisterTunnel, Unregister
<1>5. ASSUME NEW t \in Tunnels, Transfer(t) \/ ForceClose(t) \/ TimerFlush(t)
      PROVE  OpenRows' \subseteq OpenRows
  BY <1>1, <1>3, <1>5 DEF Transfer, ForceClose, TimerFlush, FlushOne, Flushers
<1>6. CASE FlushTick \/ TimerError \/ Signal \/ DrainTimeout \/ Exit \/ Crash \/ Elsewhere
  BY <1>1, <1>6 DEF FlushTick, TimerError, Abandon, Signal, DrainTimeout, Exit, Crash, Down, Elsewhere
<1>7. CASE ShutdownFlush \/ ShutdownClose
  BY <1>1, <1>3, <1>7 DEF ShutdownFlush, ShutdownClose, FlushOne, Abandon, Flushers
<1>8. CASE Restart
  BY <1>8 DEF Restart, CloseStale, OpenRows
<1>9. CASE UNCHANGED meterVars
  BY <1>1, <1>9 DEF meterVars
<1> QED BY <1>4, <1>5, <1>6, <1>7, <1>8, <1>9 DEF MeterNext, ShutdownStep

\* Nobody but RegisterTunnel begins an insertion.
LEMMA NoNewInsert ==
  ASSUME MInv, [MeterNext]_meterVars, \A s \in Sessions, t \in Tunnels : ~RegisterTunnel(s, t)
  PROVE  Inserting' \subseteq Inserting
<1>1. ASSUME NEW s \in Sessions, SessionStep(s)
      PROVE  \A r \in Sessions : sess'[r] = "insert" => sess[r] = "insert"
  BY <1>1 DEF SessionStep, InsertRow, FinishUnregister, CollectRemaining, CloseRemaining, RemoveSession,
     Unregister, MInv, MeterTypeOK
<1>2. ASSUME NEW t \in Tunnels, Transfer(t) \/ ForceClose(t) \/ TimerFlush(t) PROVE sess' = sess
  BY <1>2 DEF Transfer, ForceClose, TimerFlush
<1>3. CASE FlushTick \/ TimerError \/ Signal \/ ShutdownFlush \/ DrainTimeout \/ ShutdownClose
           \/ Restart \/ Elsewhere
  BY <1>3 DEF FlushTick, TimerError, Signal, ShutdownFlush, DrainTimeout, ShutdownClose,
     Restart, Elsewhere, Inserting
<1>4. CASE Exit \/ Crash
  BY <1>4 DEF Exit, Crash, Down, Inserting
<1>5. CASE UNCHANGED meterVars
  BY <1>5 DEF meterVars, Inserting
<1> QED BY <1>1, <1>2, <1>3, <1>4, <1>5 DEF MeterNext, ShutdownStep, Inserting

\* The other edge's part of the count changes with Elsewhere alone.
Abroad == (IF elsewhere = "open" THEN 1 ELSE 0) + (IF elsewhere = "checked" THEN 1 ELSE 0)

LEMMA AbroadStep ==
  ASSUME MInv, [MeterNext]_meterVars
  PROVE  \/ Abroad' <= Abroad
         \/ WithinPlan /\ OpenRows' = OpenRows /\ Inserting' = Inserting
<1>1. CASE Elsewhere
  BY <1>1 DEF Elsewhere, Abroad, OpenRows, Inserting
<1>2. CASE ~Elsewhere
  <2>1. elsewhere' = elsewhere
    <3>1. ASSUME NEW s \in Sessions, SessionStep(s) PROVE elsewhere' = elsewhere
      BY <3>1 DEF SessionStep, InsertRow, FinishUnregister, CollectRemaining, CloseRemaining,
         RemoveSession, RegisterTunnel, Unregister, processVars
    <3>2. ASSUME NEW t \in Tunnels, Transfer(t) \/ ForceClose(t) \/ TimerFlush(t)
          PROVE  elsewhere' = elsewhere
      BY <3>2 DEF Transfer, ForceClose, TimerFlush, processVars
    <3>3. CASE FlushTick \/ TimerError \/ ShutdownStep \/ Crash \/ Restart
      BY <3>3 DEF FlushTick, TimerError, ShutdownStep, Signal, ShutdownFlush, DrainTimeout,
         ShutdownClose, Exit, Crash, Down, Restart, processVars
    <3>4. CASE UNCHANGED meterVars
      BY <3>4 DEF meterVars
    <3> QED BY <1>2, <3>1, <3>2, <3>3, <3>4 DEF MeterNext
  <2> QED BY <2>1 DEF Abroad
<1> QED BY <1>1, <1>2

\* The sizes that the bound speaks of are numbers.
LEMMA Sizes ==
  ASSUME PlanInv
  PROVE  /\ Cardinality(OpenRows) \in Nat /\ Cardinality(Inserting) \in Nat
         /\ Cardinality(Sessions) \in Nat
         /\ IsFiniteSet(Inserting) /\ Cardinality(Inserting) <= Cardinality(Sessions)
         /\ Abroad \in {0, 1}
         /\ UserRows + Due = Cardinality(OpenRows) + Cardinality(Inserting) + Abroad
<1>1. Inserting \in SUBSET Sessions
  BY DEF Inserting
<1>2. /\ IsFiniteSet(Inserting) /\ Cardinality(Inserting) <= Cardinality(Sessions)
      /\ Cardinality(OpenRows) \in Nat /\ Cardinality(Sessions) \in Nat
      /\ Cardinality(Inserting) \in Nat
  BY <1>1, SessionsFinite, FS_Subset, FS_CardinalityType DEF PlanInv
<1> QED BY <1>2 DEF Abroad, UserRows, Due

\* What the bound says of the state after a step, from its parts.
LEMMA Bounded ==
  ASSUME IsFiniteSet(OpenRows'),
         Cardinality(OpenRows') + Cardinality(Inserting') + Abroad' <= MaxTunnels + Cardinality(Sessions),
         Cardinality(OpenRows') \in Nat, Cardinality(Inserting') \in Nat
  PROVE  PlanInv'
BY DEF PlanInv, UserRows, Due, Abroad

LEMMA PlanStep == MInv /\ PlanInv /\ [MeterNext]_meterVars => PlanInv'
<1> SUFFICES ASSUME MInv, PlanInv, [MeterNext]_meterVars PROVE PlanInv'
  OBVIOUS
<1> USE PlanIsPositive
<1>1. /\ Cardinality(OpenRows) \in Nat /\ Cardinality(Inserting) \in Nat
      /\ Cardinality(Sessions) \in Nat /\ Cardinality(Inserting) <= Cardinality(Sessions)
      /\ Abroad \in {0, 1} /\ IsFiniteSet(OpenRows) /\ IsFiniteSet(Inserting)
      /\ Cardinality(OpenRows) + Cardinality(Inserting) + Abroad <= MaxTunnels + Cardinality(Sessions)
  BY Sizes DEF PlanInv
<1>2. Abroad' \in {0, 1}
  BY DEF Abroad
<1>3. IsFiniteSet(Inserting') /\ Cardinality(Inserting') \in Nat
      /\ Cardinality(Inserting') <= Cardinality(Sessions)
  <2>1. Inserting' \in SUBSET Sessions
    BY DEF Inserting
  <2> QED BY <2>1, SessionsFinite, FS_Subset, FS_CardinalityType
\* A check has just passed: the rows are below the limit, and the sessions and
\* the other edge add at most one each.
<1>4. ASSUME WithinPlan, OpenRows' = OpenRows PROVE PlanInv'
  <2>1. Cardinality(OpenRows) < MaxTunnels
    BY <1>1, <1>4 DEF WithinPlan, UserRows
  <2> QED BY <1>1, <1>2, <1>3, <1>4, <2>1, Bounded
<1>5. ASSUME NEW s \in Sessions, NEW t \in Tunnels, RegisterTunnel(s, t) PROVE PlanInv'
  BY <1>4, <1>5 DEF RegisterTunnel, OpenRows
<1>6. ASSUME \A s \in Sessions, t \in Tunnels : ~RegisterTunnel(s, t),
             ~(WithinPlan /\ OpenRows' = OpenRows)
      PROVE  PlanInv'
  <2>1. Abroad' <= Abroad /\ Inserting' \subseteq Inserting
    BY <1>6, AbroadStep, NoNewInsert
  <2>2. Cardinality(Inserting') <= Cardinality(Inserting)
    BY <1>1, <2>1, FS_Subset
  <2>3. CASE \A s \in Sessions : ~InsertRow(s)
    <3>1. IsFiniteSet(OpenRows') /\ Cardinality(OpenRows') <= Cardinality(OpenRows)
          /\ Cardinality(OpenRows') \in Nat
      BY <1>1, <2>3, NoNewRow, FS_Subset, FS_CardinalityType
    <3> QED BY <1>1, <1>2, <1>3, <2>1, <2>2, <3>1, Bounded
  <2>4. ASSUME NEW s \in Sessions, InsertRow(s) PROVE PlanInv'
    <3>1. s \in Inserting /\ Inserting' = Inserting \ {s}
      BY <2>4 DEF InsertRow, Inserting, MInv, MeterTypeOK
    <3>2. Cardinality(Inserting') = Cardinality(Inserting) - 1
      BY <1>1, <3>1, FS_RemoveElement
    <3>3. PICK t \in DOMAIN todo[s] :
            rows' = [rows EXCEPT ![t].state = "open"] \/ UNCHANGED rows
      BY <2>4 DEF InsertRow
    <3>4. OpenRows' = OpenRows \/ OpenRows' = OpenRows \cup {t}
      BY <3>3, Shapes DEF OpenRows, MInv, MeterTypeOK
    <3>5. IsFiniteSet(OpenRows') /\ Cardinality(OpenRows') <= Cardinality(OpenRows) + 1
          /\ Cardinality(OpenRows') \in Nat
      <4>1. IsFiniteSet(OpenRows \cup {t})
            /\ Cardinality(OpenRows \cup {t}) <= Cardinality(OpenRows) + 1
        BY <1>1, FS_AddElement
      <4>2. Cardinality(OpenRows \cup {t}) \in Nat
        BY <4>1, FS_CardinalityType
      <4>3. CASE OpenRows' = OpenRows
        BY <1>1, <4>3
      <4>4. CASE OpenRows' = OpenRows \cup {t}
        BY <4>1, <4>2, <4>4
      <4> QED BY <3>4, <4>3, <4>4
    <3> QED BY <1>1, <1>2, <1>3, <2>1, <3>2, <3>5, Bounded
  <2> QED BY <2>3, <2>4
<1> QED BY <1>4, <1>5, <1>6

\* The user's open rows follow his sessions, and his sessions overtake the plan
\* by at most one row each, for every number of sessions and every plan
\* (evaluate_hobby_limits, log_tunnel_registered).
THEOREM RowsAreAccounted == MeterSpec => []RowsAccounted
<1>1. MeterInit => PlanInv
  <2> SUFFICES ASSUME MeterInit PROVE PlanInv
    OBVIOUS
  <2>1. OpenRows = {} /\ Inserting = {}
    BY DEF MeterInit, OpenRows, Inserting
  <2>2. Cardinality(Sessions) \in Nat
    BY SessionsFinite, FS_CardinalityType
  <2> QED BY <2>1, <2>2, FS_EmptySet, PlanIsPositive DEF MeterInit, PlanInv, UserRows, Due
<1>2. MInv /\ PlanInv => RowsAccounted
  <2> SUFFICES ASSUME MInv, PlanInv PROVE PlanOverrunBounded
    BY DEF MInv, RowsAccounted
  <2>1. Due \in Nat /\ UserRows \in Nat /\ Cardinality(Sessions) \in Nat
    BY Sizes DEF Due, UserRows
  <2> QED BY <2>1, PlanIsPositive DEF PlanInv, PlanOverrunBounded
<1> QED BY <1>1, <1>2, PlanStep, MeterInvariant, PTL DEF MeterSpec

-----------------------------------------------------------------------------
(* tunnel_log implements the account *)

\* A settling write is a Record, a CloseRow or nothing.
LEMMA SettlingIsRecorded ==
  ASSUME MInv, NEW t \in Tunnels, NEW n, Settles(t, n), meter' = meter
  PROVE  [Account!AccountNext]_(Account!accountVars)
BY DEF Settles, Account!AccountNext, Account!accountVars, Account!Record, Account!CloseRow

LEMMA WriteIsRecorded ==
  ASSUME MInv, NEW k \in Tasks, NEW t \in DOMAIN todo[k], meter' = meter,
         WriteCounters(t, todo[k][t]) \/ WriteClose(t, todo[k][t])
  PROVE  [Account!AccountNext]_(Account!accountVars)
BY WritesSettle, SettlingIsRecorded

LEMMA AccountStep ==
  MInv /\ [MeterNext]_meterVars => [Account!AccountNext]_(Account!accountVars)
<1> SUFFICES ASSUME MInv, [MeterNext]_meterVars
             PROVE  [Account!AccountNext]_(Account!accountVars)
  OBVIOUS
<1> DEFINE Step == [Account!AccountNext]_(Account!accountVars)
<1>1. ASSUME rows' = rows, meter' = meter PROVE Step
  BY <1>1 DEF Account!accountVars
<1>2. ASSUME NEW s \in Sessions, NEW t \in DOMAIN todo[s], CloseStatement(s, t), meter' = meter
      PROVE  Step
  BY <1>1, <1>2, Shapes, WriteIsRecorded DEF CloseStatement
<1>3. ASSUME NEW f \in Flushers, NEW t \in DOMAIN todo[f], meter' = meter,
             WriteCounters(t, todo[f][t]) \/ WriteClose(t, todo[f][t])
      PROVE  Step
  BY <1>3, WriteIsRecorded DEF Tasks
<1>4. ASSUME NEW s \in Sessions, InsertRow(s) PROVE Step
  <2>1. PICK t \in DOMAIN todo[s] : rows' = [rows EXCEPT ![t].state = "open"] \/ UNCHANGED rows
    BY <1>4 DEF InsertRow
  <2>2. t \in Tunnels /\ rows[t].state = "none" /\ rows[t].bytes = 0
    BY <1>4, Shapes DEF InsertRow, MInv, InsertsOwn, RowsTrue
  <2>3. CASE rows' = [rows EXCEPT ![t].state = "open"]
    <3>1. rows' = [rows EXCEPT ![t] = [state |-> "open", bytes |-> 0]]
      <4>1. rows[t] \in [state : {"none", "open", "closed"}, bytes : 0 .. MaxBytes]
        BY <2>2 DEF MInv, MeterTypeOK
      <4>2. [rows[t] EXCEPT !.state = "open"] = [state |-> "open", bytes |-> 0]
        BY <2>2, <4>1
      <4> QED BY <2>3, <4>2
    <3>2. Account!OpenRow(t)
      BY <1>4, <2>2, <3>1 DEF InsertRow, Account!OpenRow
    <3> QED BY <2>2, <3>2 DEF Account!AccountNext
  <2> QED BY <1>1, <1>4, <2>1, <2>3 DEF InsertRow
<1>5. ASSUME NEW s \in Sessions, SessionStep(s) PROVE Step
  BY <1>1, <1>2, <1>4, <1>5
  DEF SessionStep, FinishUnregister, CollectRemaining, CloseRemaining, RemoveSession,
      RegisterTunnel, Unregister
<1>6. ASSUME NEW t \in Tunnels, Transfer(t) PROVE Step
  BY <1>6 DEF Transfer, Account!AccountNext, Account!Carry
<1>7. ASSUME NEW t \in Tunnels, ForceClose(t) \/ TimerFlush(t) PROVE Step
  BY <1>1, <1>3, <1>7 DEF ForceClose, TimerFlush, FlushOne, Flushers
<1>8. CASE FlushTick \/ TimerError \/ Signal \/ DrainTimeout \/ Exit \/ Crash \/ Elsewhere
  BY <1>1, <1>8 DEF FlushTick, TimerError, Abandon, Signal, DrainTimeout, Exit, Crash, Down, Elsewhere
<1>9. CASE ShutdownFlush \/ ShutdownClose
  BY <1>1, <1>3, <1>9 DEF ShutdownFlush, ShutdownClose, FlushOne, Abandon, Flushers
<1>10. CASE Restart
  <2>1. CASE OpenRows = {}
    <3>1. rows' = rows
      BY <1>10, <2>1 DEF Restart, CloseStale, MInv, MeterTypeOK
    <3> QED BY <1>1, <1>10, <3>1 DEF Restart
  <2>2. CASE OpenRows # {}
    <3>1. Account!OpenRows = OpenRows /\ OpenRows \in SUBSET Tunnels
      BY DEF Account!OpenRows, OpenRows
    <3>2. Account!CloseRows(OpenRows)
      BY <1>10, <2>2, <3>1 DEF Restart, CloseStale, Account!CloseRows
    <3> QED BY <3>1, <3>2 DEF Account!AccountNext
  <2> QED BY <2>1, <2>2
<1>11. CASE UNCHANGED meterVars
  BY <1>1, <1>11 DEF meterVars
<1> QED BY <1>5, <1>6, <1>7, <1>8, <1>9, <1>10, <1>11 DEF MeterNext, ShutdownStep

\* Whichever snapshot is written last and wherever the process dies, the table
\* keeps the account promised to billing: what db/metering.rs says of GREATEST
\* and of the guard on unregistered_at.
THEOREM TableKeepsAccount == MeterSpec => AccountRefined
<1>1. MeterInit => Account!AccountInit
  BY DEF MeterInit, Account!AccountInit, Account!NoRow
<1>2. MInv /\ [MeterNext]_meterVars => [Account!AccountNext]_(Account!accountVars)
  BY AccountStep
<1> QED BY <1>1, <1>2, MeterInvariant, PTL DEF MeterSpec, AccountRefined, Account!AccountSpec

=============================================================================
