--------------------------------- MODULE P2P ---------------------------------
(***************************************************************************)
(* Peer-to-peer tunnels: publishers claim a name (core/router.rs), probe   *)
(* their NAT (client stun.rs) and report it; each local connection of a    *)
(* subscriber asks for a relay (client control.rs), which the server       *)
(* arranges between the two sessions (control/session.rs).                 *)
(*                                                                         *)
(* One name, publishers with sessions of their own, and one subscriber     *)
(* whose session's task handles a frame or a control message at a time.    *)
(***************************************************************************)
EXTENDS Naturals, Sequences, FiniteSets, SequencesExt

CONSTANTS
    Publishers,   \* sessions that publish under the name
    Knowing,      \* those whose secret is the subscriber's
    Conns,        \* local connections accepted by the subscriber
    CtlCapacity,  \* capacity of a session's control channel
    MaxDrops      \* bound: losses of the subscriber's data connection

ASSUME P2PBounds == Knowing \subseteq Publishers /\ CtlCapacity \in Nat \ {0} /\ MaxDrops \in Nat

VARIABLES
    enabled,   \* config.p2p.enabled
    reg,       \* reg[p]: progress of the publisher's registration
    online,    \* publishers whose session is in core.sessions
    entry,     \* p2p_tunnels[name]
    reported,  \* publishers that have reported their NAT
    mistaken,  \* whether a NAT was reported for what it is not (history)
    asked,     \* P2pConnect frames on their way to the server
    hand,      \* what the subscriber's session task is in the middle of
    pending,   \* core.pending_conns
    pubCtl,    \* pubCtl[p]: the publisher's control channel
    subCtl,    \* the subscriber's own control channel
    toSub,     \* frames on their way to the subscriber's client
    data,      \* streams on their way to the subscriber's client
    got,       \* got[c]: ends of the relay that have a stream
    who,       \* who[c]: the publisher that opened its end (history)
    relay,     \* relay[c]: the relay task
    local,     \* local[c]: the accepted local connection
    streams,   \* pending_streams of the client's main loop
    metas,     \* pending_conns of the client's main loop
    selfdial,  \* whether a stream was proxied to the subscriber's own port
    drops

serverVars == <<enabled, reg, online, entry, reported, mistaken>>
relayVars == <<hand, pending, pubCtl, subCtl, got, who, relay>>
clientVars == <<local, streams, metas, selfdial, drops>>
wires == <<asked, toSub, data>>
vars == <<serverVars, relayVars, clientVars, wires>>

Nobody == [pub |-> "nobody", direct |-> FALSE]
Idle == [at |-> "idle"]
Other == "other"    \* a message for another tunnel of the session

ASSUME OtherIsNoConn == Other \notin Conns

Init ==
    /\ enabled \in BOOLEAN
    /\ reg = [p \in Publishers |-> "new"] /\ online = Publishers
    /\ entry = Nobody
    /\ reported = {} /\ mistaken = FALSE
    /\ asked = <<>> /\ toSub = <<>> /\ data = {}
    /\ hand = Idle /\ pending = {}
    /\ pubCtl = [p \in Publishers |-> <<>>] /\ subCtl = <<>>
    /\ got = [c \in Conns |-> {}] /\ who = [c \in Conns |-> "nobody"]
    /\ relay = [c \in Conns |-> "none"]
    /\ local = [c \in Conns |-> "new"]
    /\ streams = {} /\ metas = {} /\ selfdial = FALSE /\ drops = 0

----------------------------------------------------------------------------
(* Publishing                                                              *)

\* contains_key of register_p2p_tunnel
NameFree == entry = Nobody

\* RegisterTunnel with protocol p2p: the name is checked ...
CheckName(p) ==
    /\ reg[p] = "new" /\ p \in online
    /\ reg' = [reg EXCEPT ![p] = IF enabled /\ NameFree THEN "checked" ELSE "refused"]
    /\ UNCHANGED <<enabled, online, entry, reported, mistaken, relayVars, clientVars, wires>>

\* ... and inserted, over whatever is there by now; the index and the session
\* learn of the tunnel.
InsertName(p) ==
    /\ reg[p] = "checked" /\ reg' = [reg EXCEPT ![p] = "in"]
    /\ entry' = [pub |-> p, direct |-> FALSE]
    /\ UNCHANGED <<enabled, online, reported, mistaken, relayVars, clientVars, wires>>

\* The mapped address STUN server i sees, for the NAT the publisher is behind.
Mapped(nat, i) ==
    CASE nat = "open" -> "own"
      [] nat = "cone" -> "ext1"
      [] nat = "symmetric" -> IF i = 1 THEN "ext1" ELSE "ext2"

\* stun_binding_request to the second server: its answer, or nothing. A late
\* answer of the first is read in its place, fails the comparison of the
\* transaction id, and counts as nothing.
\* Variant: the transaction id is not compared.
SecondAnswer_any(nat, late) == {Mapped(nat, 2), "none"} \cup (IF late THEN {Mapped(nat, 1)} ELSE {})
SecondAnswer(nat, late) == {Mapped(nat, 2), "none"}

\* probe_nat's classification.
NatType(m1, m2) ==
    CASE m1 = "none" /\ m2 = "none" -> "unknown"
      [] (m1 = "none") # (m2 = "none") -> "cone"
      [] OTHER -> IF m1 = "own" THEN "open" ELSE IF m1 = m2 THEN "cone" ELSE "symmetric"

\* classify_nat_pair, with the subscriber taken for a cone NAT.
attempt_direct(nat_type) == nat_type \in {"open", "cone", "symmetric"}

\* A report that is wrong although it does not rest on a single answer.
Mistaken(nat, m1, m2) ==
    /\ NatType(m1, m2) \notin {"unknown", nat}
    /\ (m1 # "none") = (m2 = Mapped(nat, 2))

\* P2pNatInfo, written by update_p2p_nat_info into the entry of the name.
ReportNat(p) ==
    /\ reg[p] = "in" /\ p \in online \ reported
    /\ reported' = reported \cup {p}
    /\ \E nat \in {"open", "cone", "symmetric"} :
          \E m1 \in {Mapped(nat, 1), "none"} : \E m2 \in SecondAnswer(nat, m1 = "none") :
             /\ mistaken' = (mistaken \/ Mistaken(nat, m1, m2))
             /\ entry' = IF entry = Nobody THEN entry
                         ELSE [entry EXCEPT !.direct = attempt_direct(NatType(m1, m2))]
    /\ UNCHANGED <<enabled, reg, online, relayVars, clientVars, wires>>

\* remove_session drops the session first; its control channel closes with it.
PublisherGone(p) ==
    /\ p \in online /\ reg[p] # "checked"
    /\ online' = online \ {p}
    /\ pubCtl' = [pubCtl EXCEPT ![p] = <<>>]
    /\ UNCHANGED <<enabled, reg, entry, reported, mistaken, hand, pending, subCtl, got, who,
                   relay, clientVars, wires>>

\* remove_tunnel: the name goes, whoever holds it; by the session's end, an
\* unregister frame or a forced close.
\* Variant: the name outlives the tunnel.
remove_tunnel_leaks(p) ==
    /\ reg[p] = "in" /\ reg' = [reg EXCEPT ![p] = "gone"]
    /\ UNCHANGED <<enabled, online, entry, reported, mistaken, relayVars, clientVars, wires>>
remove_tunnel(p) ==
    /\ reg[p] = "in" /\ reg' = [reg EXCEPT ![p] = "gone"]
    /\ entry' = Nobody
    /\ UNCHANGED <<enabled, online, reported, mistaken, relayVars, clientVars, wires>>

----------------------------------------------------------------------------
(* The subscriber's client                                                 *)

\* A local connection is accepted and a relay asked for.
Accept(c) ==
    /\ local[c] = "new" /\ local' = [local EXCEPT ![c] = "asked"]
    /\ asked' = Append(asked, c)
    /\ UNCHANGED <<serverVars, relayVars, streams, metas, selfdial, drops, toSub, data>>

Frame(kind, c) == [kind |-> kind, conn |-> c]

TakeFrame(kind, c) ==
    /\ toSub # <<>> /\ Head(toSub) = Frame(kind, c)
    /\ toSub' = Tail(toSub)
    /\ UNCHANGED <<serverVars, relayVars, asked, data, drops>>

OnError(c) ==
    /\ TakeFrame("error", c)
    /\ local' = [local EXCEPT ![c] = "closed"]
    /\ UNCHANGED <<streams, metas, selfdial>>

\* P2pConnected: the stream may already be there.
OnConnected(c) ==
    /\ TakeFrame("connected", c)
    /\ local' = [local EXCEPT ![c] = IF c \in streams THEN "bridged" ELSE "waiting"]
    /\ streams' = streams \ {c}
    /\ UNCHANGED <<metas, selfdial>>

\* NewConnection: skipped for a relay that waits for its stream; otherwise the
\* subscriber's own listening address is what find_local_target returns.
OnNewConnection(c) ==
    /\ TakeFrame("new", c)
    /\ IF local[c] = "waiting" THEN UNCHANGED <<streams, metas, selfdial>>
       ELSE /\ streams' = streams \ {c}
            /\ metas' = IF c \in streams THEN metas ELSE metas \cup {c}
            /\ selfdial' = (selfdial \/ c \in streams)
    /\ UNCHANGED local

\* P2pPunchInstructions: an attempt in the background. The publisher is never
\* told to send probes, so the attempt times out, and its end changes nothing.
OnPunch(c) ==
    /\ TakeFrame("punch", c)
    /\ UNCHANGED <<local, streams, metas, selfdial>>

\* A stream of the data connection reaches the main loop.
OnStream(c) ==
    /\ c \in data /\ data' = data \ {c}
    /\ CASE local[c] = "waiting" ->
               local' = [local EXCEPT ![c] = "bridged"] /\ UNCHANGED <<streams, metas, selfdial>>
         [] local[c] # "waiting" /\ c \in metas ->
               metas' = metas \ {c} /\ selfdial' = TRUE /\ UNCHANGED <<local, streams>>
         [] OTHER -> streams' = streams \cup {c} /\ UNCHANGED <<local, metas, selfdial>>
    /\ UNCHANGED <<serverVars, relayVars, asked, toSub, drops>>

\* The data connection drops: streams die, the buffered halves are cleared,
\* connections that wait for a stream stay.
DataDrop ==
    /\ drops < MaxDrops /\ drops' = drops + 1
    /\ streams' = {} /\ metas' = {} /\ data' = {}
    /\ local' = [c \in Conns |-> IF local[c] = "bridged" THEN "closed" ELSE local[c]]
    /\ UNCHANGED <<serverVars, relayVars, asked, toSub, selfdial>>

\* The relay's end is seen on the bridged connection.
LocalEnds(c) ==
    /\ local[c] = "bridged" /\ relay[c] = "over"
    /\ local' = [local EXCEPT ![c] = "closed"]
    /\ UNCHANGED <<serverVars, relayVars, wires, streams, metas, selfdial, drops>>

----------------------------------------------------------------------------
(* The subscriber's session on the server                                  *)

SubUnchanged == UNCHANGED <<serverVars, clientVars, data, who>>

\* resolve_p2p needs the entry and its publisher's session.
resolve_p2p == IF entry # Nobody /\ entry.pub \in online THEN entry ELSE Nobody

\* P2pConnect: refused, or a publisher snapshot is taken.
HandleConnect ==
    /\ hand = Idle /\ asked # <<>> /\ asked' = Tail(asked)
    /\ LET c == Head(asked)
           found == resolve_p2p
       IN  IF ~enabled \/ found = Nobody \/ found.pub \notin Knowing
           THEN toSub' = Append(toSub, Frame("error", c)) /\ UNCHANGED hand
           ELSE /\ hand' = [at |-> "ask", conn |-> c, pub |-> found.pub]
                /\ toSub' = IF found.direct
                            THEN Append(toSub, Frame("punch", c)) ELSE toSub
    /\ UNCHANGED <<pending, pubCtl, subCtl, got, relay>> /\ SubUnchanged

\* The publisher the request goes to: the snapshot's.
\* Variant: the one the name stands for by now.
Target_by_name == IF entry = Nobody THEN hand.pub ELSE entry.pub
Target == hand.pub

\* What the subscriber hears when the publisher's session has gone.
\* Variant: nothing.
Disconnected_silent(c) == <<>>
Disconnected(c) == <<Frame("error", c)>>

\* publisher_tx.send waits for room; it fails if the session has gone.
AskPublisher ==
    /\ hand.at = "ask"
    /\ IF Target \in online
       THEN /\ Len(pubCtl[Target]) < CtlCapacity
            /\ pubCtl' = [pubCtl EXCEPT ![Target] = Append(@, hand.conn)]
            /\ pending' = pending \cup {<<hand.conn, "pub">>}
            /\ hand' = [hand EXCEPT !.at = "answer"] /\ UNCHANGED toSub
       ELSE /\ toSub' = toSub \o Disconnected(hand.conn) /\ hand' = Idle
            /\ UNCHANGED <<pubCtl, pending>>
    /\ UNCHANGED <<subCtl, got, relay, asked>> /\ SubUnchanged

\* Variant: the subscriber is told of the stream before it is told of the relay.
Announcement_late(c) == <<Frame("new", c), Frame("connected", c)>>
Announcement(c) == <<Frame("connected", c)>>

\* try_send: the request for the subscriber's own stream is lost if there is
\* no room.
Offered(queue, c) == IF Len(queue) < CtlCapacity THEN Append(queue, c) ELSE queue

\* P2pConnected, then the session's own control channel, then the relay task.
AnswerSubscriber ==
    /\ hand.at = "answer" /\ hand' = Idle
    /\ toSub' = toSub \o Announcement(hand.conn)
    /\ pending' = pending \cup {<<hand.conn, "sub">>}
    /\ subCtl' = Offered(subCtl, hand.conn)
    /\ relay' = [relay EXCEPT ![hand.conn] = "waitPub"]
    /\ UNCHANGED <<pubCtl, got, asked>> /\ SubUnchanged

\* Edge tasks use the same channels for the sessions' other tunnels (bound: one
\* such message at a time).
OtherTraffic ==
    /\ Other \notin ToSet(subCtl) \cup UNION {ToSet(pubCtl[p]) : p \in Publishers}
    /\ \/ /\ Len(subCtl) < CtlCapacity /\ subCtl' = Append(subCtl, Other)
          /\ UNCHANGED pubCtl
       \/ \E p \in online :
             /\ Len(pubCtl[p]) < CtlCapacity
             /\ pubCtl' = [pubCtl EXCEPT ![p] = Append(@, Other)]
             /\ UNCHANGED subCtl
    /\ UNCHANGED <<hand, pending, got, relay, asked, toSub>> /\ SubUnchanged

SubOther ==
    /\ hand = Idle /\ subCtl # <<>> /\ Head(subCtl) = Other
    /\ subCtl' = Tail(subCtl)
    /\ UNCHANGED <<hand, pending, pubCtl, got, relay, asked, toSub>> /\ SubUnchanged

PubOther(p) ==
    /\ pubCtl[p] # <<>> /\ Head(pubCtl[p]) = Other
    /\ pubCtl' = [pubCtl EXCEPT ![p] = Tail(@)]
    /\ UNCHANGED <<hand, pending, subCtl, got, relay, asked, toSub>> /\ SubUnchanged

\* The main loop takes the request: the client is told, and the driver opens
\* the stream ...
OpenSub(c) ==
    /\ hand = Idle /\ subCtl # <<>> /\ Head(subCtl) = c /\ subCtl' = Tail(subCtl)
    /\ toSub' = Append(toSub, Frame("new", c)) /\ data' = data \cup {c}
    /\ pending' = pending \ {<<c, "sub">>}
    /\ got' = IF <<c, "sub">> \in pending THEN [got EXCEPT ![c] = @ \cup {"sub"}] ELSE got
    /\ UNCHANGED <<serverVars, clientVars, asked, hand, pubCtl, who, relay>>

\* ... or cannot: the driver is dead, or the open times out or fails.
OpenSubFails(c) ==
    /\ hand = Idle /\ subCtl # <<>> /\ Head(subCtl) = c /\ subCtl' = Tail(subCtl)
    /\ \E told, cancelled \in BOOLEAN :
          /\ told \/ cancelled
          /\ toSub' = IF told THEN Append(toSub, Frame("new", c)) ELSE toSub
          /\ pending' = IF cancelled THEN pending \ {<<c, "sub">>} ELSE pending
    /\ UNCHANGED <<hand, pubCtl, got, relay, asked>> /\ SubUnchanged

----------------------------------------------------------------------------
(* The publisher's session and the relay task                              *)

OpenPub(p, c) ==
    /\ pubCtl[p] # <<>> /\ Head(pubCtl[p]) = c
    /\ pubCtl' = [pubCtl EXCEPT ![p] = Tail(@)]
    /\ pending' = pending \ {<<c, "pub">>}
    /\ who' = [who EXCEPT ![c] = p]
    /\ got' = IF relay[c] \in {"none", "waitPub"} THEN [got EXCEPT ![c] = @ \cup {"pub"}] ELSE got
    /\ UNCHANGED <<serverVars, clientVars, wires, hand, subCtl, relay>>

OpenPubFails(p, c) ==
    /\ pubCtl[p] # <<>> /\ Head(pubCtl[p]) = c
    /\ pubCtl' = [pubCtl EXCEPT ![p] = Tail(@)]
    /\ \/ pending' = pending \ {<<c, "pub">>}
       \/ UNCHANGED pending
    /\ UNCHANGED <<serverVars, clientVars, wires, hand, subCtl, got, who, relay>>

RelayHasPublisher(c) ==
    /\ relay[c] = "waitPub" /\ "pub" \in got[c]
    /\ relay' = [relay EXCEPT ![c] = "waitSub"]
    /\ UNCHANGED <<serverVars, clientVars, wires, hand, pending, pubCtl, subCtl, got, who>>

\* 30 seconds without the publisher, or its request was cancelled.
RelayLosesPublisher(c) ==
    /\ relay[c] = "waitPub" /\ "pub" \notin got[c]
    /\ relay' = [relay EXCEPT ![c] = "over"]
    /\ pending' = pending \ {<<c, "sub">>}
    /\ UNCHANGED <<serverVars, clientVars, wires, hand, pubCtl, subCtl, got, who>>

RelayHasSubscriber(c) ==
    /\ relay[c] = "waitSub" /\ "sub" \in got[c]
    /\ relay' = [relay EXCEPT ![c] = "bridged"]
    /\ UNCHANGED <<serverVars, clientVars, wires, hand, pending, pubCtl, subCtl, got, who>>

RelayLosesSubscriber(c) ==
    /\ relay[c] = "waitSub" /\ "sub" \notin got[c]
    /\ relay' = [relay EXCEPT ![c] = "over"]
    /\ UNCHANGED <<serverVars, clientVars, wires, hand, pending, pubCtl, subCtl, got, who>>

\* copy_bidirectional returns; the publisher's meter is charged.
RelayEnds(c) ==
    /\ relay[c] = "bridged" /\ relay' = [relay EXCEPT ![c] = "over"]
    /\ UNCHANGED <<serverVars, clientVars, wires, hand, pending, pubCtl, subCtl, got, who>>

----------------------------------------------------------------------------
Publishing(p) ==
    CheckName(p) \/ InsertName(p) \/ ReportNat(p) \/ PublisherGone(p) \/ remove_tunnel(p)

PublisherTurn(p) == PubOther(p) \/ \E c \in Conns : OpenPub(p, c) \/ OpenPubFails(p, c)

ClientTurn(c) ==
    OnError(c) \/ OnConnected(c) \/ OnNewConnection(c) \/ OnPunch(c) \/ OnStream(c)

RelayTurn(c) ==
    \/ RelayHasPublisher(c) \/ RelayLosesPublisher(c)
    \/ RelayHasSubscriber(c) \/ RelayLosesSubscriber(c)

SessionTurn ==
    \/ HandleConnect \/ AskPublisher \/ AnswerSubscriber \/ SubOther
    \/ \E c \in Conns : OpenSub(c) \/ OpenSubFails(c)

Next ==
    \/ \E p \in Publishers : Publishing(p) \/ PublisherTurn(p)
    \/ \E c \in Conns : Accept(c) \/ ClientTurn(c) \/ RelayTurn(c) \/ LocalEnds(c) \/ RelayEnds(c)
    \/ SessionTurn \/ OtherTraffic \/ DataDrop

\* The tasks of the sessions, the client's main loop and the relays run on. The
\* session's select picks among its ready arms at random, and a sender that
\* waits for room in a channel is served in turn.
Fairness ==
    /\ SF_vars(HandleConnect) /\ SF_vars(AskPublisher) /\ WF_vars(SessionTurn)
    /\ \A c \in Conns : WF_vars(ClientTurn(c)) /\ WF_vars(RelayTurn(c)) /\ WF_vars(LocalEnds(c))
    /\ \A p \in Publishers : WF_vars(PublisherTurn(p))

Spec == Init /\ [][Next]_vars
FairSpec == Spec /\ Fairness

----------------------------------------------------------------------------
Ids == Conns \X {"pub", "sub"}

\* Type invariant; no control channel outgrows its capacity.
P2PTypeOK ==
    /\ \A p \in Publishers : Len(pubCtl[p]) <= CtlCapacity
    /\ Len(subCtl) <= CtlCapacity
    /\ reg \in [Publishers -> {"new", "checked", "in", "refused", "gone"}]
    /\ entry.pub \in Publishers \cup {"nobody"}
    /\ pending \subseteq Ids /\ data \subseteq Conns /\ metas \subseteq Conns
    /\ relay \in [Conns -> {"none", "waitPub", "waitSub", "bridged", "over"}]
    /\ local \in [Conns -> {"new", "asked", "waiting", "bridged", "closed"}]

\* A relay only carries the subscriber's bytes to a publisher that knows the
\* secret, whatever happens to the name between the check in P2pConnect and
\* the publisher's stream.
SecretGuards == \A c \in Conns : relay[c] = "bridged" => who[c] \in Knowing

\* A publisher's NAT is reported as what it is; a symmetric NAT passes for a
\* cone only when exactly one STUN server answered in time (probe_nat), never
\* because of a late answer.
NatIsNotMistaken == ~mistaken

\* The name never stands for a tunnel that was removed, in any order of
\* registrations and removals under it.
NameIsAlive == entry # Nobody => reg[entry.pub] = "in"

\* The subscriber's client never takes a relay stream for a connection to its
\* own listening port, in any order of P2pConnected, NewConnection and the
\* stream itself.
NeverDialsItself == ~selfdial

\* Every accepted local connection gets its answer, and one that is bridged
\* ends with its relay.
EveryConnectAnswered ==
    \A c \in Conns : (local[c] = "asked") ~> (local[c] \in {"waiting", "bridged", "closed"})

\* No peer is taken for something it is not: a NAT for a friendlier one, or the
\* subscriber's own stream for a publisher's (probe_nat, main_loop).
PeersNotMistaken == P2PTypeOK /\ NatIsNotMistaken /\ NeverDialsItself

=============================================================================
