----------------------------- MODULE Dashboard -----------------------------
(***************************************************************************)
(* The dashboard API of rustunnel-server: the failed-credential throttle   *)
(* it shares with the control handshake (auth.rs), tenant scopes, the live *)
(* views, the server-sent event stream of a group, token administration    *)
(* and the audit log (dashboard/api.rs, audit.rs, db/mod.rs).              *)
(*                                                                         *)
(* A request is a task of its own: it passes the throttle, resolves its    *)
(* scope against PostgreSQL (an await), and then reads tables that session *)
(* tasks change under it.  Every await of the code is a step boundary      *)
(* here.  All requests come from one client address, the limiter's key.    *)
(***************************************************************************)
EXTENDS Integers, Sequences, FiniteSets, SequencesExt

CONSTANTS
    Calls,         \* requests and handshakes in flight
    Sessions,      \* session ids, each used at most once
    Tunnels,       \* tunnel ids, each used at most once
    Kinds,         \* tunnel protocols in use, of "http", "tcp", "udp", "p2p"
    Tokens,        \* rows the tokens table can hold
    UserOf,        \* UserOf[k]: tokens.user_id, or NoUser
    NoUser,
    MaxFailures,   \* the limiter's max_failures
    Window,        \* the limiter's window, in clock ticks
    MaxTime,       \* bound: the clock
    AuditCapacity, \* the audit channel's 512
    EventCapacity, \* GROUP_EVENT_CAPACITY
    MaxEvents      \* bound: health events broadcast

ASSUME DashboardBounds ==
    /\ MaxFailures \in Nat \ {0} /\ Window \in Nat /\ MaxTime \in Nat
    /\ AuditCapacity \in Nat \ {0} /\ EventCapacity \in Nat \ {0} /\ MaxEvents \in Nat
ASSUME CallsFinite == IsFiniteSet(Calls)
ASSUME TokenOwners == UserOf \in [Tokens -> {UserOf[k] : k \in Tokens}]

VARIABLES
    table,      \* ids present in the tokens table
    issued,     \* ids ever inserted (uuids are not reused)
    removed,    \* ids ever deleted
    sessions,   \* core.sessions: ids present
    ident,      \* ident[s]: token and user a session authenticated with
    tunnel,     \* tunnel[t]: its place in the registration life cycle
    failures,   \* AuthFailureLimiter.failures of the client address
    now,        \* the clock
    call,       \* call[c]: the state of a request
    stream,     \* stream[c]: the broadcast receiver of an event stream
    broadcasts, \* number of group events sent
    auditq,     \* the audit channel
    auditlog,   \* the token lines of the audit file
    dropped     \* whether try_send ever found the audit channel full

throttleVars == <<failures, now>>
tableVars == <<table, issued, removed>>
coreVars == <<sessions, ident, tunnel>>
auditVars == <<auditq, auditlog, dropped>>
vars == <<throttleVars, tableVars, coreVars, call, stream, broadcasts, auditVars>>

Admin == <<"admin", NoUser>>
UserScope(u) == <<"user", u>>
TokenScope(k) == <<"token", k>>
Nobody == [token |-> NoUser, user |-> NoUser]   \* db_token_id and user_id both None
Fresh == [st |-> "new", owner |-> NoUser, kind |-> "http"]
Idle == [pc |-> "idle", scope |-> Admin, shown |-> {}, change |-> <<>>]
\* due counts the events broadcast since the subscription that the reader has
\* neither been offered nor been told of; only LossIsAnnounced reads it.
NoStream == [queue |-> <<>>, missed |-> 0, due |-> 0]

Init ==
    /\ table = {k \in Tokens : UserOf[k] # NoUser} /\ issued = table /\ removed = {}
    /\ sessions = {} /\ ident = [s \in Sessions |-> Nobody]
    /\ tunnel = [t \in Tunnels |-> Fresh]
    /\ failures = <<>> /\ now = 0
    /\ call = [c \in Calls |-> Idle] /\ stream = [c \in Calls |-> NoStream]
    /\ broadcasts = 0
    /\ auditq = <<>> /\ auditlog = <<>> /\ dropped = FALSE

----------------------------------------------------------------------------
(* AuthFailureLimiter (auth.rs)                                            *)

\* The entries popped while the front of the deque is older than the window.
Popped(deque) == {i \in 1..Len(deque) : \A j \in 1..i : deque[j] < now - Window}
Prune(deque) == SubSeq(deque, Cardinality(Popped(deque)) + 1, Len(deque))

\* Variant: the budget is exceeded before it is enforced (> for >=).
is_limited_late == Len(Prune(failures)) > MaxFailures
is_limited == Len(Prune(failures)) >= MaxFailures

record_failure == failures' = Append(Prune(failures), now)

Tick == /\ now < MaxTime /\ now' = now + 1
        /\ UNCHANGED <<failures, tableVars, coreVars, call, stream, broadcasts, auditVars>>

----------------------------------------------------------------------------
(* Requests: throttle, then scope                                          *)

Move(c, pc) == call' = [call EXCEPT ![c].pc = pc]
\* An answer that shows no tunnel ends the request at once.
Answer(c, shown) ==
    call' = [call EXCEPT ![c] = IF shown = {} THEN Idle
                                ELSE [@ EXCEPT !.pc = "answered", !.shown = shown]]

\* auth_throttle, and the same test in the control handshake: a client over
\* its budget is turned away before any secret is compared.
auth_throttle(c) ==
    /\ call[c].pc = "idle"
    /\ failures' = Prune(failures)
    /\ IF is_limited THEN Answer(c, {}) ELSE Move(c, "admitted")
    /\ UNCHANGED <<now, tableVars, coreVars, stream, broadcasts, auditVars>>

ScopeOf(k) == IF UserOf[k] # NoUser THEN UserScope(UserOf[k]) ELSE TokenScope(k)

\* require_auth: the admin token, or a row of the tokens table.
require_auth(c) ==
    /\ call[c].pc = "admitted"
    /\ \E scope \in {Admin} \cup {ScopeOf(k) : k \in table} :
          call' = [call EXCEPT ![c].pc = "scoped", ![c].scope = scope]
    /\ UNCHANGED <<throttleVars, tableVars, coreVars, stream, broadcasts, auditVars>>

\* A credential that matches nothing, or a database error: 401, and the
\* throttle records the failure once the handler has returned.
unauthorized(c) ==
    /\ call[c].pc = "admitted"
    /\ record_failure
    /\ Answer(c, {})
    /\ UNCHANGED <<now, tableVars, coreVars, stream, broadcasts, auditVars>>

\* The response is sent and the connection's task is free for another request.
Return(c) ==
    /\ call[c].pc = "answered"
    /\ call' = [call EXCEPT ![c] = Idle]
    /\ UNCHANGED <<throttleVars, tableVars, coreVars, stream, broadcasts, auditVars>>

----------------------------------------------------------------------------
(* The audit channel (audit.rs)                                            *)

try_send(event) ==
    IF Len(auditq) < AuditCapacity
    THEN auditq' = Append(auditq, event) /\ UNCHANGED <<auditlog, dropped>>
    ELSE dropped' = TRUE /\ UNCHANGED <<auditq, auditlog>>

\* The writer task of start_audit_logger.  Lines other than the token events
\* are written too and not kept here.
AuditWrite ==
    /\ auditq # <<>>
    /\ auditq' = Tail(auditq)
    /\ auditlog' = IF Head(auditq)[1] = "auth" THEN auditlog ELSE Append(auditlog, Head(auditq))
    /\ UNCHANGED <<throttleVars, tableVars, coreVars, call, stream, broadcasts, dropped>>

----------------------------------------------------------------------------
(* Control sessions and their tunnels, as the dashboard meets them         *)

\* The control handshake's outcome: the session is entered in core.sessions
\* with the identity of its token (none for the admin token).
register_session(c, s) ==
    /\ call[c].pc = "admitted"
    /\ s \notin sessions /\ ident[s] = Nobody
    /\ \A t \in Tunnels : tunnel[t].owner # s
    /\ sessions' = sessions \cup {s}
    /\ \E id \in {Nobody} \cup {[token |-> k, user |-> UserOf[k]] : k \in table} :
          ident' = [ident EXCEPT ![s] = id]
    /\ Move(c, "idle")
    /\ try_send(<<"auth", s>>)
    /\ UNCHANGED <<throttleVars, tableVars, tunnel, stream, broadcasts>>

\* A rejected handshake records its failure and an audit line.
reject_session(c) ==
    /\ call[c].pc = "admitted"
    /\ record_failure
    /\ Move(c, "idle")
    /\ try_send(<<"auth", NoUser>>)
    /\ UNCHANGED <<now, tableVars, coreVars, stream, broadcasts>>

\* register_*_tunnel looks the session up, and inserts the member later.
CheckSession(t, s) ==
    /\ tunnel[t] = Fresh /\ s \in sessions
    /\ \E kind \in Kinds :
          tunnel' = [tunnel EXCEPT ![t] = [st |-> "checked", owner |-> s, kind |-> kind]]
    /\ UNCHANGED <<throttleVars, tableVars, sessions, ident, call, stream, broadcasts, auditVars>>

InsertMember(t) ==
    /\ tunnel[t].st = "checked"
    /\ tunnel' = [tunnel EXCEPT ![t].st = "live"]
    /\ UNCHANGED <<throttleVars, tableVars, sessions, ident, call, stream, broadcasts, auditVars>>

Without(t) == [tunnel EXCEPT ![t].st = IF @ = "live" THEN "gone" ELSE @]

\* A session leaves: first its entry, then its tunnels, one at a time.
remove_session(s) ==
    /\ s \in sessions /\ sessions' = sessions \ {s}
    /\ UNCHANGED <<throttleVars, tableVars, ident, tunnel, call, stream, broadcasts, auditVars>>

remove_tunnel(t) ==
    /\ tunnel[t].st = "live"
    /\ tunnel' = Without(t)
    /\ UNCHANGED <<throttleVars, tableVars, sessions, ident, call, stream, broadcasts, auditVars>>

\* A live member's health bit flips: every receiver gets the event, and a
\* receiver that is full loses its oldest one.
broadcast_group_event(t) ==
    /\ broadcasts < MaxEvents /\ broadcasts' = broadcasts + 1
    /\ tunnel[t].st = "live" /\ tunnel[t].kind # "p2p"
    /\ stream' = [c \in Calls |->
          IF call[c].pc # "streaming" THEN stream[c]
          ELSE LET full == Len(stream[c].queue) >= EventCapacity
               IN  [stream[c] EXCEPT
                       !.queue = Append(IF full THEN Tail(@) ELSE @, t),
                       !.missed = IF full THEN @ + 1 ELSE @,
                       !.due = @ + 1]]
    /\ UNCHANGED <<throttleVars, tableVars, coreVars, call, auditVars>>

----------------------------------------------------------------------------
(* Scopes                                                                  *)

can_see(scope, id) ==
    \/ scope = Admin
    \/ scope[1] = "user" /\ id.user = scope[2]
    \/ scope[1] = "token" /\ id.token = scope[2]

\* Variant: a session that has just left is taken for the caller's own.
scope_sees_session_stale(scope, s) ==
    scope = Admin \/ s \notin sessions \/ can_see(scope, ident[s])
scope_sees_session(scope, s) ==
    scope = Admin \/ (s \in sessions /\ can_see(scope, ident[s]))

Live(kinds) == {t \in Tunnels : tunnel[t].st = "live" /\ tunnel[t].kind \in kinds}
Everything == {"http", "tcp", "udp", "p2p"}
Grouped == {"http", "tcp"}
find_tunnel_owning_session(t) == IF t \in Live(Everything) THEN {tunnel[t].owner} ELSE {}
Visible(scope, kinds) ==
    {t \in Live(kinds) : \A s \in find_tunnel_owning_session(t) : scope_sees_session(scope, s)}

Handler(c) == call[c].pc = "scoped"
Unchanged == UNCHANGED <<throttleVars, tableVars, coreVars, stream, broadcasts, auditVars>>

----------------------------------------------------------------------------
(* The live views                                                          *)

list_tunnels(c) == Handler(c) /\ Answer(c, Visible(call[c].scope, Everything)) /\ Unchanged

\* A group with no visible member is left out, and the counters of the others
\* are over their visible members only.
group_to_summary(scope) == Visible(scope, Grouped)
list_groups(c) == Handler(c) /\ Answer(c, group_to_summary(call[c].scope)) /\ Unchanged

\* The views of one tunnel: the general one, and the ones that walk a single
\* routing table.
get_tunnel(scope, t) == {t} \cap Visible(scope, Everything)
tunnel_udp_sessions(scope, t) == {t} \cap Visible(scope, {"udp"})
tunnel_p2p_peers(scope, t) == {t} \cap Visible(scope, {"p2p"})

ShowTunnel(c, t) ==
    /\ Handler(c)
    /\ \E shown \in {get_tunnel(call[c].scope, t), tunnel_udp_sessions(call[c].scope, t),
                     tunnel_p2p_peers(call[c].scope, t)} : Answer(c, shown)
    /\ Unchanged

\* The administrator's close is idempotent; another caller's needs a tunnel
\* it can see.
force_close_tunnel(c, t) ==
    /\ Handler(c)
    /\ IF call[c].scope = Admin \/ t \in Visible(call[c].scope, Everything)
       THEN tunnel' = Without(t) /\ Answer(c, {t})
       ELSE UNCHANGED tunnel /\ Answer(c, {})
    /\ UNCHANGED <<throttleVars, tableVars, sessions, ident, stream, broadcasts, auditVars>>

\* Captured requests and replay: the owner is checked, then the ring or the
\* database is read across an await.  Only the administrator may ask for a
\* tunnel that is gone.
CaptureVisible(scope, t) == t \in Visible(scope, Everything) \/ (scope = Admin /\ t \notin Live(Everything))

CheckCapture(c, t) ==
    /\ Handler(c)
    /\ IF CaptureVisible(call[c].scope, t)
       THEN call' = [call EXCEPT ![c].pc = "reading", ![c].shown = {t}]
       ELSE Answer(c, {})
    /\ Unchanged

ReadCapture(c) == call[c].pc = "reading" /\ Move(c, "answered") /\ Unchanged

\* Health timeline: the owner is checked, then the member is looked up again,
\* and may be gone by then.
CheckHealthEvents(c, t) ==
    /\ Handler(c)
    /\ IF t \in Visible(call[c].scope, Everything)
       THEN call' = [call EXCEPT ![c].pc = "timeline", ![c].shown = {t}]
       ELSE Answer(c, {})
    /\ Unchanged

find_member_health_events(c) ==
    /\ call[c].pc = "timeline"
    /\ Answer(c, call[c].shown \cap Live({"http", "tcp", "udp"}))
    /\ Unchanged

----------------------------------------------------------------------------
(* The event stream of a group                                             *)

\* All grouped tunnels of the model share one label.
group_events_sse(c) ==
    /\ Handler(c)
    /\ IF call[c].scope # Admin /\ Visible(call[c].scope, Grouped) = {}
       THEN Answer(c, {}) /\ UNCHANGED stream
       ELSE Move(c, "streaming") /\ stream' = [stream EXCEPT ![c] = NoStream]
    /\ UNCHANGED <<throttleVars, tableVars, coreVars, broadcasts, auditVars>>

\* Variant: a lagging receiver is resumed without telling the reader.
StreamLagged_silent(c) ==
    /\ call[c].pc = "streaming" /\ stream[c].missed > 0
    /\ stream' = [stream EXCEPT ![c].missed = 0]
    /\ UNCHANGED <<throttleVars, tableVars, coreVars, call, broadcasts, auditVars>>
StreamLagged(c) ==
    /\ call[c].pc = "streaming" /\ stream[c].missed > 0
    /\ stream' = [stream EXCEPT ![c].missed = 0, ![c].due = @ - stream[c].missed]
    /\ UNCHANGED <<throttleVars, tableVars, coreVars, call, broadcasts, auditVars>>

\* Each event is filtered again when it is sent: by group, and for a tenant by
\* the owner the member has now.
StreamItem(c) ==
    /\ call[c].pc = "streaming" /\ stream[c].missed = 0 /\ stream[c].queue # <<>>
    /\ LET t == Head(stream[c].queue)
           passes == /\ tunnel[t].kind \in Grouped
                     /\ call[c].scope = Admin \/ t \in Visible(call[c].scope, Everything)
       IN  /\ stream' = [stream EXCEPT ![c].queue = Tail(@), ![c].due = @ - 1]
           /\ call' = [call EXCEPT ![c].shown = IF passes THEN {t} ELSE {}]
    /\ UNCHANGED <<throttleVars, tableVars, coreVars, broadcasts, auditVars>>

\* The reader closes the stream and its receiver is dropped.
StreamClosed(c) ==
    /\ call[c].pc = "streaming"
    /\ call' = [call EXCEPT ![c] = Idle] /\ stream' = [stream EXCEPT ![c] = NoStream]
    /\ UNCHANGED <<throttleVars, tableVars, coreVars, broadcasts, auditVars>>

----------------------------------------------------------------------------
(* Tokens                                                                  *)

\* db::create_token inserts a row without a user; the audit event follows.
create_token(c, k) ==
    /\ Handler(c) /\ k \notin issued /\ UserOf[k] = NoUser
    /\ table' = table \cup {k} /\ issued' = issued \cup {k}
    /\ call' = [call EXCEPT ![c].pc = "auditing", ![c].change = <<"created", k>>]
    /\ UNCHANGED <<throttleVars, removed, coreVars, stream, broadcasts, auditVars>>

\* Variant: a delete is recorded whether or not a row was removed.
delete_token_unconditional(c, k) ==
    /\ Handler(c) /\ k \in issued
    /\ table' = table \ {k} /\ removed' = removed \cup {k}
    /\ call' = [call EXCEPT ![c].pc = "auditing", ![c].change = <<"deleted", k>>]
    /\ UNCHANGED <<throttleVars, issued, coreVars, stream, broadcasts, auditVars>>
\* db::delete_token: only the request whose DELETE removed the row goes on to
\* record it, the others answer 404.
delete_token(c, k) ==
    /\ Handler(c) /\ k \in issued
    /\ table' = table \ {k}
    /\ removed' = IF k \in table THEN removed \cup {k} ELSE removed
    /\ IF k \in table
       THEN call' = [call EXCEPT ![c].pc = "auditing", ![c].change = <<"deleted", k>>]
       ELSE Answer(c, {})
    /\ UNCHANGED <<throttleVars, issued, coreVars, stream, broadcasts, auditVars>>

AuditToken(c) ==
    /\ call[c].pc = "auditing"
    /\ try_send(call[c].change)
    /\ Answer(c, {})
    /\ UNCHANGED <<throttleVars, tableVars, coreVars, stream, broadcasts>>

----------------------------------------------------------------------------
CallStep(c) ==
    \/ auth_throttle(c) \/ require_auth(c) \/ unauthorized(c) \/ Return(c)
    \/ reject_session(c) \/ \E s \in Sessions : register_session(c, s)
    \/ list_tunnels(c) \/ list_groups(c)
    \/ \E t \in Tunnels :
          \/ ShowTunnel(c, t) \/ force_close_tunnel(c, t) \/ CheckCapture(c, t) \/ CheckHealthEvents(c, t)
    \/ ReadCapture(c) \/ find_member_health_events(c)
    \/ group_events_sse(c) \/ StreamLagged(c) \/ StreamItem(c) \/ StreamClosed(c)
    \/ \E k \in Tokens : create_token(c, k) \/ delete_token(c, k)
    \/ AuditToken(c)

Next ==
    \/ \E c \in Calls : CallStep(c)
    \/ \E t \in Tunnels :
          \/ InsertMember(t) \/ remove_tunnel(t) \/ broadcast_group_event(t)
          \/ \E s \in Sessions : CheckSession(t, s)
    \/ \E s \in Sessions : remove_session(s)
    \/ AuditWrite \/ Tick

Spec == Init /\ [][Next]_vars

----------------------------------------------------------------------------
Scopes == {Admin} \cup {ScopeOf(k) : k \in Tokens}
TokenEvents == {"created", "deleted"} \X Tokens

\* Type invariant: the tables, the requests and the channels hold what the
\* code puts in them, and neither channel is longer than its capacity.
DashTypeOK ==
    /\ table \subseteq issued /\ issued \subseteq Tokens /\ removed \subseteq issued
    /\ sessions \subseteq Sessions
    /\ \A s \in Sessions : ident[s].token \in Tokens \cup {NoUser}
    /\ \A t \in Tunnels : tunnel[t].st \in {"new", "checked", "live", "gone"}
    /\ \A i \in DOMAIN failures : failures[i] \in 0..now
    /\ \A c \in Calls :
          /\ call[c].pc \in {"idle", "admitted", "scoped", "reading", "timeline", "streaming",
                             "auditing", "answered"}
          /\ call[c].scope \in Scopes /\ call[c].shown \subseteq Tunnels
          /\ stream[c].queue \in Seq(Tunnels) /\ Len(stream[c].queue) <= EventCapacity
    /\ auditlog \in Seq(TokenEvents) /\ Len(auditq) <= AuditCapacity

\* The credential guesses one address gets through in a window are bounded by
\* the budget plus the attempts already past the check: is_limited and
\* record_failure (auth.rs) are separated by a database await, so the budget
\* is not exact, but it can be overrun only by the attempts in flight.
GuessesBounded == Len(Prune(failures)) <= MaxFailures + Cardinality(Calls) - 1

\* Tenant isolation of the live views (AuthScope, scope_sees_session): what a
\* request shows, closes, replays or streams belongs to a session of the
\* caller's own user or token, even when the session or the tunnel disappears
\* between the checks and the answer.
OwnTunnelsOnly ==
    \A c \in Calls : \A t \in call[c].shown :
        can_see(call[c].scope, ident[tunnel[t].owner]) \/ call[c].scope = Admin

\* Nothing is lost silently on an operator's stream (group_events_sse): every
\* event broadcast since the subscription has been delivered, announced by a
\* "lagged" event, or is still to come.
LossIsAnnounced ==
    \A c \in Calls : call[c].pc = "streaming" =>
        stream[c].due = stream[c].missed + Len(stream[c].queue)

AuditedOrPending ==
    ToSet(auditlog) \cup {e \in ToSet(auditq) : e[1] # "auth"}
        \cup {call[c].change : c \in {d \in Calls : call[d].pc = "auditing"}}

\* The audit file tells the truth about tokens (create_token, delete_token,
\* audit.rs): each creation and each deletion has at most one line, whatever
\* requests race to delete the same token, a line stands for a statement that
\* took effect, and while the channel has never been full every change is in
\* the file or on its way.
AuditIsTrue ==
    LET happened == {<<"created", k>> : k \in {j \in issued : UserOf[j] = NoUser}}
                    \cup {<<"deleted", k>> : k \in removed}
    IN  /\ IsInjective(auditlog)
        /\ AuditedOrPending \subseteq happened
        /\ ~dropped => happened \subseteq AuditedOrPending

\* What the API tells of the past is true: no audited change that did not happen,
\* and no gap in an event stream that is not announced (delete_token, the SSE
\* stream of a group).
RecordsAreTrue == DashTypeOK /\ LossIsAnnounced /\ AuditIsTrue

=============================================================================
