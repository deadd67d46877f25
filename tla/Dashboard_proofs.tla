-------------------------- MODULE Dashboard_proofs --------------------------
(***************************************************************************)
(* Proofs about the dashboard API, for any number of requests, sessions,   *)
(* tunnels and tokens: the failed-credential budget, tenant isolation, the *)
(* event stream and the audit file.                                        *)
(***************************************************************************)
EXTENDS Dashboard, FiniteSetTheorems, SequenceTheorems, TLAPS

-----------------------------------------------------------------------------
(* The inductive invariant *)

Pcs == {"idle", "admitted", "scoped", "reading", "timeline", "streaming", "auditing", "answered"}
\* Between these states a request has found nothing to show yet.
Bare == {"idle", "admitted", "scoped", "auditing"}
Identities == [token : Tokens \cup {NoUser}, user : {NoUser} \cup {UserOf[k] : k \in Tokens}]
TunnelRecords == [st : {"new", "checked", "live", "gone"}, owner : Sessions \cup {NoUser},
                  kind : Kinds \cup {"http"}]
CallRecords == [pc : Pcs, scope : Scopes, shown : SUBSET Tunnels, change : TokenEvents \cup {<<>>}]
StreamRecords == [queue : Seq(Tunnels), missed : Nat, due : Int]
AuditEvents == TokenEvents \cup ({"auth"} \X (Sessions \cup {NoUser}))

TableShape ==
  /\ table \subseteq issued /\ issued \subseteq Tokens /\ removed \subseteq issued
  /\ table \cap removed = {}
CoreShape ==
  /\ sessions \subseteq Sessions
  /\ ident \in [Sessions -> Identities]
  /\ tunnel \in [Tunnels -> TunnelRecords]
  /\ \A t \in Tunnels : tunnel[t].st # "new" => tunnel[t].owner \in Sessions
ThrottleShape ==
  /\ now \in Nat
  /\ failures \in Seq(Nat)
  /\ \A i \in 1 .. Len(failures) : failures[i] <= now
StreamShape ==
  /\ stream \in [Calls -> StreamRecords]
  /\ \A c \in Calls : Len(stream[c].queue) <= EventCapacity
  /\ broadcasts \in Nat
AuditShape ==
  /\ auditq \in Seq(AuditEvents) /\ Len(auditq) <= AuditCapacity
  /\ auditlog \in Seq(TokenEvents)
  /\ dropped \in BOOLEAN
DashShape ==
  /\ TableShape /\ CoreShape /\ ThrottleShape /\ StreamShape /\ AuditShape
  /\ call \in [Calls -> CallRecords]

\* Every attempt past the throttle may still add a failure: those that are
\* recorded and those that may be are within the budget together.
Admitted == {c \in Calls : call[c].pc = "admitted"}
GuessInv == Len(Prune(failures)) + Cardinality(Admitted) <= MaxFailures + Cardinality(Calls) - 1

\* What a tenant's request holds was registered by a session of the tenant.
Sees(v) ==
  \A t \in v.shown :
    v.scope = Admin \/ (tunnel[t].st # "new" /\ can_see(v.scope, ident[tunnel[t].owner]))
SightInv ==
  \A c \in Calls : Sees(call[c]) /\ (call[c].pc \in Bare => call[c].shown = {})

\* A change of the tokens table, and the places where its record can be.
Happened(e) ==
  \/ e[1] = "created" /\ e[2] \in issued /\ UserOf[e[2]] = NoUser
  \/ e[1] = "deleted" /\ e[2] \in removed
InLog(e) == \E i \in 1 .. Len(auditlog) : auditlog[i] = e
InQueue(e) == \E i \in 1 .. Len(auditq) : auditq[i] = e
InHand(e) == \E c \in Calls : call[c].pc = "auditing" /\ call[c].change = e

\* A change is recorded in one place, once.
RecordedOnce ==
  /\ \A i, j \in 1 .. Len(auditlog) : auditlog[i] = auditlog[j] => i = j
  /\ \A i, j \in 1 .. Len(auditq) : auditq[i] = auditq[j] /\ auditq[i] \in TokenEvents => i = j
  /\ \A c, d \in Calls :
       /\ call[c].pc = "auditing" /\ call[d].pc = "auditing"
       /\ call[c].change = call[d].change
       => c = d
  /\ \A e \in TokenEvents :
       ~(InLog(e) /\ InQueue(e)) /\ ~(InLog(e) /\ InHand(e)) /\ ~(InQueue(e) /\ InHand(e))
RecordInv ==
  /\ \A c \in Calls : call[c].pc = "auditing" => call[c].change \in TokenEvents
  /\ RecordedOnce
  /\ \A e \in TokenEvents : InLog(e) \/ InQueue(e) \/ InHand(e) => Happened(e)
  /\ ~dropped => \A e \in TokenEvents : Happened(e) => InLog(e) \/ InQueue(e) \/ InHand(e)

DashInv == DashShape /\ GuessInv /\ SightInv /\ LossIsAnnounced /\ RecordInv

-----------------------------------------------------------------------------
(* The throttle's deque *)

\* Popped and Prune with the clock as a parameter.
OldAt(deque, n) == {i \in 1 .. Len(deque) : \A j \in 1 .. i : deque[j] < n - Window}
KeptAt(deque, n) == SubSeq(deque, Cardinality(OldAt(deque, n)) + 1, Len(deque))

LEMMA PruneIsKept == \A d : Prune(d) = KeptAt(d, now)
BY DEF Prune, Popped, KeptAt, OldAt

\* What pruning leaves is a suffix.
LEMMA KeptBounded ==
  ASSUME NEW d \in Seq(Nat), NEW n \in Nat
  PROVE  /\ IsFiniteSet(OldAt(d, n)) /\ Cardinality(OldAt(d, n)) \in Nat
         /\ KeptAt(d, n) \in Seq(Nat)
         /\ Len(KeptAt(d, n)) = Len(d) - Cardinality(OldAt(d, n))
         /\ Len(KeptAt(d, n)) <= Len(d)
         /\ \A i \in 1 .. Len(KeptAt(d, n)) : \E j \in 1 .. Len(d) : KeptAt(d, n)[i] = d[j]
<1>1. OldAt(d, n) \subseteq 1 .. Len(d)
  BY DEF OldAt
<1>2. Len(d) \in Nat
  OBVIOUS
<1>3. IsFiniteSet(1 .. Len(d)) /\ Cardinality(1 .. Len(d)) = Len(d)
  <2>1. IsFiniteSet(1 .. Len(d)) /\ Cardinality(1 .. Len(d)) = IF 1 > Len(d) THEN 0 ELSE Len(d) - 1 + 1
    BY <1>2, FS_Interval
  <2> QED BY <2>1, <1>2
<1>4. IsFiniteSet(OldAt(d, n)) /\ Cardinality(OldAt(d, n)) <= Len(d)
  BY <1>1, <1>3, FS_Subset
<1>5. Cardinality(OldAt(d, n)) \in Nat
  BY <1>4, FS_CardinalityType
<1>6. PICK k \in Nat : k = Cardinality(OldAt(d, n))
  BY <1>5
<1>7. k <= Len(d)
  BY <1>4, <1>6
<1>8. /\ SubSeq(d, k + 1, Len(d)) \in Seq(Nat)
      /\ Len(SubSeq(d, k + 1, Len(d))) = Len(d) - k
      /\ \A i \in 1 .. (Len(d) - k) : SubSeq(d, k + 1, Len(d))[i] = d[k + i] /\ k + i \in 1 .. Len(d)
  BY <1>2, <1>7
<1>9. KeptAt(d, n) = SubSeq(d, k + 1, Len(d))
  BY <1>6 DEF KeptAt
<1>10. Len(d) - k <= Len(d)
  BY <1>2
<1>11. PICK e : e = SubSeq(d, k + 1, Len(d))
  OBVIOUS
<1>12. /\ e \in Seq(Nat) /\ Len(e) = Len(d) - k /\ Len(e) <= Len(d)
       /\ \A i \in 1 .. Len(e) : \E j \in 1 .. Len(d) : e[i] = d[j]
  BY <1>8, <1>10, <1>11
<1>13. KeptAt(d, n) = e
  BY <1>9, <1>11
<1> QED BY <1>4, <1>5, <1>6, <1>12, <1>13, Zenon

\* Time only makes entries older.
LEMMA KeptShrinks ==
  ASSUME NEW d \in Seq(Nat), NEW n \in Nat
  PROVE  Len(KeptAt(d, n + 1)) <= Len(KeptAt(d, n))
<1>1. OldAt(d, n) \subseteq OldAt(d, n + 1)
  BY DashboardBounds DEF OldAt
<1>2. n + 1 \in Nat
  OBVIOUS
<1>3. Cardinality(OldAt(d, n)) <= Cardinality(OldAt(d, n + 1))
  BY <1>1, <1>2, KeptBounded, FS_Subset
<1> QED BY <1>2, <1>3, KeptBounded

\* Pruning twice and recording a failure, as numbers.
LEMMA KeptTwice ==
  ASSUME NEW d \in Seq(Nat), NEW n \in Nat
  PROVE  Len(KeptAt(KeptAt(d, n), n)) <= Len(KeptAt(d, n))
BY KeptBounded

LEMMA KeptRecorded ==
  ASSUME NEW d \in Seq(Nat), NEW n \in Nat
  PROVE  /\ Append(KeptAt(d, n), n) \in Seq(Nat)
         /\ Len(KeptAt(Append(KeptAt(d, n), n), n)) <= Len(KeptAt(d, n)) + 1
<1>1. PICK e \in Seq(Nat) : e = KeptAt(d, n)
  BY KeptBounded
<1>2. Append(e, n) \in Seq(Nat) /\ Len(Append(e, n)) = Len(e) + 1
  OBVIOUS
<1>3. Len(KeptAt(Append(e, n), n)) <= Len(e) + 1
  BY <1>2, KeptBounded
<1> QED BY <1>1, <1>2, <1>3

-----------------------------------------------------------------------------
(* A step of one request *)

\* Request c becomes v, and nobody else's record changes.
Becomes(c, v) == v \in CallRecords /\ call' = [call EXCEPT ![c] = v]

LEMMA BecomesCall ==
  ASSUME DashShape, NEW c \in Calls, NEW v, Becomes(c, v)
  PROVE  /\ call' \in [Calls -> CallRecords]
         /\ call'[c] = v
         /\ \A d \in Calls : d # c => call'[d] = call[d]
BY DEF DashShape, Becomes

LEMMA IdleIsCall == Idle \in CallRecords /\ Idle.pc = "idle" /\ Idle.shown = {} /\ Idle.scope = Admin
<1>1. Admin \in Scopes
  BY DEF Scopes
<1>2. {} \in SUBSET Tunnels /\ <<>> \in TokenEvents \cup {<<>>} /\ "idle" \in Pcs
  BY DEF Pcs
<1> QED BY <1>1, <1>2 DEF Idle, CallRecords

LEMMA Moves ==
  ASSUME DashShape, NEW c \in Calls, NEW pc \in Pcs, Move(c, pc)
  PROVE  \E v : /\ Becomes(c, v) /\ v.pc = pc /\ v.shown = call[c].shown
                /\ v.scope = call[c].scope /\ v.change = call[c].change
<1>1. call[c] \in CallRecords /\ call \in [Calls -> CallRecords]
  BY DEF DashShape
<1>2. PICK v : v = [call[c] EXCEPT !.pc = pc]
  OBVIOUS
<1>3. /\ v \in CallRecords /\ v.pc = pc /\ v.shown = call[c].shown
      /\ v.scope = call[c].scope /\ v.change = call[c].change
  BY <1>1, <1>2 DEF CallRecords
<1>4. call' = [call EXCEPT ![c] = v]
  BY <1>1, <1>2 DEF Move
<1> QED BY <1>3, <1>4 DEF Becomes

LEMMA Answers ==
  ASSUME DashShape, NEW c \in Calls, NEW shown \in SUBSET Tunnels, Answer(c, shown)
  PROVE  \E v : /\ Becomes(c, v) /\ v.pc \in {"idle", "answered"} /\ v.shown = shown
                /\ v.pc = "idle" => shown = {}
                /\ v.scope = call[c].scope \/ shown = {}
<1>1. call[c] \in CallRecords /\ call \in [Calls -> CallRecords]
  BY DEF DashShape
<1>2. CASE shown = {}
  <2>1. call' = [call EXCEPT ![c] = Idle]
    BY <1>2 DEF Answer
  <2> QED BY <1>2, <2>1, IdleIsCall DEF Becomes
<1>3. CASE shown # {}
  <2>1. PICK v : v = [call[c] EXCEPT !.pc = "answered", !.shown = shown]
    OBVIOUS
  <2>2. v \in CallRecords /\ v.pc = "answered" /\ v.shown = shown /\ v.scope = call[c].scope
    BY <1>1, <2>1 DEF CallRecords, Pcs
  <2>3. call' = [call EXCEPT ![c] = v]
    BY <1>1, <1>3, <2>1 DEF Answer
  <2> QED BY <2>2, <2>3 DEF Becomes
<1> QED BY <1>2, <1>3

-----------------------------------------------------------------------------
(* The budget of failed credentials *)

\* Attempts past the throttle, counted.
LEMMA AdmittedCounted ==
  ASSUME DashShape, NEW c \in Calls, NEW v, Becomes(c, v)
  PROVE  /\ Cardinality(Calls) \in Nat
         /\ Cardinality(Admitted) \in Nat /\ Cardinality(Admitted') \in Nat
         /\ Cardinality(Admitted') <= Cardinality(Calls)
         /\ v.pc # "admitted" => Cardinality(Admitted') <= Cardinality(Admitted)
         /\ v.pc # "admitted" /\ call[c].pc = "admitted"
              => Cardinality(Admitted') = Cardinality(Admitted) - 1
<1>1. IsFiniteSet(Admitted) /\ IsFiniteSet(Admitted') /\ Cardinality(Admitted') <= Cardinality(Calls)
  BY CallsFinite, FS_Subset DEF Admitted
<1>2. /\ Cardinality(Calls) \in Nat /\ Cardinality(Admitted) \in Nat
      /\ Cardinality(Admitted') \in Nat
  BY <1>1, CallsFinite, FS_CardinalityType
<1>3. v.pc # "admitted" => Admitted' = Admitted \ {c}
  BY BecomesCall DEF Admitted
<1>4. v.pc # "admitted" => Cardinality(Admitted') <= Cardinality(Admitted)
  BY <1>1, <1>3, FS_Subset
<1>5. ASSUME v.pc # "admitted", call[c].pc = "admitted"
      PROVE  Cardinality(Admitted') = Cardinality(Admitted) - 1
  <2>1. c \in Admitted
    BY <1>5 DEF Admitted
  <2>2. Cardinality(Admitted \ {c}) = Cardinality(Admitted) - 1
    BY <1>1, <2>1, FS_RemoveElement
  <2> QED BY <1>3, <1>5, <2>2
<1> QED BY <1>1, <1>2, <1>4, <1>5

\* A step that admits nobody and records nothing.
LEMMA GuessesKept ==
  ASSUME DashShape, GuessInv, NEW c \in Calls, NEW v, Becomes(c, v), v.pc # "admitted",
         now' = now, failures' = failures \/ failures' = Prune(failures)
  PROVE  GuessInv' /\ ThrottleShape'
<1>1. now \in Nat /\ failures \in Seq(Nat) /\ \A i \in 1 .. Len(failures) : failures[i] <= now
  BY DEF DashShape, ThrottleShape
<1>2. PICK m \in Nat : m = Cardinality(Admitted)
  BY AdmittedCounted
<1>3. PICK k \in Nat : k = Cardinality(Admitted') /\ k <= m
  BY <1>2, AdmittedCounted
<1>4. PICK p : p = Prune(failures)
  OBVIOUS
<1>5. p = KeptAt(failures, now)
  BY <1>4, PruneIsKept
<1>6. p \in Seq(Nat) /\ \A i \in 1 .. Len(p) : p[i] <= now
  BY <1>1, <1>5, KeptBounded
<1>7. ThrottleShape'
  BY <1>1, <1>4, <1>6 DEF ThrottleShape
<1>8. PICK q : q = KeptAt(failures', now)
  OBVIOUS
<1>9. Len(q) \in Nat /\ Len(p) \in Nat /\ Len(q) <= Len(p)
  <2>1. q = p \/ q = KeptAt(p, now)
    BY <1>4, <1>5, <1>8
  <2>2. KeptAt(p, now) \in Seq(Nat) /\ Len(KeptAt(p, now)) <= Len(p)
    BY <1>1, <1>6, KeptBounded
  <2> QED BY <1>6, <2>1, <2>2
<1>10. Prune(failures)' = q
  BY <1>8 DEF Prune, Popped, KeptAt, OldAt
<1>11. PICK b \in Int : b = MaxFailures + Cardinality(Calls) - 1
  BY AdmittedCounted, DashboardBounds
<1>12. Len(p) + m <= b
  BY <1>2, <1>4, <1>11 DEF GuessInv
<1>13. Len(q) + k <= b
  BY <1>3, <1>9, <1>12
<1> QED BY <1>3, <1>7, <1>10, <1>11, <1>13 DEF GuessInv

\* auth_throttle lets an attempt in while there is budget.
LEMMA GuessAdmitted ==
  ASSUME DashShape, GuessInv, NEW c \in Calls, NEW v, Becomes(c, v),
         now' = now, failures' = Prune(failures), ~is_limited
  PROVE  GuessInv' /\ ThrottleShape'
<1>1. now \in Nat /\ failures \in Seq(Nat) /\ \A i \in 1 .. Len(failures) : failures[i] <= now
  BY DEF DashShape, ThrottleShape
<1>2. PICK n \in Nat : n = Cardinality(Calls)
  BY AdmittedCounted
<1>3. PICK k \in Nat : k = Cardinality(Admitted') /\ k <= n
  BY <1>2, AdmittedCounted
<1>4. PICK p : p = Prune(failures)
  OBVIOUS
<1>5. p = KeptAt(failures, now)
  BY <1>4, PruneIsKept
<1>6. p \in Seq(Nat) /\ \A i \in 1 .. Len(p) : p[i] <= now
  BY <1>1, <1>5, KeptBounded
<1>7. ThrottleShape'
  BY <1>1, <1>4, <1>6 DEF ThrottleShape
<1>8. PICK q : q = KeptAt(failures', now)
  OBVIOUS
<1>9. Len(q) \in Nat /\ Len(p) \in Nat /\ Len(q) <= Len(p)
  <2>1. q = KeptAt(p, now)
    BY <1>4, <1>5, <1>8
  <2>2. KeptAt(p, now) \in Seq(Nat) /\ Len(KeptAt(p, now)) <= Len(p)
    BY <1>1, <1>6, KeptBounded
  <2> QED BY <1>6, <2>1, <2>2
<1>10. Prune(failures)' = q
  BY <1>8 DEF Prune, Popped, KeptAt, OldAt
<1>11. ~(Len(p) >= MaxFailures)
  BY <1>4 DEF is_limited
<1>12. Len(q) + k <= MaxFailures + n - 1
  BY <1>3, <1>9, <1>11, DashboardBounds
<1> QED BY <1>2, <1>3, <1>7, <1>10, <1>12 DEF GuessInv

\* A failure recorded takes the place of the attempt it ends.
LEMMA GuessRecorded ==
  ASSUME DashShape, GuessInv, NEW c \in Calls, NEW v, Becomes(c, v),
         call[c].pc = "admitted", v.pc # "admitted", now' = now, record_failure
  PROVE  GuessInv' /\ ThrottleShape'
<1>1. now \in Nat /\ failures \in Seq(Nat) /\ \A i \in 1 .. Len(failures) : failures[i] <= now
  BY DEF DashShape, ThrottleShape
<1>2. PICK m \in Nat : m = Cardinality(Admitted)
  BY AdmittedCounted
<1>3. PICK k \in Nat : k = Cardinality(Admitted') /\ k = m - 1
  BY <1>2, AdmittedCounted
<1>4. PICK p : p = Prune(failures)
  OBVIOUS
<1>5. p = KeptAt(failures, now)
  BY <1>4, PruneIsKept
<1>6. p \in Seq(Nat) /\ \A i \in 1 .. Len(p) : p[i] <= now
  BY <1>1, <1>5, KeptBounded
<1>7. failures' = Append(p, now)
  BY <1>4 DEF record_failure
<1>8. ThrottleShape'
  BY <1>1, <1>6, <1>7 DEF ThrottleShape
<1>9. PICK q : q = KeptAt(failures', now)
  OBVIOUS
<1>10. Len(q) \in Nat /\ Len(p) \in Nat /\ Len(q) <= Len(p) + 1
  BY <1>1, <1>5, <1>6, <1>7, <1>9, KeptRecorded, KeptBounded
<1>11. Prune(failures)' = q
  BY <1>9 DEF Prune, Popped, KeptAt, OldAt
<1>12. PICK b \in Int : b = MaxFailures + Cardinality(Calls) - 1
  BY AdmittedCounted, DashboardBounds
<1>13. Len(p) + m <= b
  BY <1>2, <1>4, <1>12 DEF GuessInv
<1>14. Len(q) + k <= b
  BY <1>3, <1>10, <1>13
<1> QED BY <1>3, <1>8, <1>11, <1>12, <1>14 DEF GuessInv

-----------------------------------------------------------------------------
(* Steps that leave sight, streams and records alone *)

\* A tunnel once registered keeps its owner, and the owner its identity.
OwnersStay ==
  \A t \in Tunnels :
    tunnel[t].st # "new" =>
      /\ tunnel'[t].st # "new" /\ tunnel'[t].owner = tunnel[t].owner
      /\ ident'[tunnel[t].owner] = ident[tunnel[t].owner]

LEMMA SightKept ==
  ASSUME DashShape, SightInv, NEW c \in Calls, NEW v, Becomes(c, v),
         OwnersStay, Sees(v), v.pc \in Bare => v.shown = {}
  PROVE  SightInv'
<1>1. ASSUME NEW w \in CallRecords, Sees(w)
      PROVE  \A t \in w.shown : w.scope = Admin \/ (tunnel'[t].st # "new" /\ can_see(w.scope, ident'[tunnel'[t].owner]))
  <2>1. w.shown \subseteq Tunnels
    BY DEF CallRecords
  <2> QED BY <1>1, <2>1 DEF Sees, OwnersStay
<1>2. ASSUME NEW d \in Calls
      PROVE  /\ \A t \in call'[d].shown :
                   call'[d].scope = Admin \/ (tunnel'[t].st # "new" /\ can_see(call'[d].scope, ident'[tunnel'[t].owner]))
             /\ call'[d].pc \in Bare => call'[d].shown = {}
  <2>1. CASE d = c
    <3>1. call'[d] = v
      BY <2>1, BecomesCall
    <3>2. v \in CallRecords
      BY DEF Becomes
    <3>3. \A t \in v.shown : v.scope = Admin \/ (tunnel'[t].st # "new" /\ can_see(v.scope, ident'[tunnel'[t].owner]))
      BY <1>1, <3>2
    <3> QED BY <3>1, <3>3
  <2>2. CASE d # c
    <3>1. call'[d] = call[d] /\ call[d] \in CallRecords
      BY <2>2, BecomesCall DEF DashShape
    <3>2. Sees(call[d]) /\ (call[d].pc \in Bare => call[d].shown = {})
      BY DEF SightInv
    <3>3. PICK w \in CallRecords : w = call[d]
      BY <3>1
    <3>4. \A t \in w.shown : w.scope = Admin \/ (tunnel'[t].st # "new" /\ can_see(w.scope, ident'[tunnel'[t].owner]))
      BY <1>1, <3>2, <3>3
    <3> QED BY <3>1, <3>2, <3>3, <3>4
  <2> QED BY <2>1, <2>2
<1> QED BY <1>2 DEF SightInv, Sees

LEMMA StreamKept ==
  ASSUME DashShape, LossIsAnnounced, NEW c \in Calls, NEW v, Becomes(c, v),
         stream' = stream, broadcasts' = broadcasts,
         v.pc = "streaming" => call[c].pc = "streaming"
  PROVE  LossIsAnnounced' /\ StreamShape'
<1>1. StreamShape'
  BY DEF DashShape, StreamShape
<1>2. \A d \in Calls : call'[d].pc = "streaming" => call[d].pc = "streaming"
  BY BecomesCall
<1> QED BY <1>1, <1>2 DEF LossIsAnnounced

LEMMA RecordKept ==
  ASSUME DashShape, RecordInv, NEW c \in Calls, NEW v, Becomes(c, v),
         call[c].pc # "auditing", v.pc # "auditing",
         UNCHANGED <<table, issued, removed, auditq, auditlog, dropped>>
  PROVE  RecordInv' /\ TableShape' /\ AuditShape'
<1>1. TableShape' /\ AuditShape'
  BY DEF DashShape, TableShape, AuditShape
<1>2. \A d \in Calls : (call'[d].pc = "auditing" <=> call[d].pc = "auditing") /\ (call[d].pc = "auditing" => call'[d] = call[d])
  BY BecomesCall
<1>3. \A e : InHand(e)' <=> InHand(e)
  BY <1>2 DEF InHand
<1>4. \A e : (InLog(e)' <=> InLog(e)) /\ (InQueue(e)' <=> InQueue(e)) /\ (Happened(e)' <=> Happened(e))
  BY DEF InLog, InQueue, Happened
<1>5. RecordedOnce'
  <2>1. /\ \A i, j \in 1 .. Len(auditlog') : auditlog'[i] = auditlog'[j] => i = j
        /\ \A i, j \in 1 .. Len(auditq') : auditq'[i] = auditq'[j] /\ auditq'[i] \in TokenEvents => i = j
    BY DEF RecordInv, RecordedOnce
  <2>2. \A d, b \in Calls :
          call'[d].pc = "auditing" /\ call'[b].pc = "auditing" /\ call'[d].change = call'[b].change => d = b
    BY <1>2 DEF RecordInv, RecordedOnce
  <2>3. \A e \in TokenEvents :
          ~(InLog(e)' /\ InQueue(e)') /\ ~(InLog(e)' /\ InHand(e)') /\ ~(InQueue(e)' /\ InHand(e)')
    BY <1>3, <1>4 DEF RecordInv, RecordedOnce
  <2> QED BY <2>1, <2>2, <2>3 DEF RecordedOnce
<1>6. \A d \in Calls : call'[d].pc = "auditing" => call'[d].change \in TokenEvents
  BY <1>2 DEF RecordInv
<1>7. \A e \in TokenEvents : InLog(e)' \/ InQueue(e)' \/ InHand(e)' => Happened(e)'
  BY <1>3, <1>4 DEF RecordInv
<1>8. ~dropped' => \A e \in TokenEvents : Happened(e)' => InLog(e)' \/ InQueue(e)' \/ InHand(e)'
  BY <1>3, <1>4 DEF RecordInv
<1> QED BY <1>1, <1>5, <1>6, <1>7, <1>8 DEF RecordInv

-----------------------------------------------------------------------------
(* The audit channel *)

\* try_send, as what it does to the queue.
LEMMA Sent ==
  ASSUME DashShape, RecordInv, NEW event \in AuditEvents, try_send(event),
         event \in TokenEvents => ~InQueue(event)
  PROVE  /\ AuditShape' /\ auditlog' = auditlog
         /\ \A i, j \in 1 .. Len(auditq') : auditq'[i] = auditq'[j] /\ auditq'[i] \in TokenEvents => i = j
         /\ \/ dropped' = dropped /\ \A e : InQueue(e)' <=> InQueue(e) \/ e = event
            \/ dropped' = TRUE /\ \A e : InQueue(e)' <=> InQueue(e)
<1>1. /\ auditq \in Seq(AuditEvents) /\ Len(auditq) <= AuditCapacity
      /\ auditlog \in Seq(TokenEvents) /\ dropped \in BOOLEAN
  BY DEF DashShape, AuditShape
<1>2. \A i, j \in 1 .. Len(auditq) : auditq[i] = auditq[j] /\ auditq[i] \in TokenEvents => i = j
  BY DEF RecordInv, RecordedOnce
<1>3. CASE Len(auditq) < AuditCapacity
  <2>1. auditq' = Append(auditq, event) /\ auditlog' = auditlog /\ dropped' = dropped
    BY <1>3 DEF try_send
  <2>2. /\ auditq' \in Seq(AuditEvents) /\ Len(auditq') = Len(auditq) + 1
        /\ \A i \in 1 .. Len(auditq) : auditq'[i] = auditq[i]
        /\ auditq'[Len(auditq) + 1] = event
    BY <1>1, <2>1
  <2>3. Len(auditq) \in Nat /\ Len(auditq') <= AuditCapacity
    BY <1>1, <1>3, <2>2, DashboardBounds
  <2>4. AuditShape'
    BY <1>1, <2>1, <2>2, <2>3 DEF AuditShape
  <2>5. \A e : InQueue(e)' <=> InQueue(e) \/ e = event
    <3>1. \A i \in 1 .. (Len(auditq) + 1) : i \in 1 .. Len(auditq) \/ i = Len(auditq) + 1
      BY <2>3
    <3>2. \A i \in 1 .. Len(auditq) : i \in 1 .. (Len(auditq) + 1)
      BY <2>3
    <3>3. Len(auditq) + 1 \in 1 .. (Len(auditq) + 1)
      BY <2>3
    <3> QED BY <2>2, <3>1, <3>2, <3>3 DEF InQueue
  <2>6. ASSUME NEW i \in 1 .. Len(auditq'), NEW j \in 1 .. Len(auditq'),
               auditq'[i] = auditq'[j], auditq'[i] \in TokenEvents
        PROVE  i = j
    <3>1. (i \in 1 .. Len(auditq) \/ i = Len(auditq) + 1) /\ (j \in 1 .. Len(auditq) \/ j = Len(auditq) + 1)
      BY <2>2, <2>3
    <3> QED BY <1>2, <2>2, <2>6, <3>1 DEF InQueue
  <2> QED BY <2>1, <2>4, <2>5, <2>6
<1>4. CASE ~(Len(auditq) < AuditCapacity)
  <2>1. auditq' = auditq /\ auditlog' = auditlog /\ dropped' = TRUE
    BY <1>4 DEF try_send
  <2>2. AuditShape'
    BY <1>1, <2>1 DEF AuditShape
  <2>3. \A e : InQueue(e)' <=> InQueue(e)
    BY <2>1 DEF InQueue
  <2> QED BY <1>2, <2>1, <2>2, <2>3
<1> QED BY <1>3, <1>4

\* A line that is about no token.
LEMMA AuthIsNoToken ==
  ASSUME NEW x \in Sessions \cup {NoUser}
  PROVE  <<"auth", x>> \in AuditEvents /\ <<"auth", x>> \notin TokenEvents
BY DEF AuditEvents, TokenEvents

LEMMA RecordSentAuth ==
  ASSUME DashShape, RecordInv, NEW c \in Calls, NEW v, Becomes(c, v),
         call[c].pc # "auditing", v.pc # "auditing",
         NEW x \in Sessions \cup {NoUser}, try_send(<<"auth", x>>),
         UNCHANGED <<table, issued, removed>>
  PROVE  RecordInv' /\ TableShape' /\ AuditShape'
<1>0. PICK event \in AuditEvents : event = <<"auth", x>> /\ event \notin TokenEvents
  BY AuthIsNoToken
<1>1. /\ AuditShape' /\ auditlog' = auditlog
      /\ \A i, j \in 1 .. Len(auditq') : auditq'[i] = auditq'[j] /\ auditq'[i] \in TokenEvents => i = j
      /\ \/ dropped' = dropped /\ \A e : InQueue(e)' <=> InQueue(e) \/ e = event
         \/ dropped' = TRUE /\ \A e : InQueue(e)' <=> InQueue(e)
  <2>1. try_send(event)
    BY <1>0
  <2> QED BY <1>0, <2>1, Sent
<1>2. \A d \in Calls : (call'[d].pc = "auditing" <=> call[d].pc = "auditing") /\ (call[d].pc = "auditing" => call'[d] = call[d])
  BY BecomesCall
<1>3. \A e : InHand(e)' <=> InHand(e)
  BY <1>2 DEF InHand
<1>4. \A e : (InLog(e)' <=> InLog(e)) /\ (Happened(e)' <=> Happened(e))
  BY <1>1 DEF InLog, Happened
<1>5. \A e \in TokenEvents : InQueue(e)' <=> InQueue(e)
  BY <1>0, <1>1
<1>6. RecordedOnce'
  <2>1. /\ \A i, j \in 1 .. Len(auditlog') : auditlog'[i] = auditlog'[j] => i = j
    BY <1>1 DEF RecordInv, RecordedOnce
  <2>2. \A d, b \in Calls :
          call'[d].pc = "auditing" /\ call'[b].pc = "auditing" /\ call'[d].change = call'[b].change => d = b
    BY <1>2 DEF RecordInv, RecordedOnce
  <2>3. \A e \in TokenEvents :
          ~(InLog(e)' /\ InQueue(e)') /\ ~(InLog(e)' /\ InHand(e)') /\ ~(InQueue(e)' /\ InHand(e)')
    BY <1>3, <1>4, <1>5 DEF RecordInv, RecordedOnce
  <2> QED BY <1>1, <2>1, <2>2, <2>3 DEF RecordedOnce
<1>7. \A d \in Calls : call'[d].pc = "auditing" => call'[d].change \in TokenEvents
  BY <1>2 DEF RecordInv
<1>8. \A e \in TokenEvents : InLog(e)' \/ InQueue(e)' \/ InHand(e)' => Happened(e)'
  BY <1>3, <1>4, <1>5 DEF RecordInv
<1>9. ~dropped' => \A e \in TokenEvents : Happened(e)' => InLog(e)' \/ InQueue(e)' \/ InHand(e)'
  <2>1. ~dropped' => ~dropped
    BY <1>1
  <2> QED BY <1>3, <1>4, <1>5, <2>1 DEF RecordInv
<1>10. TableShape'
  BY DEF DashShape, TableShape
<1> QED BY <1>1, <1>6, <1>7, <1>8, <1>9, <1>10 DEF RecordInv

\* The record goes from the request's hands to the queue.
LEMMA RecordSentToken ==
  ASSUME DashShape, RecordInv, NEW c \in Calls, NEW v, Becomes(c, v),
         call[c].pc = "auditing", v.pc # "auditing", try_send(call[c].change),
         UNCHANGED <<table, issued, removed>>
  PROVE  RecordInv' /\ TableShape' /\ AuditShape'
<1>1. call[c].change \in TokenEvents
  BY DEF RecordInv
<1>2. PICK event \in TokenEvents : event = call[c].change
  BY <1>1
<1>3. InHand(event)
  BY <1>2 DEF InHand
<1>4. ~InQueue(event) /\ ~InLog(event)
  BY <1>3 DEF RecordInv, RecordedOnce
<1>5. /\ AuditShape' /\ auditlog' = auditlog
      /\ \A i, j \in 1 .. Len(auditq') : auditq'[i] = auditq'[j] /\ auditq'[i] \in TokenEvents => i = j
      /\ \/ dropped' = dropped /\ \A e : InQueue(e)' <=> InQueue(e) \/ e = event
         \/ dropped' = TRUE /\ \A e : InQueue(e)' <=> InQueue(e)
  <2>1. try_send(event) /\ event \in AuditEvents
    BY <1>2 DEF AuditEvents
  <2> QED BY <1>4, <2>1, Sent
<1>6. \A d \in Calls :
        /\ call'[d].pc = "auditing" => d # c /\ call[d].pc = "auditing" /\ call'[d] = call[d]
        /\ call[d].pc = "auditing" /\ d # c => call'[d] = call[d]
  BY BecomesCall
<1>7. \A e : InHand(e)' <=> InHand(e) /\ e # event
  <2>1. \A d \in Calls : call[d].pc = "auditing" /\ call[d].change = event => d = c
    BY <1>2 DEF RecordInv, RecordedOnce
  <2>2. ASSUME NEW e, InHand(e)' PROVE InHand(e) /\ e # event
    BY <1>6, <2>1, <2>2 DEF InHand
  <2>3. ASSUME NEW e, InHand(e), e # event PROVE InHand(e)'
    BY <1>2, <1>6, <2>3 DEF InHand
  <2> QED BY <2>2, <2>3
<1>8. \A e : (InLog(e)' <=> InLog(e)) /\ (Happened(e)' <=> Happened(e))
  BY <1>5 DEF InLog, Happened
<1>9. RecordedOnce'
  <2>1. /\ \A i, j \in 1 .. Len(auditlog') : auditlog'[i] = auditlog'[j] => i = j
    BY <1>5 DEF RecordInv, RecordedOnce
  <2>2. \A d, b \in Calls :
          call'[d].pc = "auditing" /\ call'[b].pc = "auditing" /\ call'[d].change = call'[b].change => d = b
    BY <1>6 DEF RecordInv, RecordedOnce
  <2>3. \A e \in TokenEvents :
          ~(InLog(e)' /\ InQueue(e)') /\ ~(InLog(e)' /\ InHand(e)') /\ ~(InQueue(e)' /\ InHand(e)')
    BY <1>4, <1>5, <1>7, <1>8 DEF RecordInv, RecordedOnce
  <2> QED BY <1>5, <2>1, <2>2, <2>3 DEF RecordedOnce
<1>10. \A d \in Calls : call'[d].pc = "auditing" => call'[d].change \in TokenEvents
  BY <1>6 DEF RecordInv
<1>11. \A e \in TokenEvents : InLog(e)' \/ InQueue(e)' \/ InHand(e)' => Happened(e)'
  BY <1>3, <1>5, <1>7, <1>8 DEF RecordInv
<1>12. ~dropped' => \A e \in TokenEvents : Happened(e)' => InLog(e)' \/ InQueue(e)' \/ InHand(e)'
  BY <1>5, <1>7, <1>8 DEF RecordInv
<1>13. TableShape'
  BY DEF DashShape, TableShape
<1> QED BY <1>5, <1>9, <1>10, <1>11, <1>12, <1>13 DEF RecordInv

\* A change takes effect, and the request that made it holds its record.
LEMMA RecordTaken ==
  ASSUME DashShape, RecordInv, NEW c \in Calls, NEW v, Becomes(c, v),
         call[c].pc # "auditing", v.pc = "auditing",
         NEW event \in TokenEvents, v.change = event, ~Happened(event),
         \A e \in TokenEvents : Happened(e)' <=> Happened(e) \/ e = event,
         UNCHANGED <<auditq, auditlog, dropped>>
  PROVE  RecordInv' /\ AuditShape'
<1>1. AuditShape'
  BY DEF DashShape, AuditShape
<1>2. ~InLog(event) /\ ~InQueue(event) /\ ~InHand(event)
  BY DEF RecordInv
<1>3. /\ call'[c].pc = "auditing" /\ call'[c].change = event
      /\ \A d \in Calls : d # c => call'[d] = call[d]
  BY BecomesCall
<1>4. \A e : InHand(e)' <=> InHand(e) \/ e = event
  <2>1. ASSUME NEW e, InHand(e)' PROVE InHand(e) \/ e = event
    BY <1>3, <2>1 DEF InHand
  <2>2. ASSUME NEW e, InHand(e) PROVE InHand(e)'
    BY <1>3, <2>2 DEF InHand
  <2>3. InHand(event)'
    BY <1>3 DEF InHand
  <2> QED BY <2>1, <2>2, <2>3
<1>5. \A e : (InLog(e)' <=> InLog(e)) /\ (InQueue(e)' <=> InQueue(e))
  BY DEF InLog, InQueue
<1>6. RecordedOnce'
  <2>1. /\ \A i, j \in 1 .. Len(auditlog') : auditlog'[i] = auditlog'[j] => i = j
        /\ \A i, j \in 1 .. Len(auditq') : auditq'[i] = auditq'[j] /\ auditq'[i] \in TokenEvents => i = j
    BY DEF RecordInv, RecordedOnce
  <2>2. \A d, b \in Calls :
          call'[d].pc = "auditing" /\ call'[b].pc = "auditing" /\ call'[d].change = call'[b].change => d = b
    <3>1. \A d \in Calls : d # c /\ call'[d].pc = "auditing" => call'[d].change # event
      BY <1>2, <1>3 DEF InHand
    <3> QED BY <1>3, <3>1 DEF RecordInv, RecordedOnce
  <2>3. \A e \in TokenEvents :
          ~(InLog(e)' /\ InQueue(e)') /\ ~(InLog(e)' /\ InHand(e)') /\ ~(InQueue(e)' /\ InHand(e)')
    BY <1>2, <1>4, <1>5 DEF RecordInv, RecordedOnce
  <2> QED BY <2>1, <2>2, <2>3 DEF RecordedOnce
<1>7. \A d \in Calls : call'[d].pc = "auditing" => call'[d].change \in TokenEvents
  BY <1>3 DEF RecordInv
<1>8. \A e \in TokenEvents : InLog(e)' \/ InQueue(e)' \/ InHand(e)' => Happened(e)'
  BY <1>4, <1>5 DEF RecordInv
<1>9. ~dropped' => \A e \in TokenEvents : Happened(e)' => InLog(e)' \/ InQueue(e)' \/ InHand(e)'
  BY <1>4, <1>5 DEF RecordInv
<1> QED BY <1>1, <1>6, <1>7, <1>8, <1>9 DEF RecordInv

\* The writer moves a token line from the queue to the file, and drops others.
LEMMA RecordWritten ==
  ASSUME DashShape, RecordInv, AuditWrite
  PROVE  RecordInv' /\ AuditShape'
<1>1. /\ auditq \in Seq(AuditEvents) /\ Len(auditq) <= AuditCapacity
      /\ auditlog \in Seq(TokenEvents) /\ dropped \in BOOLEAN
  BY DEF DashShape, AuditShape
<1>2. PICK q : q = auditq /\ q \in Seq(AuditEvents) /\ q # <<>>
  BY <1>1 DEF AuditWrite
<1>3. PICK h \in AuditEvents : h = q[1]
  BY <1>2
<1>4. /\ auditq' = Tail(q) /\ auditlog' = (IF h[1] = "auth" THEN auditlog ELSE Append(auditlog, h))
      /\ dropped' = dropped /\ call' = call /\ issued' = issued /\ removed' = removed
  BY <1>2, <1>3 DEF AuditWrite, tableVars
<1>5. h[1] = "auth" <=> h \notin TokenEvents
  BY <1>3 DEF AuditEvents, TokenEvents
<1>6. PICK n \in Nat : n = Len(q) /\ n > 0
  BY <1>2
<1>7. /\ auditq' \in Seq(AuditEvents) /\ Len(auditq') = n - 1
      /\ \A i \in 1 .. (n - 1) : auditq'[i] = q[i + 1]
  BY <1>2, <1>4, <1>6
<1>8. \A i \in 1 .. (n - 1) : i + 1 \in 1 .. n
  BY <1>6
<1>9. \A i \in 1 .. n : i = 1 \/ (i - 1 \in 1 .. (n - 1) /\ (i - 1) + 1 = i)
  BY <1>6
<1>10. \A i, j \in 1 .. n : q[i] = q[j] /\ q[i] \in TokenEvents => i = j
  BY <1>2, <1>6 DEF RecordInv, RecordedOnce
<1>11. \A e \in TokenEvents : InQueue(e) <=> InQueue(e)' \/ e = h
  <2>1. ASSUME NEW e, InQueue(e) PROVE InQueue(e)' \/ e = h
    <3>1. PICK i \in 1 .. n : q[i] = e
      BY <1>2, <1>6, <2>1 DEF InQueue
    <3>2. CASE i = 1
      BY <1>3, <3>1, <3>2
    <3>3. CASE i # 1
      <4>1. i - 1 \in 1 .. (n - 1) /\ (i - 1) + 1 = i
        BY <1>9, <3>3
      <4>2. auditq'[i - 1] = e
        BY <1>7, <3>1, <4>1
      <4> QED BY <1>7, <4>1, <4>2 DEF InQueue
    <3> QED BY <3>2, <3>3
  <2>2. ASSUME NEW e, InQueue(e)' PROVE InQueue(e)
    BY <1>2, <1>6, <1>7, <1>8, <2>2 DEF InQueue
  <2>3. InQueue(h)
    BY <1>2, <1>3, <1>6 DEF InQueue
  <2> QED BY <2>1, <2>2, <2>3
<1>12. h \in TokenEvents => ~InQueue(h)'
  <2>1. ASSUME h \in TokenEvents, NEW i \in 1 .. (n - 1), auditq'[i] = h PROVE FALSE
    <3>1. q[i + 1] = h /\ i + 1 \in 1 .. n /\ 1 \in 1 .. n /\ i + 1 # 1
      BY <1>6, <1>7, <1>8, <2>1
    <3> QED BY <1>3, <1>10, <2>1, <3>1
  <2> QED BY <1>7, <2>1 DEF InQueue
<1>13. \A i, j \in 1 .. Len(auditq') : auditq'[i] = auditq'[j] /\ auditq'[i] \in TokenEvents => i = j
  <2>1. ASSUME NEW i \in 1 .. (n - 1), NEW j \in 1 .. (n - 1), auditq'[i] = auditq'[j], auditq'[i] \in TokenEvents
        PROVE  i = j
    <3>1. i + 1 = j + 1
      BY <1>7, <1>8, <1>10, <2>1
    <3> QED BY <3>1
  <2> QED BY <1>7, <2>1
<1>14. \A e : (InHand(e)' <=> InHand(e)) /\ (Happened(e)' <=> Happened(e))
  BY <1>4 DEF InHand, Happened
<1>15. AuditShape' /\ (\A e \in TokenEvents : InLog(e)' <=> InLog(e) \/ (e = h /\ h \in TokenEvents))
       /\ (\A i, j \in 1 .. Len(auditlog') : auditlog'[i] = auditlog'[j] => i = j)
  <2>1. Len(auditq') <= AuditCapacity
    BY <1>1, <1>2, <1>6, <1>7, DashboardBounds
  <2>2. \A i, j \in 1 .. Len(auditlog) : auditlog[i] = auditlog[j] => i = j
    BY DEF RecordInv, RecordedOnce
  <2>3. CASE h \notin TokenEvents
    <3>1. auditlog' = auditlog
      BY <1>4, <1>5, <2>3
    <3>2. AuditShape'
      BY <1>1, <1>4, <1>7, <2>1, <3>1 DEF AuditShape
    <3> QED BY <2>2, <2>3, <3>1, <3>2 DEF InLog
  <2>4. CASE h \in TokenEvents
    <3>1. auditlog' = Append(auditlog, h)
      BY <1>4, <1>5, <2>4
    <3>2. PICK m \in Nat : m = Len(auditlog)
      BY <1>1
    <3>3. /\ auditlog' \in Seq(TokenEvents) /\ Len(auditlog') = m + 1
          /\ \A i \in 1 .. m : auditlog'[i] = auditlog[i]
          /\ auditlog'[m + 1] = h
      BY <1>1, <2>4, <3>1, <3>2
    <3>4. AuditShape'
      BY <1>1, <1>4, <1>7, <2>1, <3>3 DEF AuditShape
    <3>5. /\ \A i \in 1 .. (m + 1) : i \in 1 .. m \/ i = m + 1
          /\ \A i \in 1 .. m : i \in 1 .. (m + 1)
          /\ m + 1 \in 1 .. (m + 1)
      BY <3>2
    <3>6. \A e : InLog(e)' <=> InLog(e) \/ e = h
      BY <3>2, <3>3, <3>5 DEF InLog
    <3>7. ~InLog(h)
      BY <1>11, <2>4 DEF RecordInv, RecordedOnce
    <3>8. \A i, j \in 1 .. (m + 1) : auditlog'[i] = auditlog'[j] => i = j
      BY <2>2, <3>2, <3>3, <3>5, <3>7 DEF InLog
    <3> QED BY <2>4, <3>3, <3>4, <3>6, <3>8
  <2> QED BY <2>3, <2>4
<1>16. RecordedOnce'
  <2>1. \A d, b \in Calls :
          call'[d].pc = "auditing" /\ call'[b].pc = "auditing" /\ call'[d].change = call'[b].change => d = b
    BY <1>4 DEF RecordInv, RecordedOnce
  <2>2. \A e \in TokenEvents :
          ~(InLog(e)' /\ InQueue(e)') /\ ~(InLog(e)' /\ InHand(e)') /\ ~(InQueue(e)' /\ InHand(e)')
    BY <1>11, <1>12, <1>14, <1>15 DEF RecordInv, RecordedOnce
  <2> QED BY <1>13, <1>15, <2>1, <2>2 DEF RecordedOnce
<1>17. \A d \in Calls : call'[d].pc = "auditing" => call'[d].change \in TokenEvents
  BY <1>4 DEF RecordInv
<1>18. \A e \in TokenEvents : InLog(e)' \/ InQueue(e)' \/ InHand(e)' => Happened(e)'
  BY <1>11, <1>14, <1>15 DEF RecordInv
<1>19. ~dropped' => \A e \in TokenEvents : Happened(e)' => InLog(e)' \/ InQueue(e)' \/ InHand(e)'
  BY <1>4, <1>11, <1>14, <1>15 DEF RecordInv
<1> QED BY <1>15, <1>16, <1>17, <1>18, <1>19 DEF RecordInv

-----------------------------------------------------------------------------
(* Scopes *)

Shows(scope, ts) ==
  \A t \in ts : scope = Admin \/ (tunnel[t].st # "new" /\ can_see(scope, ident[tunnel[t].owner]))

\* The views show what the scope may see, whichever table they walk.
LEMMA VisibleIsOwn ==
  ASSUME NEW scope, NEW kinds \in SUBSET Everything
  PROVE  Visible(scope, kinds) \subseteq Tunnels /\ Shows(scope, Visible(scope, kinds))
<1>1. ASSUME NEW t \in Visible(scope, kinds)
      PROVE  /\ t \in Tunnels
             /\ scope = Admin \/ (tunnel[t].st # "new" /\ can_see(scope, ident[tunnel[t].owner]))
  <2>1. t \in Tunnels /\ tunnel[t].st = "live" /\ tunnel[t].kind \in kinds
    BY <1>1 DEF Visible, Live
  <2>2. t \in Live(Everything)
    BY <2>1 DEF Live
  <2>3. tunnel[t].owner \in find_tunnel_owning_session(t)
    BY <2>2 DEF find_tunnel_owning_session
  <2>4. scope_sees_session(scope, tunnel[t].owner)
    BY <1>1, <2>3 DEF Visible
  <2> QED BY <2>1, <2>4 DEF scope_sees_session
<1> QED BY <1>1 DEF Shows

\* A step of a request that touches nothing but its own record.
LEMMA PlainStep ==
  ASSUME DashInv, NEW c \in Calls, NEW v, Becomes(c, v), Unchanged,
         call[c].pc # "auditing", v.pc \notin {"admitted", "auditing"},
         v.pc = "streaming" => call[c].pc = "streaming",
         Sees(v), v.pc \in Bare => v.shown = {}
  PROVE  DashInv'
<1>1. /\ UNCHANGED <<failures, now>> /\ UNCHANGED <<table, issued, removed, auditq, auditlog, dropped>>
      /\ UNCHANGED <<sessions, ident, tunnel>> /\ UNCHANGED <<stream, broadcasts>>
  BY DEF Unchanged, throttleVars, tableVars, coreVars, auditVars
<1>2. DashShape /\ GuessInv /\ SightInv /\ LossIsAnnounced /\ RecordInv
  BY DEF DashInv
<1>3. GuessInv' /\ ThrottleShape'
  BY <1>1, <1>2, GuessesKept
<1>4. OwnersStay
  BY <1>1 DEF OwnersStay
<1>5. SightInv'
  BY <1>1, <1>2, <1>4, SightKept
<1>6. LossIsAnnounced' /\ StreamShape'
  BY <1>1, <1>2, StreamKept
<1>7. RecordInv' /\ TableShape' /\ AuditShape'
  BY <1>1, <1>2, RecordKept
<1>8. CoreShape'
  BY <1>1, <1>2 DEF DashShape, CoreShape
<1>9. call' \in [Calls -> CallRecords]
  BY <1>2, BecomesCall
<1> QED BY <1>3, <1>5, <1>6, <1>7, <1>8, <1>9 DEF DashInv, DashShape

\* A handler's answer, from what its scope may see.
LEMMA PlainAnswer ==
  ASSUME DashInv, NEW c \in Calls, NEW ts \in SUBSET Tunnels, Answer(c, ts), Unchanged,
         call[c].pc # "auditing", Shows(call[c].scope, ts)
  PROVE  DashInv'
<1>1. DashShape
  BY DEF DashInv
<1>2. PICK v : /\ Becomes(c, v) /\ v.pc \in {"idle", "answered"} /\ v.shown = ts
               /\ v.pc = "idle" => ts = {}
               /\ v.scope = call[c].scope \/ ts = {}
  BY <1>1, Answers
<1>3. Sees(v)
  BY <1>2 DEF Sees, Shows
<1>4. v.pc \in Bare => v.shown = {}
  BY <1>2 DEF Bare
<1> QED BY <1>2, <1>3, <1>4, PlainStep

-----------------------------------------------------------------------------
(* The requests that only look *)

LEMMA SightOf ==
  ASSUME DashInv, NEW c \in Calls
  PROVE  /\ call[c] \in CallRecords /\ Sees(call[c])
         /\ call[c].pc \in Bare => call[c].shown = {}
         /\ call[c].shown \subseteq Tunnels
BY DEF DashInv, DashShape, SightInv, CallRecords

LEMMA RequireAuthStep ==
  ASSUME DashInv, NEW c \in Calls, require_auth(c)
  PROVE  DashInv'
<1>1. call[c] \in CallRecords /\ call[c].shown = {} /\ call \in [Calls -> CallRecords]
  BY SightOf DEF require_auth, Bare, DashInv, DashShape
<1>2. PICK scope \in {Admin} \cup {ScopeOf(k) : k \in table} :
        call' = [call EXCEPT ![c].pc = "scoped", ![c].scope = scope]
  BY DEF require_auth
<1>3. scope \in Scopes
  BY DEF Scopes, DashInv, DashShape, TableShape
<1>4. PICK v : v = [call[c] EXCEPT !.pc = "scoped", !.scope = scope]
  OBVIOUS
<1>5. v \in CallRecords /\ v.pc = "scoped" /\ v.shown = {}
  BY <1>1, <1>3, <1>4 DEF CallRecords, Pcs
<1>6. Becomes(c, v)
  BY <1>1, <1>2, <1>4, <1>5 DEF Becomes
<1>7. Sees(v)
  BY <1>5 DEF Sees
<1> QED BY <1>5, <1>6, <1>7, PlainStep DEF require_auth, Unchanged

LEMMA ReturnStep ==
  ASSUME DashInv, NEW c \in Calls, Return(c)
  PROVE  DashInv'
<1>1. Becomes(c, Idle)
  BY IdleIsCall DEF Becomes, Return
<1>2. Sees(Idle)
  BY IdleIsCall DEF Sees
<1> QED BY <1>1, <1>2, IdleIsCall, PlainStep DEF Return, Unchanged

LEMMA ListStep ==
  ASSUME DashInv, NEW c \in Calls, list_tunnels(c) \/ list_groups(c)
  PROVE  DashInv'
<1>1. PICK kinds \in SUBSET Everything : Answer(c, Visible(call[c].scope, kinds))
  BY DEF list_tunnels, list_groups, group_to_summary, Everything, Grouped
<1>2. call[c].pc # "auditing" /\ Unchanged
  BY DEF list_tunnels, list_groups, Handler
<1> QED BY <1>1, <1>2, VisibleIsOwn, PlainAnswer

LEMMA ShowTunnelStep ==
  ASSUME DashInv, NEW c \in Calls, NEW t \in Tunnels, ShowTunnel(c, t)
  PROVE  DashInv'
<1>1. PICK kinds \in SUBSET Everything : Answer(c, {t} \cap Visible(call[c].scope, kinds))
  BY DEF ShowTunnel, get_tunnel, tunnel_udp_sessions, tunnel_p2p_peers, Everything
<1>2. call[c].pc # "auditing" /\ Unchanged
  BY DEF ShowTunnel, Handler
<1>3. PICK ts : ts = {t} \cap Visible(call[c].scope, kinds)
  OBVIOUS
<1>4. ts \in SUBSET Tunnels /\ Shows(call[c].scope, ts)
  BY <1>3, VisibleIsOwn DEF Shows
<1> QED BY <1>1, <1>2, <1>3, <1>4, PlainAnswer

\* The first half of a two-step view: the owner is checked, the tunnel kept.
LEMMA LookStep ==
  ASSUME DashInv, NEW c \in Calls, NEW t \in Tunnels, NEW pc \in {"reading", "timeline"},
         call[c].pc = "scoped", Unchanged, Shows(call[c].scope, {t}),
         call' = [call EXCEPT ![c].pc = pc, ![c].shown = {t}]
  PROVE  DashInv'
<1>1. call[c] \in CallRecords /\ call \in [Calls -> CallRecords]
  BY DEF DashInv, DashShape
<1>2. PICK v : v = [call[c] EXCEPT !.pc = pc, !.shown = {t}]
  OBVIOUS
<1>3. v \in CallRecords /\ v.pc = pc /\ v.shown = {t} /\ v.scope = call[c].scope
  BY <1>1, <1>2 DEF CallRecords, Pcs
<1>4. Becomes(c, v)
  BY <1>1, <1>2, <1>3 DEF Becomes
<1>5. Sees(v)
  BY <1>3 DEF Sees, Shows
<1>6. v.pc \notin Bare
  BY <1>3 DEF Bare
<1> QED BY <1>3, <1>4, <1>5, <1>6, PlainStep

LEMMA CheckStep ==
  ASSUME DashInv, NEW c \in Calls, NEW t \in Tunnels,
         CheckCapture(c, t) \/ CheckHealthEvents(c, t)
  PROVE  DashInv'
<1>1. call[c].pc = "scoped" /\ Unchanged
  BY DEF CheckCapture, CheckHealthEvents, Handler
<1>2. Everything \in SUBSET Everything
  OBVIOUS
<1>3. t \in Visible(call[c].scope, Everything) => Shows(call[c].scope, {t})
  BY <1>2, VisibleIsOwn DEF Shows
<1>4. CaptureVisible(call[c].scope, t) => Shows(call[c].scope, {t})
  BY <1>3 DEF CaptureVisible, Shows
<1>5. CASE Answer(c, {})
  BY <1>1, <1>5, PlainAnswer DEF Shows
<1>6. CASE ~Answer(c, {})
  <2>1. PICK pc \in {"reading", "timeline"} :
          call' = [call EXCEPT ![c].pc = pc, ![c].shown = {t}] /\ Shows(call[c].scope, {t})
    BY <1>3, <1>4, <1>6 DEF CheckCapture, CheckHealthEvents
  <2> QED BY <1>1, <2>1, LookStep
<1> QED BY <1>5, <1>6

LEMMA ReadStep ==
  ASSUME DashInv, NEW c \in Calls, ReadCapture(c) \/ find_member_health_events(c)
  PROVE  DashInv'
<1>1. DashShape /\ Sees(call[c]) /\ call[c].shown \subseteq Tunnels
  BY SightOf DEF DashInv
<1>2. CASE ReadCapture(c)
  <2>1. PICK v : /\ Becomes(c, v) /\ v.pc = "answered" /\ v.shown = call[c].shown
                 /\ v.scope = call[c].scope
    BY <1>1, <1>2, Moves DEF ReadCapture, Pcs
  <2>2. Sees(v)
    BY <1>1, <2>1 DEF Sees
  <2>3. v.pc \notin Bare
    BY <2>1 DEF Bare
  <2> QED BY <1>2, <2>1, <2>2, <2>3, PlainStep DEF ReadCapture
<1>3. CASE find_member_health_events(c)
  <2>1. PICK ts : ts = call[c].shown \cap Live({"http", "tcp", "udp"})
    OBVIOUS
  <2>2. ts \in SUBSET Tunnels /\ Shows(call[c].scope, ts)
    BY <1>1, <2>1 DEF Shows, Sees
  <2> QED BY <1>3, <2>1, <2>2, PlainAnswer DEF find_member_health_events
<1> QED BY <1>2, <1>3

-----------------------------------------------------------------------------
(* The throttle and the control handshake *)

\* A request that ends with nothing to show, or is let in with nothing yet.
LEMMA BareSees == \A v : v.shown = {} => Sees(v) /\ (v.pc \in Bare => v.shown = {})
BY DEF Sees

LEMMA ThrottleStep ==
  ASSUME DashInv, NEW c \in Calls, auth_throttle(c)
  PROVE  DashInv'
<1>1. /\ UNCHANGED now /\ UNCHANGED <<table, issued, removed, auditq, auditlog, dropped>>
      /\ UNCHANGED <<sessions, ident, tunnel>> /\ UNCHANGED <<stream, broadcasts>>
      /\ failures' = Prune(failures) /\ call[c].pc = "idle"
  BY DEF auth_throttle, tableVars, coreVars, auditVars
<1>2. DashShape /\ GuessInv /\ SightInv /\ LossIsAnnounced /\ RecordInv
  BY DEF DashInv
<1>3. call[c].shown = {}
  BY <1>1, SightOf DEF Bare
<1>4. PICK v : /\ Becomes(c, v) /\ v.shown = {}
               /\ (is_limited /\ v.pc \in {"idle", "answered"}) \/ (~is_limited /\ v.pc = "admitted")
  <2>1. CASE is_limited
    BY <1>2, <2>1, Answers DEF auth_throttle
  <2>2. CASE ~is_limited
    <3>1. Move(c, "admitted") /\ "admitted" \in Pcs
      BY <2>2 DEF auth_throttle, Pcs
    <3> QED BY <1>2, <1>3, <2>2, <3>1, Moves
  <2> QED BY <2>1, <2>2
<1>5. GuessInv' /\ ThrottleShape'
  <2>1. CASE is_limited
    BY <1>1, <1>2, <1>4, <2>1, GuessesKept
  <2>2. CASE ~is_limited
    BY <1>1, <1>2, <1>4, <2>2, GuessAdmitted
  <2> QED BY <2>1, <2>2
<1>6. OwnersStay
  BY <1>1 DEF OwnersStay
<1>7. SightInv'
  BY <1>2, <1>4, <1>6, BareSees, SightKept
<1>8. LossIsAnnounced' /\ StreamShape'
  BY <1>1, <1>2, <1>4, StreamKept
<1>9. RecordInv' /\ TableShape' /\ AuditShape'
  BY <1>1, <1>2, <1>4, RecordKept
<1>10. CoreShape'
  BY <1>1, <1>2 DEF DashShape, CoreShape
<1>11. call' \in [Calls -> CallRecords]
  BY <1>2, <1>4, BecomesCall
<1> QED BY <1>5, <1>7, <1>8, <1>9, <1>10, <1>11 DEF DashInv, DashShape

LEMMA UnauthorizedStep ==
  ASSUME DashInv, NEW c \in Calls, unauthorized(c)
  PROVE  DashInv'
<1>1. /\ UNCHANGED now /\ UNCHANGED <<table, issued, removed, auditq, auditlog, dropped>>
      /\ UNCHANGED <<sessions, ident, tunnel>> /\ UNCHANGED <<stream, broadcasts>>
      /\ record_failure /\ call[c].pc = "admitted"
  BY DEF unauthorized, tableVars, coreVars, auditVars
<1>2. DashShape /\ GuessInv /\ SightInv /\ LossIsAnnounced /\ RecordInv
  BY DEF DashInv
<1>3. PICK v : Becomes(c, v) /\ v.shown = {} /\ v.pc \in {"idle", "answered"}
  BY <1>2, Answers DEF unauthorized
<1>4. GuessInv' /\ ThrottleShape'
  BY <1>1, <1>2, <1>3, GuessRecorded
<1>5. OwnersStay
  BY <1>1 DEF OwnersStay
<1>6. SightInv'
  BY <1>2, <1>3, <1>5, BareSees, SightKept
<1>7. LossIsAnnounced' /\ StreamShape'
  BY <1>1, <1>2, <1>3, StreamKept
<1>8. RecordInv' /\ TableShape' /\ AuditShape'
  BY <1>1, <1>2, <1>3, RecordKept
<1>9. CoreShape'
  BY <1>1, <1>2 DEF DashShape, CoreShape
<1>10. call' \in [Calls -> CallRecords]
  BY <1>2, <1>3, BecomesCall
<1> QED BY <1>4, <1>6, <1>7, <1>8, <1>9, <1>10 DEF DashInv, DashShape

LEMMA RejectStep ==
  ASSUME DashInv, NEW c \in Calls, reject_session(c)
  PROVE  DashInv'
<1>1. /\ UNCHANGED now /\ UNCHANGED <<table, issued, removed>>
      /\ UNCHANGED <<sessions, ident, tunnel>> /\ UNCHANGED <<stream, broadcasts>>
      /\ record_failure /\ call[c].pc = "admitted" /\ try_send(<<"auth", NoUser>>)
  BY DEF reject_session, tableVars, coreVars
<1>2. DashShape /\ GuessInv /\ SightInv /\ LossIsAnnounced /\ RecordInv
  BY DEF DashInv
<1>3. call[c].shown = {}
  BY <1>1, SightOf DEF Bare
<1>4. PICK v : Becomes(c, v) /\ v.shown = {} /\ v.pc = "idle"
  BY <1>2, <1>3, Moves DEF reject_session, Pcs
<1>5. GuessInv' /\ ThrottleShape'
  BY <1>1, <1>2, <1>4, GuessRecorded
<1>6. OwnersStay
  BY <1>1 DEF OwnersStay
<1>7. SightInv'
  BY <1>2, <1>4, <1>6, BareSees, SightKept
<1>8. LossIsAnnounced' /\ StreamShape'
  BY <1>1, <1>2, <1>4, StreamKept
<1>9. NoUser \in Sessions \cup {NoUser} /\ call[c].pc # "auditing" /\ v.pc # "auditing"
  BY <1>1, <1>4
<1>10. RecordInv' /\ TableShape' /\ AuditShape'
  BY <1>1, <1>2, <1>4, <1>9, RecordSentAuth
<1>11. CoreShape'
  BY <1>1, <1>2 DEF DashShape, CoreShape
<1>12. call' \in [Calls -> CallRecords]
  BY <1>2, <1>4, BecomesCall
<1> QED BY <1>5, <1>7, <1>8, <1>10, <1>11, <1>12 DEF DashInv, DashShape

\* The session id is new to the tunnels, so no owner's identity changes.
LEMMA RegisterStep ==
  ASSUME DashInv, NEW c \in Calls, NEW s \in Sessions, register_session(c, s)
  PROVE  DashInv'
<1>1. /\ UNCHANGED <<failures, now>> /\ UNCHANGED <<table, issued, removed>>
      /\ UNCHANGED tunnel /\ UNCHANGED <<stream, broadcasts>>
      /\ call[c].pc = "admitted" /\ try_send(<<"auth", s>>)
      /\ sessions' = sessions \cup {s} /\ \A t \in Tunnels : tunnel[t].owner # s
  BY DEF register_session, tableVars, throttleVars
<1>2. DashShape /\ GuessInv /\ SightInv /\ LossIsAnnounced /\ RecordInv
  BY DEF DashInv
<1>3. call[c].shown = {}
  BY <1>1, SightOf DEF Bare
<1>4. PICK v : Becomes(c, v) /\ v.shown = {} /\ v.pc = "idle"
  BY <1>2, <1>3, Moves DEF register_session, Pcs
<1>5. GuessInv' /\ ThrottleShape'
  BY <1>1, <1>2, <1>4, GuessesKept
<1>6. PICK id \in {Nobody} \cup {[token |-> k, user |-> UserOf[k]] : k \in table} :
        ident' = [ident EXCEPT ![s] = id]
  BY DEF register_session
<1>7. id \in Identities
  <2>1. table \subseteq Tokens
    BY <1>2 DEF DashShape, TableShape
  <2> QED BY <2>1 DEF Identities, Nobody
<1>8. CoreShape'
  BY <1>1, <1>2, <1>6, <1>7 DEF DashShape, CoreShape
<1>9. OwnersStay
  <2>1. /\ ident \in [Sessions -> Identities]
        /\ \A t \in Tunnels : tunnel[t].st # "new" => tunnel[t].owner \in Sessions
    BY <1>2 DEF DashShape, CoreShape
  <2>2. \A x \in Sessions : x # s => ident'[x] = ident[x]
    BY <1>6, <2>1
  <2> QED BY <1>1, <2>1, <2>2 DEF OwnersStay
<1>10. SightInv'
  BY <1>2, <1>4, <1>9, BareSees, SightKept
<1>11. LossIsAnnounced' /\ StreamShape'
  BY <1>1, <1>2, <1>4, StreamKept
<1>12. s \in Sessions \cup {NoUser} /\ call[c].pc # "auditing" /\ v.pc # "auditing"
  BY <1>1, <1>4
<1>13. RecordInv' /\ TableShape' /\ AuditShape'
  BY <1>1, <1>2, <1>4, <1>12, RecordSentAuth
<1>14. call' \in [Calls -> CallRecords]
  BY <1>2, <1>4, BecomesCall
<1> QED BY <1>5, <1>8, <1>10, <1>11, <1>13, <1>14 DEF DashInv, DashShape

-----------------------------------------------------------------------------
(* Tunnels that come and go *)

\* A step on the tunnels that keeps every owner.
LEMMA WithoutKeeps ==
  ASSUME DashShape, NEW t \in Tunnels, tunnel' = Without(t), UNCHANGED <<sessions, ident>>
  PROVE  CoreShape' /\ OwnersStay
<1>1. /\ tunnel \in [Tunnels -> TunnelRecords] /\ sessions \subseteq Sessions
      /\ ident \in [Sessions -> Identities]
      /\ \A u \in Tunnels : tunnel[u].st # "new" => tunnel[u].owner \in Sessions
  BY DEF DashShape, CoreShape
<1>2. PICK w : w = [tunnel[t] EXCEPT !.st = IF @ = "live" THEN "gone" ELSE @]
  OBVIOUS
<1>3. tunnel[t] \in TunnelRecords
  BY <1>1
<1>4. /\ w \in TunnelRecords /\ w.owner = tunnel[t].owner
      /\ (w.st = "new") = (tunnel[t].st = "new")
  BY <1>2, <1>3 DEF TunnelRecords
<1>5. tunnel' = [tunnel EXCEPT ![t] = w]
  BY <1>1, <1>2 DEF Without
<1>6. tunnel' \in [Tunnels -> TunnelRecords] /\ tunnel'[t] = w /\ \A u \in Tunnels : u # t => tunnel'[u] = tunnel[u]
  BY <1>1, <1>4, <1>5
<1>7. OwnersStay
  BY <1>4, <1>6 DEF OwnersStay
<1> QED BY <1>1, <1>4, <1>6, <1>7 DEF CoreShape

LEMMA ForceCloseStep ==
  ASSUME DashInv, NEW c \in Calls, NEW t \in Tunnels, force_close_tunnel(c, t)
  PROVE  DashInv'
<1>1. /\ UNCHANGED <<failures, now>> /\ UNCHANGED <<table, issued, removed, auditq, auditlog, dropped>>
      /\ UNCHANGED <<sessions, ident>> /\ UNCHANGED <<stream, broadcasts>>
      /\ call[c].pc = "scoped"
  BY DEF force_close_tunnel, throttleVars, tableVars, auditVars, Handler
<1>2. DashShape /\ GuessInv /\ SightInv /\ LossIsAnnounced /\ RecordInv
  BY DEF DashInv
<1>3. Everything \in SUBSET Everything
  OBVIOUS
<1>4. t \in Visible(call[c].scope, Everything) => Shows(call[c].scope, {t})
  BY <1>3, VisibleIsOwn DEF Shows
<1>5. PICK ts \in SUBSET Tunnels :
        /\ Answer(c, ts) /\ Shows(call[c].scope, ts)
        /\ tunnel' = Without(t) \/ tunnel' = tunnel
  <2>1. CASE call[c].scope = Admin \/ t \in Visible(call[c].scope, Everything)
    <3>1. Answer(c, {t}) /\ tunnel' = Without(t)
      BY <2>1 DEF force_close_tunnel
    <3>2. Shows(call[c].scope, {t})
      BY <1>4, <2>1 DEF Shows
    <3> QED BY <3>1, <3>2
  <2>2. CASE ~(call[c].scope = Admin \/ t \in Visible(call[c].scope, Everything))
    <3>1. Answer(c, {}) /\ tunnel' = tunnel
      BY <2>2 DEF force_close_tunnel
    <3> QED BY <3>1 DEF Shows
  <2> QED BY <2>1, <2>2
<1>6. CoreShape' /\ OwnersStay
  <2>1. CASE tunnel' = Without(t)
    BY <1>1, <1>2, <2>1, WithoutKeeps
  <2>2. CASE tunnel' = tunnel
    BY <1>1, <1>2, <2>2 DEF DashShape, CoreShape, OwnersStay
  <2> QED BY <1>5, <2>1, <2>2
<1>7. PICK v : /\ Becomes(c, v) /\ v.pc \in {"idle", "answered"} /\ v.shown = ts
               /\ v.pc = "idle" => ts = {}
               /\ v.scope = call[c].scope \/ ts = {}
  BY <1>2, <1>5, Answers
<1>8. Sees(v)
  BY <1>5, <1>7 DEF Sees, Shows
<1>9. v.pc \in Bare => v.shown = {}
  BY <1>7 DEF Bare
<1>10. SightInv'
  BY <1>2, <1>6, <1>7, <1>8, <1>9, SightKept
<1>11. GuessInv' /\ ThrottleShape'
  BY <1>1, <1>2, <1>7, GuessesKept
<1>12. LossIsAnnounced' /\ StreamShape'
  BY <1>1, <1>2, <1>7, StreamKept
<1>13. RecordInv' /\ TableShape' /\ AuditShape'
  BY <1>1, <1>2, <1>7, RecordKept
<1>14. call' \in [Calls -> CallRecords]
  BY <1>2, <1>7, BecomesCall
<1> QED BY <1>6, <1>10, <1>11, <1>12, <1>13, <1>14 DEF DashInv, DashShape

-----------------------------------------------------------------------------
(* Steps that touch no request *)

LEMMA GuessStill ==
  ASSUME DashShape, GuessInv, UNCHANGED <<failures, now, call>>
  PROVE  GuessInv' /\ ThrottleShape'
<1>1. Prune(failures)' = Prune(failures) /\ Admitted' = Admitted
  BY DEF Prune, Popped, Admitted
<1> QED BY <1>1 DEF GuessInv, DashShape, ThrottleShape

LEMMA SightStill ==
  ASSUME DashShape, SightInv, OwnersStay, UNCHANGED call
  PROVE  SightInv'
<1>1. \A c \in Calls : call[c].shown \subseteq Tunnels
  BY DEF DashShape, CallRecords
<1> QED BY <1>1 DEF SightInv, Sees, OwnersStay

LEMMA RecordStill ==
  ASSUME DashShape, RecordInv, UNCHANGED <<call, table, issued, removed, auditq, auditlog, dropped>>
  PROVE  RecordInv' /\ TableShape' /\ AuditShape'
<1>1. TableShape' /\ AuditShape'
  BY DEF DashShape, TableShape, AuditShape
<1>2. \A e : /\ (InHand(e)' <=> InHand(e))
             /\ (InLog(e)' <=> InLog(e))
             /\ (InQueue(e)' <=> InQueue(e))
             /\ (Happened(e)' <=> Happened(e))
  BY DEF InHand, InLog, InQueue, Happened
<1>3. RecordedOnce'
  BY <1>2 DEF RecordInv, RecordedOnce
<1> QED BY <1>1, <1>2, <1>3 DEF RecordInv

LEMMA StreamStill ==
  ASSUME DashShape, LossIsAnnounced, UNCHANGED <<call, stream, broadcasts>>
  PROVE  LossIsAnnounced' /\ StreamShape'
BY DEF DashShape, StreamShape, LossIsAnnounced

\* A step of the sessions' tasks on their tunnels.
LEMMA CoreStep ==
  ASSUME DashInv, CoreShape', OwnersStay,
         UNCHANGED <<throttleVars, tableVars, call, stream, broadcasts, auditVars>>
  PROVE  DashInv'
<1>1. /\ UNCHANGED <<failures, now, call>>
      /\ UNCHANGED <<call, table, issued, removed, auditq, auditlog, dropped>>
      /\ UNCHANGED <<call, stream, broadcasts>>
  BY DEF throttleVars, tableVars, auditVars
<1>2. DashShape /\ GuessInv /\ SightInv /\ LossIsAnnounced /\ RecordInv
  BY DEF DashInv
<1>3. GuessInv' /\ ThrottleShape'
  BY <1>1, <1>2, GuessStill
<1>4. SightInv'
  BY <1>1, <1>2, SightStill
<1>5. RecordInv' /\ TableShape' /\ AuditShape'
  BY <1>1, <1>2, RecordStill
<1>6. LossIsAnnounced' /\ StreamShape'
  BY <1>1, <1>2, StreamStill
<1>7. call' \in [Calls -> CallRecords]
  BY <1>1, <1>2 DEF DashShape
<1> QED BY <1>3, <1>4, <1>5, <1>6, <1>7 DEF DashInv, DashShape

LEMMA TunnelStep ==
  ASSUME DashInv, NEW t \in Tunnels,
         InsertMember(t) \/ remove_tunnel(t) \/ \E s \in Sessions : CheckSession(t, s)
  PROVE  DashInv'
<1>1. UNCHANGED <<throttleVars, tableVars, call, stream, broadcasts, auditVars>> /\ UNCHANGED <<sessions, ident>>
  BY DEF InsertMember, remove_tunnel, CheckSession
<1>2. DashShape
  BY DEF DashInv
<1>3. /\ tunnel \in [Tunnels -> TunnelRecords] /\ sessions \subseteq Sessions
      /\ ident \in [Sessions -> Identities]
      /\ \A u \in Tunnels : tunnel[u].st # "new" => tunnel[u].owner \in Sessions
      /\ tunnel[t] \in TunnelRecords
  BY <1>2 DEF DashShape, CoreShape
<1>4. ASSUME NEW w \in TunnelRecords, tunnel' = [tunnel EXCEPT ![t] = w],
             w.st # "new", w.owner \in Sessions, tunnel[t].st # "new" => w.owner = tunnel[t].owner
      PROVE  CoreShape' /\ OwnersStay
  <2>1. /\ tunnel' \in [Tunnels -> TunnelRecords] /\ tunnel'[t] = w
        /\ \A u \in Tunnels : u # t => tunnel'[u] = tunnel[u]
    BY <1>3, <1>4
  <2>2. OwnersStay
    BY <1>1, <1>4, <2>1 DEF OwnersStay
  <2> QED BY <1>1, <1>3, <1>4, <2>1, <2>2 DEF CoreShape
<1>5. CASE InsertMember(t)
  <2>1. PICK w : w = [tunnel[t] EXCEPT !.st = "live"]
    OBVIOUS
  <2>2. w \in TunnelRecords /\ w.st = "live" /\ w.owner = tunnel[t].owner
    BY <1>3, <2>1 DEF TunnelRecords
  <2>3. tunnel' = [tunnel EXCEPT ![t] = w] /\ tunnel[t].st = "checked"
    BY <1>3, <1>5, <2>1 DEF InsertMember
  <2>4. w.owner \in Sessions /\ w.st # "new"
    BY <1>3, <2>2, <2>3
  <2>5. CoreShape' /\ OwnersStay
    BY <1>4, <2>2, <2>3, <2>4
  <2> QED BY <1>1, <2>5, CoreStep
<1>6. CASE remove_tunnel(t)
  <2>1. CoreShape' /\ OwnersStay
    BY <1>1, <1>2, <1>6, WithoutKeeps DEF remove_tunnel
  <2> QED BY <1>1, <2>1, CoreStep
<1>7. ASSUME NEW s \in Sessions, CheckSession(t, s)
      PROVE  DashInv'
  <2>1. PICK kind \in Kinds : tunnel' = [tunnel EXCEPT ![t] = [st |-> "checked", owner |-> s, kind |-> kind]]
    BY <1>7 DEF CheckSession
  <2>2. PICK w : w = [st |-> "checked", owner |-> s, kind |-> kind]
    OBVIOUS
  <2>3. w \in TunnelRecords /\ w.st = "checked" /\ w.owner = s
    BY <2>2 DEF TunnelRecords
  <2>4. tunnel[t].st = "new"
    BY <1>7 DEF CheckSession, Fresh
  <2>5. tunnel' = [tunnel EXCEPT ![t] = w] /\ w.st # "new" /\ w.owner \in Sessions
    BY <2>1, <2>2, <2>3
  <2>6. CoreShape' /\ OwnersStay
    BY <1>4, <2>3, <2>4, <2>5
  <2> QED BY <1>1, <2>6, CoreStep
<1> QED BY <1>5, <1>6, <1>7

LEMMA RemoveSessionStep ==
  ASSUME DashInv, NEW s \in Sessions, remove_session(s)
  PROVE  DashInv'
<1>1. /\ UNCHANGED <<throttleVars, tableVars, call, stream, broadcasts, auditVars>>
      /\ UNCHANGED <<ident, tunnel>> /\ sessions' = sessions \ {s}
  BY DEF remove_session
<1>2. CoreShape' /\ OwnersStay
  BY <1>1 DEF DashInv, DashShape, CoreShape, OwnersStay
<1> QED BY <1>1, <1>2, CoreStep

LEMMA TickStep ==
  ASSUME DashInv, Tick
  PROVE  DashInv'
<1>1. /\ UNCHANGED <<call, table, issued, removed, auditq, auditlog, dropped>>
      /\ UNCHANGED <<call, stream, broadcasts>> /\ UNCHANGED <<sessions, ident, tunnel>>
      /\ failures' = failures /\ now' = now + 1
  BY DEF Tick, tableVars, coreVars, auditVars
<1>2. DashShape /\ GuessInv /\ SightInv /\ LossIsAnnounced /\ RecordInv
  BY DEF DashInv
<1>3. now \in Nat /\ failures \in Seq(Nat) /\ \A i \in 1 .. Len(failures) : failures[i] <= now
  BY <1>2 DEF DashShape, ThrottleShape
<1>4. ThrottleShape'
  BY <1>1, <1>3 DEF ThrottleShape
<1>5. PICK p \in Seq(Nat) : p = KeptAt(failures, now)
  BY <1>3, KeptBounded
<1>6. PICK q \in Seq(Nat) : q = KeptAt(failures, now + 1)
  BY <1>3, KeptBounded
<1>7. Len(q) <= Len(p)
  BY <1>3, <1>5, <1>6, KeptShrinks
<1>8. Prune(failures) = p
  BY <1>5, PruneIsKept
<1>9. Prune(failures)' = q
  BY <1>1, <1>6 DEF Prune, Popped, KeptAt, OldAt
<1>10. Admitted' = Admitted
  BY <1>1 DEF Admitted
<1>11. Cardinality(Admitted) \in Nat /\ Cardinality(Calls) \in Nat
  BY CallsFinite, FS_Subset, FS_CardinalityType DEF Admitted
<1>12. PICK m \in Nat : m = Cardinality(Admitted)
  BY <1>11
<1>13. PICK b \in Int : b = MaxFailures + Cardinality(Calls) - 1
  BY <1>11, DashboardBounds
<1>14. Len(p) + m <= b
  BY <1>2, <1>8, <1>12, <1>13 DEF GuessInv
<1>15. Len(q) + m <= b
  BY <1>7, <1>14
<1>16. GuessInv'
  BY <1>9, <1>10, <1>12, <1>13, <1>15 DEF GuessInv
<1>17. OwnersStay
  BY <1>1 DEF OwnersStay
<1>18. SightInv' /\ CoreShape'
  BY <1>1, <1>2, <1>17, SightStill DEF DashShape, CoreShape
<1>19. RecordInv' /\ TableShape' /\ AuditShape'
  BY <1>1, <1>2, RecordStill
<1>20. LossIsAnnounced' /\ StreamShape'
  BY <1>1, <1>2, StreamStill
<1>21. call' \in [Calls -> CallRecords]
  BY <1>1, <1>2 DEF DashShape
<1> QED BY <1>4, <1>16, <1>18, <1>19, <1>20, <1>21 DEF DashInv, DashShape

LEMMA AuditWriteStep ==
  ASSUME DashInv, AuditWrite
  PROVE  DashInv'
<1>1. /\ UNCHANGED <<failures, now, call>> /\ UNCHANGED <<table, issued, removed>>
      /\ UNCHANGED <<call, stream, broadcasts>> /\ UNCHANGED <<sessions, ident, tunnel>>
  BY DEF AuditWrite, throttleVars, tableVars, coreVars
<1>2. DashShape /\ GuessInv /\ SightInv /\ LossIsAnnounced /\ RecordInv
  BY DEF DashInv
<1>3. GuessInv' /\ ThrottleShape'
  BY <1>1, <1>2, GuessStill
<1>4. OwnersStay
  BY <1>1 DEF OwnersStay
<1>5. SightInv'
  BY <1>1, <1>2, <1>4, SightStill
<1>6. CoreShape' /\ TableShape'
  BY <1>1, <1>2 DEF DashShape, CoreShape, TableShape
<1>7. RecordInv' /\ AuditShape'
  BY <1>2, RecordWritten
<1>8. LossIsAnnounced' /\ StreamShape'
  BY <1>1, <1>2, StreamStill
<1>9. call' \in [Calls -> CallRecords]
  BY <1>1, <1>2 DEF DashShape
<1> QED BY <1>3, <1>5, <1>6, <1>7, <1>8, <1>9 DEF DashInv, DashShape

-----------------------------------------------------------------------------
(* The event stream *)

LEMMA NoStreamIsStream ==
  NoStream \in StreamRecords /\ NoStream.queue = <<>> /\ NoStream.missed = 0 /\ NoStream.due = 0
<1>1. <<>> \in Seq(Tunnels) /\ 0 \in Nat /\ 0 \in Int
  OBVIOUS
<1> QED BY <1>1 DEF NoStream, StreamRecords

\* A receiver's record with its three fields set.
LEMMA StreamFields ==
  ASSUME NEW S, NEW q \in S, NEW m \in Nat, NEW d \in Int,
         NEW r \in [queue : S, missed : Nat, due : Int],
         NEW w, w = [r EXCEPT !.queue = q, !.missed = m, !.due = d]
  PROVE  /\ w.queue = q /\ w.missed = m /\ w.due = d
         /\ w \in [queue : S, missed : Nat, due : Int]
OBVIOUS

\* One receiver changes, and its account still balances.
LEMMA StreamChanged ==
  ASSUME DashShape, LossIsAnnounced, NEW c \in Calls, NEW r \in StreamRecords,
         stream' = [stream EXCEPT ![c] = r], broadcasts' = broadcasts,
         Len(r.queue) <= EventCapacity,
         call'[c].pc = "streaming" => r.due = r.missed + Len(r.queue),
         \A d \in Calls : d # c => call'[d].pc = call[d].pc
  PROVE  LossIsAnnounced' /\ StreamShape'
<1>1. stream \in [Calls -> StreamRecords] /\ \A d \in Calls : Len(stream[d].queue) <= EventCapacity
  BY DEF DashShape, StreamShape
<1>2. /\ stream' \in [Calls -> StreamRecords] /\ stream'[c] = r
      /\ \A d \in Calls : d # c => stream'[d] = stream[d]
  BY <1>1
<1>3. StreamShape'
  BY <1>1, <1>2 DEF DashShape, StreamShape
<1>4. LossIsAnnounced'
  BY <1>2 DEF LossIsAnnounced
<1> QED BY <1>3, <1>4

\* A step of one event stream.
LEMMA StreamStep ==
  ASSUME DashInv, NEW c \in Calls, NEW v, Becomes(c, v), NEW r \in StreamRecords,
         stream' = [stream EXCEPT ![c] = r],
         UNCHANGED <<throttleVars, tableVars, coreVars, broadcasts, auditVars>>,
         Len(r.queue) <= EventCapacity,
         v.pc = "streaming" => r.due = r.missed + Len(r.queue),
         call[c].pc # "auditing", v.pc \notin {"admitted", "auditing"},
         Sees(v), v.pc \in Bare => v.shown = {}
  PROVE  DashInv'
<1>1. /\ UNCHANGED <<failures, now>> /\ UNCHANGED <<table, issued, removed, auditq, auditlog, dropped>>
      /\ UNCHANGED <<sessions, ident, tunnel>> /\ broadcasts' = broadcasts
  BY DEF throttleVars, tableVars, coreVars, auditVars
<1>2. DashShape /\ GuessInv /\ SightInv /\ LossIsAnnounced /\ RecordInv
  BY DEF DashInv
<1>3. GuessInv' /\ ThrottleShape'
  BY <1>1, <1>2, GuessesKept
<1>4. OwnersStay
  BY <1>1 DEF OwnersStay
<1>5. SightInv'
  BY <1>2, <1>4, SightKept
<1>6. RecordInv' /\ TableShape' /\ AuditShape'
  BY <1>1, <1>2, RecordKept
<1>7. CoreShape'
  BY <1>1, <1>2 DEF DashShape, CoreShape
<1>8. call' \in [Calls -> CallRecords] /\ call'[c] = v /\ \A d \in Calls : d # c => call'[d] = call[d]
  BY <1>2, BecomesCall
<1>9. (call'[c].pc = "streaming" => r.due = r.missed + Len(r.queue)) /\ \A d \in Calls : d # c => call'[d].pc = call[d].pc
  BY <1>8
<1>10. LossIsAnnounced' /\ StreamShape'
  BY <1>1, <1>2, <1>9, StreamChanged
<1> QED BY <1>3, <1>5, <1>6, <1>7, <1>8, <1>10 DEF DashInv, DashShape

LEMMA SubscribeStep ==
  ASSUME DashInv, NEW c \in Calls, group_events_sse(c)
  PROVE  DashInv'
<1>1. /\ UNCHANGED <<throttleVars, tableVars, coreVars, broadcasts, auditVars>>
      /\ call[c].pc = "scoped"
  BY DEF group_events_sse, Handler
<1>2. CASE Answer(c, {}) /\ UNCHANGED stream
  <2>1. Unchanged
    BY <1>1, <1>2 DEF Unchanged
  <2> QED BY <1>1, <1>2, <2>1, PlainAnswer DEF Shows
<1>3. CASE Move(c, "streaming") /\ stream' = [stream EXCEPT ![c] = NoStream]
  <2>1. DashShape /\ call[c].shown = {}
    BY <1>1, SightOf DEF DashInv, Bare
  <2>2. PICK v : Becomes(c, v) /\ v.pc = "streaming" /\ v.shown = {}
    BY <1>3, <2>1, Moves DEF Pcs
  <2>3. Len(NoStream.queue) <= EventCapacity /\ NoStream.due = NoStream.missed + Len(NoStream.queue)
    BY NoStreamIsStream, DashboardBounds
  <2> QED BY <1>1, <1>3, <2>2, <2>3, BareSees, NoStreamIsStream, StreamStep
<1> QED BY <1>2, <1>3 DEF group_events_sse

LEMMA LaggedStep ==
  ASSUME DashInv, NEW c \in Calls, StreamLagged(c)
  PROVE  DashInv'
<1>1. /\ UNCHANGED <<throttleVars, tableVars, coreVars, broadcasts, auditVars>> /\ call' = call
      /\ call[c].pc = "streaming"
      /\ stream' = [stream EXCEPT ![c].missed = 0, ![c].due = @ - stream[c].missed]
  BY DEF StreamLagged
<1>2. /\ call \in [Calls -> CallRecords] /\ stream \in [Calls -> StreamRecords]
      /\ Len(stream[c].queue) <= EventCapacity /\ stream[c] \in StreamRecords
  BY DEF DashInv, DashShape, StreamShape
<1>3. stream[c].due = stream[c].missed + Len(stream[c].queue)
  BY <1>1 DEF DashInv, LossIsAnnounced
<1>4. Becomes(c, call[c])
  BY <1>1, <1>2 DEF Becomes
<1>5. PICK r : r = [stream[c] EXCEPT !.missed = 0, !.due = @ - stream[c].missed]
  OBVIOUS
<1>6. stream' = [stream EXCEPT ![c] = r]
  BY <1>1, <1>2, <1>5
<1>7. /\ r.queue = stream[c].queue /\ r.missed = 0 /\ r.due = stream[c].due - stream[c].missed
      /\ r \in StreamRecords
  <2>1. PICK x \in StreamRecords : x = stream[c]
    BY <1>2
  <2>2. x.queue \in Seq(Tunnels) /\ x.due \in Int /\ x.missed \in Nat
    BY <2>1 DEF StreamRecords
  <2>3. x.due - x.missed \in Int /\ 0 \in Nat
    BY <2>2
  <2>4. r = [x EXCEPT !.queue = x.queue, !.missed = 0, !.due = x.due - x.missed]
    BY <1>5, <2>1 DEF StreamRecords
  <2> QED BY <2>1, <2>2, <2>3, <2>4, StreamFields DEF StreamRecords
<1>8. stream[c].due \in Int /\ stream[c].missed \in Nat /\ stream[c].queue \in Seq(Tunnels)
  BY <1>2 DEF StreamRecords
<1>9. Len(r.queue) <= EventCapacity /\ r.due = r.missed + Len(r.queue)
  BY <1>2, <1>3, <1>7, <1>8
<1>10. Sees(call[c]) /\ (call[c].pc \in Bare => call[c].shown = {})
  BY SightOf
<1>11. PICK v : v = call[c]
  OBVIOUS
<1> QED BY <1>1, <1>4, <1>6, <1>7, <1>9, <1>10, <1>11, StreamStep

LEMMA ItemStep ==
  ASSUME DashInv, NEW c \in Calls, StreamItem(c)
  PROVE  DashInv'
<1>1. /\ UNCHANGED <<throttleVars, tableVars, coreVars, broadcasts, auditVars>>
      /\ call[c].pc = "streaming" /\ stream[c].missed = 0 /\ stream[c].queue # <<>>
      /\ stream' = [stream EXCEPT ![c].queue = Tail(@), ![c].due = @ - 1]
  BY DEF StreamItem
<1>2. /\ call \in [Calls -> CallRecords] /\ stream \in [Calls -> StreamRecords]
      /\ Len(stream[c].queue) <= EventCapacity /\ stream[c] \in StreamRecords
      /\ call[c] \in CallRecords
  BY DEF DashInv, DashShape, StreamShape
<1>3. stream[c].due = stream[c].missed + Len(stream[c].queue)
  BY <1>1 DEF DashInv, LossIsAnnounced
<1>4. stream[c].due \in Int /\ stream[c].missed \in Nat /\ stream[c].queue \in Seq(Tunnels)
  BY <1>2 DEF StreamRecords
<1>5. PICK q \in Seq(Tunnels) : q = stream[c].queue /\ q # <<>>
  BY <1>1, <1>4
<1>6. Tail(q) \in Seq(Tunnels) /\ Len(Tail(q)) = Len(q) - 1 /\ Head(q) \in Tunnels
  BY <1>5
<1>7. PICK r : r = [stream[c] EXCEPT !.queue = Tail(@), !.due = @ - 1]
  OBVIOUS
<1>8. stream' = [stream EXCEPT ![c] = r]
  BY <1>1, <1>2, <1>7
<1>9. /\ r.queue = Tail(q) /\ r.missed = 0 /\ r.due = stream[c].due - 1
      /\ r \in StreamRecords
  <2>1. PICK x \in StreamRecords : x = stream[c]
    BY <1>2
  <2>2. x.queue = q /\ x.due \in Int /\ x.missed = 0
    BY <1>1, <1>5, <2>1 DEF StreamRecords
  <2>3. x.due - 1 \in Int /\ 0 \in Nat
    BY <2>2
  <2>4. r = [x EXCEPT !.queue = Tail(q), !.missed = 0, !.due = x.due - 1]
    BY <1>7, <2>1, <2>2 DEF StreamRecords
  <2> QED BY <1>6, <2>1, <2>3, <2>4, StreamFields DEF StreamRecords
<1>10. Len(r.queue) <= EventCapacity /\ r.due = r.missed + Len(r.queue)
  BY <1>1, <1>2, <1>3, <1>4, <1>5, <1>6, <1>9, DashboardBounds
<1>11. PICK t \in Tunnels : t = Head(stream[c].queue)
  BY <1>5, <1>6
<1>12. Everything \in SUBSET Everything
  OBVIOUS
<1>13. t \in Visible(call[c].scope, Everything) => Shows(call[c].scope, {t})
  BY <1>12, VisibleIsOwn DEF Shows
<1>14. PICK ts \in SUBSET Tunnels : call' = [call EXCEPT ![c].shown = ts] /\ Shows(call[c].scope, ts)
  <2>1. CASE call' = [call EXCEPT ![c].shown = {}]
    <3>1. Shows(call[c].scope, {}) /\ {} \in SUBSET Tunnels
      BY DEF Shows
    <3> QED BY <2>1, <3>1
  <2>2. CASE /\ call' = [call EXCEPT ![c].shown = {t}]
             /\ call[c].scope = Admin \/ t \in Visible(call[c].scope, Everything)
    <3>1. Shows(call[c].scope, {t})
      BY <1>13, <2>2 DEF Shows
    <3> QED BY <2>2, <3>1
  <2> QED BY <1>11, <2>1, <2>2 DEF StreamItem
<1>15. PICK v : v = [call[c] EXCEPT !.shown = ts]
  OBVIOUS
<1>16. v \in CallRecords /\ v.pc = "streaming" /\ v.shown = ts /\ v.scope = call[c].scope
  BY <1>1, <1>2, <1>15 DEF CallRecords
<1>17. Becomes(c, v)
  BY <1>2, <1>14, <1>15, <1>16 DEF Becomes
<1>18. Sees(v) /\ v.pc \notin Bare
  BY <1>14, <1>16 DEF Sees, Shows, Bare
<1> QED BY <1>1, <1>8, <1>9, <1>10, <1>16, <1>17, <1>18, StreamStep

LEMMA ClosedStep ==
  ASSUME DashInv, NEW c \in Calls, StreamClosed(c)
  PROVE  DashInv'
<1>1. /\ UNCHANGED <<throttleVars, tableVars, coreVars, broadcasts, auditVars>>
      /\ call[c].pc = "streaming" /\ stream' = [stream EXCEPT ![c] = NoStream]
  BY DEF StreamClosed
<1>2. Becomes(c, Idle)
  BY IdleIsCall DEF Becomes, StreamClosed
<1>3. Len(NoStream.queue) <= EventCapacity
  BY NoStreamIsStream, DashboardBounds
<1>4. Sees(Idle) /\ Idle.pc = "idle" /\ Idle.shown = {}
  BY IdleIsCall, BareSees
<1> QED BY <1>1, <1>2, <1>3, <1>4, NoStreamIsStream, StreamStep

\* A receiver that takes one more event, as a record.
LEMMA OneMore ==
  ASSUME NEW r \in StreamRecords, NEW t \in Tunnels, Len(r.queue) <= EventCapacity,
         NEW w, w = [r EXCEPT !.queue = Append(IF Len(r.queue) >= EventCapacity THEN Tail(@) ELSE @, t),
                              !.missed = IF Len(r.queue) >= EventCapacity THEN @ + 1 ELSE @,
                              !.due = @ + 1]
  PROVE  /\ w \in StreamRecords /\ Len(w.queue) <= EventCapacity
         /\ r.due = r.missed + Len(r.queue) => w.due = w.missed + Len(w.queue)
<1>1. r.queue \in Seq(Tunnels) /\ r.missed \in Nat /\ r.due \in Int
  BY DEF StreamRecords
<1>2. PICK q \in Seq(Tunnels) : q = r.queue
  BY <1>1
<1>3. Len(q) \in Nat /\ EventCapacity \in Nat /\ EventCapacity > 0
  BY <1>2, DashboardBounds
<1>4. CASE Len(q) >= EventCapacity
  <2>1. q # <<>>
    BY <1>3, <1>4
  <2>2. Append(Tail(q), t) \in Seq(Tunnels) /\ Len(Append(Tail(q), t)) = Len(q)
    BY <2>1
  <2>3. w = [r EXCEPT !.queue = Append(Tail(q), t), !.missed = r.missed + 1, !.due = r.due + 1]
    BY <1>2, <1>4
  <2>4. /\ w.queue = Append(Tail(q), t) /\ w.missed = r.missed + 1 /\ w.due = r.due + 1
        /\ w \in StreamRecords
    <3>1. r.missed + 1 \in Nat /\ r.due + 1 \in Int
      BY <1>1
    <3> QED BY <2>2, <2>3, <3>1, StreamFields DEF StreamRecords
  <2> QED BY <1>1, <1>2, <1>3, <2>2, <2>4
<1>5. CASE ~(Len(q) >= EventCapacity)
  <2>1. Append(q, t) \in Seq(Tunnels) /\ Len(Append(q, t)) = Len(q) + 1
    OBVIOUS
  <2>2. w = [r EXCEPT !.queue = Append(q, t), !.missed = r.missed, !.due = r.due + 1]
    BY <1>1, <1>2, <1>5 DEF StreamRecords
  <2>3. /\ w.queue = Append(q, t) /\ w.missed = r.missed /\ w.due = r.due + 1
        /\ w \in StreamRecords
    <3>1. r.due + 1 \in Int
      BY <1>1
    <3> QED BY <1>1, <2>1, <2>2, <3>1, StreamFields DEF StreamRecords
  <2>4. Len(q) + 1 <= EventCapacity
    BY <1>3, <1>5
  <2>5. Len(w.queue) <= EventCapacity
    BY <2>1, <2>3, <2>4
  <2>6. r.due = r.missed + Len(r.queue) => w.due = w.missed + Len(w.queue)
    BY <1>1, <1>2, <1>3, <2>1, <2>3
  <2> QED BY <2>3, <2>5, <2>6
<1> QED BY <1>4, <1>5

LEMMA BroadcastStep ==
  ASSUME DashInv, NEW t \in Tunnels, broadcast_group_event(t)
  PROVE  DashInv'
<1>1. /\ UNCHANGED <<failures, now, call>> /\ UNCHANGED <<sessions, ident, tunnel>>
      /\ UNCHANGED <<call, table, issued, removed, auditq, auditlog, dropped>>
      /\ broadcasts' = broadcasts + 1
  BY DEF broadcast_group_event, throttleVars, tableVars, coreVars, auditVars
<1>2. DashShape /\ GuessInv /\ SightInv /\ LossIsAnnounced /\ RecordInv
  BY DEF DashInv
<1>3. GuessInv' /\ ThrottleShape'
  BY <1>1, <1>2, GuessStill
<1>4. OwnersStay
  BY <1>1 DEF OwnersStay
<1>5. SightInv'
  BY <1>1, <1>2, <1>4, SightStill
<1>6. CoreShape'
  BY <1>1, <1>2 DEF DashShape, CoreShape
<1>7. RecordInv' /\ TableShape' /\ AuditShape'
  BY <1>1, <1>2, RecordStill
<1>8. /\ stream \in [Calls -> StreamRecords] /\ broadcasts \in Nat
      /\ \A c \in Calls : Len(stream[c].queue) <= EventCapacity
  BY <1>2 DEF DashShape, StreamShape
<1>9. ASSUME NEW c \in Calls
      PROVE  /\ stream'[c] \in StreamRecords /\ Len(stream'[c].queue) <= EventCapacity
             /\ call[c].pc = "streaming" => stream'[c].due = stream'[c].missed + Len(stream'[c].queue)
  <2>1. CASE call[c].pc # "streaming"
    <3>1. stream'[c] = stream[c]
      BY <2>1 DEF broadcast_group_event
    <3> QED BY <1>8, <2>1, <3>1
  <2>2. CASE call[c].pc = "streaming"
    <3>1. PICK r \in StreamRecords : r = stream[c] /\ Len(r.queue) <= EventCapacity
      BY <1>8
    <3>2. r.due = r.missed + Len(r.queue)
      BY <1>2, <2>2, <3>1 DEF LossIsAnnounced
    <3>3. PICK w : w = [r EXCEPT !.queue = Append(IF Len(r.queue) >= EventCapacity THEN Tail(@) ELSE @, t),
                                 !.missed = IF Len(r.queue) >= EventCapacity THEN @ + 1 ELSE @,
                                 !.due = @ + 1]
      OBVIOUS
    <3>4. w \in StreamRecords /\ Len(w.queue) <= EventCapacity /\ w.due = w.missed + Len(w.queue)
      BY <3>1, <3>2, <3>3, OneMore
    <3>5. stream'[c] = w
      BY <2>2, <3>1, <3>3 DEF broadcast_group_event
    <3> QED BY <3>4, <3>5
  <2> QED BY <2>1, <2>2
<1>10. stream' \in [Calls -> StreamRecords]
  <2>1. stream' = [c \in Calls |-> stream'[c]]
    BY DEF broadcast_group_event
  <2> QED BY <1>9, <2>1
<1>11. StreamShape'
  BY <1>1, <1>8, <1>9, <1>10 DEF StreamShape
<1>12. LossIsAnnounced'
  BY <1>1, <1>9 DEF LossIsAnnounced
<1>13. call' \in [Calls -> CallRecords]
  BY <1>1, <1>2 DEF DashShape
<1> QED BY <1>3, <1>5, <1>6, <1>7, <1>11, <1>12, <1>13 DEF DashInv, DashShape

-----------------------------------------------------------------------------
(* Tokens *)

LEMMA CreateStep ==
  ASSUME DashInv, NEW c \in Calls, NEW k \in Tokens, create_token(c, k)
  PROVE  DashInv'
<1>1. /\ UNCHANGED <<failures, now>> /\ UNCHANGED <<auditq, auditlog, dropped>> /\ removed' = removed
      /\ UNCHANGED <<sessions, ident, tunnel>> /\ UNCHANGED <<stream, broadcasts>>
      /\ call[c].pc = "scoped" /\ k \notin issued /\ UserOf[k] = NoUser
      /\ table' = table \cup {k} /\ issued' = issued \cup {k}
      /\ call' = [call EXCEPT ![c].pc = "auditing", ![c].change = <<"created", k>>]
  BY DEF create_token, throttleVars, coreVars, auditVars, Handler
<1>2. DashShape /\ GuessInv /\ SightInv /\ LossIsAnnounced /\ RecordInv
  BY DEF DashInv
<1>3. call[c] \in CallRecords /\ call[c].shown = {} /\ call \in [Calls -> CallRecords]
  BY <1>1, <1>2, SightOf DEF Bare, DashShape
<1>4. PICK event \in TokenEvents : event = <<"created", k>>
  BY DEF TokenEvents
<1>5. PICK v : v = [call[c] EXCEPT !.pc = "auditing", !.change = event]
  OBVIOUS
<1>6. v \in CallRecords /\ v.pc = "auditing" /\ v.shown = {} /\ v.change = event
  BY <1>3, <1>4, <1>5 DEF CallRecords, Pcs
<1>7. Becomes(c, v)
  BY <1>1, <1>3, <1>4, <1>5, <1>6 DEF Becomes
<1>8. GuessInv' /\ ThrottleShape'
  BY <1>1, <1>2, <1>6, <1>7, GuessesKept
<1>9. OwnersStay
  BY <1>1 DEF OwnersStay
<1>10. SightInv' /\ CoreShape'
  BY <1>1, <1>2, <1>6, <1>7, <1>9, BareSees, SightKept DEF DashShape, CoreShape
<1>11. LossIsAnnounced' /\ StreamShape'
  BY <1>1, <1>2, <1>6, <1>7, StreamKept
<1>12. TableShape'
  BY <1>1, <1>2 DEF DashShape, TableShape
<1>13. ~Happened(event)
  BY <1>1, <1>4 DEF Happened
<1>14. \A e \in TokenEvents : Happened(e)' <=> Happened(e) \/ e = event
  <2>1. ASSUME NEW a \in {"created", "deleted"}, NEW j \in Tokens
        PROVE  Happened(<<a, j>>)' <=> Happened(<<a, j>>) \/ <<a, j>> = <<"created", k>>
    BY <1>1 DEF Happened
  <2> QED BY <1>4, <2>1 DEF TokenEvents
<1>15. RecordInv' /\ AuditShape'
  BY <1>1, <1>2, <1>6, <1>7, <1>13, <1>14, RecordTaken
<1>16. call' \in [Calls -> CallRecords]
  BY <1>2, <1>7, BecomesCall
<1> QED BY <1>8, <1>10, <1>11, <1>12, <1>15, <1>16 DEF DashInv, DashShape

\* Of the requests that race to delete a token, one finds the row.
LEMMA DeleteStep ==
  ASSUME DashInv, NEW c \in Calls, NEW k \in Tokens, delete_token(c, k)
  PROVE  DashInv'
<1>1. /\ UNCHANGED <<failures, now>> /\ UNCHANGED <<auditq, auditlog, dropped>> /\ issued' = issued
      /\ UNCHANGED <<sessions, ident, tunnel>> /\ UNCHANGED <<stream, broadcasts>>
      /\ call[c].pc = "scoped" /\ k \in issued
      /\ table' = table \ {k} /\ removed' = (IF k \in table THEN removed \cup {k} ELSE removed)
  BY DEF delete_token, throttleVars, coreVars, auditVars, Handler
<1>2. DashShape /\ GuessInv /\ SightInv /\ LossIsAnnounced /\ RecordInv
  BY DEF DashInv
<1>3. call[c] \in CallRecords /\ call[c].shown = {} /\ call \in [Calls -> CallRecords]
  BY <1>1, <1>2, SightOf DEF Bare, DashShape
<1>4. CASE k \notin table
  <2>1. Answer(c, {}) /\ table' = table /\ removed' = removed
    BY <1>1, <1>4 DEF delete_token
  <2>2. Unchanged
    BY <1>1, <2>1 DEF Unchanged, throttleVars, tableVars, coreVars, auditVars
  <2> QED BY <1>1, <2>1, <2>2, PlainAnswer DEF Shows
<1>5. CASE k \in table
  <2>1. /\ call' = [call EXCEPT ![c].pc = "auditing", ![c].change = <<"deleted", k>>]
        /\ removed' = removed \cup {k} /\ k \notin removed
    BY <1>1, <1>2, <1>5 DEF delete_token, DashShape, TableShape
  <2>2. PICK event \in TokenEvents : event = <<"deleted", k>>
    BY DEF TokenEvents
  <2>3. PICK v : v = [call[c] EXCEPT !.pc = "auditing", !.change = event]
    OBVIOUS
  <2>4. v \in CallRecords /\ v.pc = "auditing" /\ v.shown = {} /\ v.change = event
    BY <1>3, <2>2, <2>3 DEF CallRecords, Pcs
  <2>5. Becomes(c, v)
    BY <1>3, <2>1, <2>2, <2>3, <2>4 DEF Becomes
  <2>6. GuessInv' /\ ThrottleShape'
    BY <1>1, <1>2, <2>4, <2>5, GuessesKept
  <2>7. OwnersStay
    BY <1>1 DEF OwnersStay
  <2>8. SightInv' /\ CoreShape'
    BY <1>1, <1>2, <2>4, <2>5, <2>7, BareSees, SightKept DEF DashShape, CoreShape
  <2>9. LossIsAnnounced' /\ StreamShape'
    BY <1>1, <1>2, <2>4, <2>5, StreamKept
  <2>10. TableShape'
    BY <1>1, <1>2, <2>1 DEF DashShape, TableShape
  <2>11. ~Happened(event)
    BY <2>1, <2>2 DEF Happened
  <2>12. \A e \in TokenEvents : Happened(e)' <=> Happened(e) \/ e = event
    <3>1. ASSUME NEW a \in {"created", "deleted"}, NEW j \in Tokens
          PROVE  Happened(<<a, j>>)' <=> Happened(<<a, j>>) \/ <<a, j>> = <<"deleted", k>>
      BY <1>1, <2>1 DEF Happened
    <3> QED BY <2>2, <3>1 DEF TokenEvents
  <2>13. RecordInv' /\ AuditShape'
    BY <1>1, <1>2, <2>4, <2>5, <2>11, <2>12, RecordTaken
  <2>14. call' \in [Calls -> CallRecords]
    BY <1>2, <2>5, BecomesCall
  <2> QED BY <2>6, <2>8, <2>9, <2>10, <2>13, <2>14 DEF DashInv, DashShape
<1> QED BY <1>4, <1>5

LEMMA AuditTokenStep ==
  ASSUME DashInv, NEW c \in Calls, AuditToken(c)
  PROVE  DashInv'
<1>1. /\ UNCHANGED <<failures, now>> /\ UNCHANGED <<table, issued, removed>>
      /\ UNCHANGED <<sessions, ident, tunnel>> /\ UNCHANGED <<stream, broadcasts>>
      /\ call[c].pc = "auditing" /\ try_send(call[c].change)
  BY DEF AuditToken, throttleVars, tableVars, coreVars
<1>2. DashShape /\ GuessInv /\ SightInv /\ LossIsAnnounced /\ RecordInv
  BY DEF DashInv
<1>3. PICK v : Becomes(c, v) /\ v.shown = {} /\ v.pc \in {"idle", "answered"}
  BY <1>2, Answers DEF AuditToken
<1>4. GuessInv' /\ ThrottleShape'
  BY <1>1, <1>2, <1>3, GuessesKept
<1>5. OwnersStay
  BY <1>1 DEF OwnersStay
<1>6. SightInv' /\ CoreShape'
  BY <1>1, <1>2, <1>3, <1>5, BareSees, SightKept DEF DashShape, CoreShape
<1>7. LossIsAnnounced' /\ StreamShape'
  BY <1>1, <1>2, <1>3, StreamKept
<1>8. RecordInv' /\ TableShape' /\ AuditShape'
  BY <1>1, <1>2, <1>3, RecordSentToken
<1>9. call' \in [Calls -> CallRecords]
  BY <1>2, <1>3, BecomesCall
<1> QED BY <1>4, <1>6, <1>7, <1>8, <1>9 DEF DashInv, DashShape

-----------------------------------------------------------------------------
(* The theorems *)

LEMMA DashStarts == Init => DashInv
<1> SUFFICES ASSUME Init PROVE DashInv
  OBVIOUS
<1>1. TableShape
  BY DEF Init, TableShape
<1>2. CoreShape
  BY DEF Init, CoreShape, Nobody, Identities, Fresh, TunnelRecords
<1>3. ThrottleShape
  BY DEF Init, ThrottleShape
<1>4. \A c \in Calls : stream[c] = NoStream
  BY DEF Init
<1>5. StreamShape
  <2>1. stream \in [Calls -> StreamRecords] /\ broadcasts \in Nat
    BY NoStreamIsStream DEF Init
  <2>2. Len(NoStream.queue) <= EventCapacity
    BY NoStreamIsStream, DashboardBounds
  <2> QED BY <1>4, <2>1, <2>2 DEF StreamShape
<1>6. AuditShape
  <2>1. <<>> \in Seq(AuditEvents) /\ <<>> \in Seq(TokenEvents) /\ Len(<<>>) = 0
    OBVIOUS
  <2>2. auditq = <<>> /\ auditlog = <<>> /\ dropped = FALSE
    BY DEF Init
  <2>3. 0 <= AuditCapacity
    BY DashboardBounds
  <2>4. Len(auditq) <= AuditCapacity
    BY <2>1, <2>2, <2>3
  <2> QED BY <2>1, <2>2, <2>4 DEF AuditShape
<1>7. call \in [Calls -> CallRecords] /\ \A c \in Calls : call[c] = Idle
  BY IdleIsCall DEF Init
<1>8. GuessInv
  <2>1. Admitted = {}
    BY <1>7, IdleIsCall DEF Admitted
  <2>2. Cardinality(Admitted) = 0 /\ Cardinality(Calls) \in Nat
    BY <2>1, FS_EmptySet, CallsFinite, FS_CardinalityType
  <2>3. failures = <<>> /\ now = 0 /\ <<>> \in Seq(Nat) /\ Len(<<>>) = 0
    BY DEF Init
  <2>4. PICK p \in Seq(Nat) : p = KeptAt(<<>>, 0) /\ Len(p) <= 0
    BY <2>3, KeptBounded
  <2>5. Prune(failures) = p
    BY <2>3, <2>4, PruneIsKept
  <2>6. Len(p) + 0 <= MaxFailures + Cardinality(Calls) - 1
    BY <2>2, <2>4, DashboardBounds
  <2> QED BY <2>2, <2>5, <2>6 DEF GuessInv
<1>9. SightInv
  BY <1>7, IdleIsCall DEF SightInv, Sees
<1>10. LossIsAnnounced
  BY <1>7, IdleIsCall DEF LossIsAnnounced
<1>11. \A e : ~InLog(e) /\ ~InQueue(e) /\ ~InHand(e)
  BY <1>7, IdleIsCall DEF Init, InLog, InQueue, InHand
<1>12. RecordInv
  <2>1. \A c \in Calls : call[c].pc # "auditing"
    BY <1>7, IdleIsCall
  <2>2. RecordedOnce
    BY <1>11, <2>1 DEF Init, RecordedOnce
  <2>3. \A e \in TokenEvents : ~Happened(e)
    BY DEF Init, Happened
  <2> QED BY <1>11, <2>1, <2>2, <2>3 DEF RecordInv
<1> QED BY <1>1, <1>2, <1>3, <1>5, <1>6, <1>7, <1>8, <1>9, <1>10, <1>12 DEF DashInv, DashShape

LEMMA DashStutters == DashInv /\ UNCHANGED vars => DashInv'
<1> SUFFICES ASSUME DashInv, UNCHANGED vars PROVE DashInv'
  OBVIOUS
<1>1. UNCHANGED <<throttleVars, tableVars, call, stream, broadcasts, auditVars>> /\ UNCHANGED <<sessions, ident, tunnel>>
  BY DEF vars, coreVars
<1>2. CoreShape' /\ OwnersStay
  BY <1>1 DEF DashInv, DashShape, CoreShape, OwnersStay
<1> QED BY <1>1, <1>2, CoreStep

LEMMA DashSteps == DashInv /\ Next => DashInv'
<1> SUFFICES ASSUME DashInv, Next PROVE DashInv'
  OBVIOUS
<1>1. ASSUME NEW c \in Calls, CallStep(c) PROVE DashInv'
  <2>1. CASE auth_throttle(c) \/ require_auth(c) \/ unauthorized(c) \/ Return(c) \/ reject_session(c)
    BY <2>1, ThrottleStep, RequireAuthStep, UnauthorizedStep, ReturnStep, RejectStep
  <2>2. CASE \E s \in Sessions : register_session(c, s)
    BY <2>2, RegisterStep
  <2>3. CASE list_tunnels(c) \/ list_groups(c) \/ ReadCapture(c) \/ find_member_health_events(c)
    BY <2>3, ListStep, ReadStep
  <2>4. CASE \E t \in Tunnels : ShowTunnel(c, t) \/ force_close_tunnel(c, t) \/ CheckCapture(c, t) \/ CheckHealthEvents(c, t)
    BY <2>4, ShowTunnelStep, ForceCloseStep, CheckStep
  <2>5. CASE group_events_sse(c) \/ StreamLagged(c) \/ StreamItem(c) \/ StreamClosed(c)
    BY <2>5, SubscribeStep, LaggedStep, ItemStep, ClosedStep
  <2>6. CASE (\E k \in Tokens : create_token(c, k) \/ delete_token(c, k)) \/ AuditToken(c)
    BY <2>6, CreateStep, DeleteStep, AuditTokenStep
  <2> QED BY <1>1, <2>1, <2>2, <2>3, <2>4, <2>5, <2>6 DEF CallStep
<1>2. ASSUME NEW t \in Tunnels,
             \/ InsertMember(t) \/ remove_tunnel(t) \/ broadcast_group_event(t)
             \/ \E s \in Sessions : CheckSession(t, s)
      PROVE  DashInv'
  BY <1>2, TunnelStep, BroadcastStep
<1>3. CASE (\E s \in Sessions : remove_session(s)) \/ AuditWrite \/ Tick
  BY <1>3, RemoveSessionStep, AuditWriteStep, TickStep
<1> QED BY <1>1, <1>2, <1>3 DEF Next

\* The inductive invariant of the dashboard's requests (dashboard/api.rs,
\* auth.rs, audit.rs).
THEOREM DashInvariant == Spec => []DashInv
<1>1. DashInv /\ [Next]_vars => DashInv'
  BY DashSteps, DashStutters
<1> QED BY <1>1, DashStarts, PTL DEF Spec

\* However many requests and handshakes race past AuthFailureLimiter.is_limited
\* before one of them records its failure, one address gets no more than
\* MaxFailures + Cardinality(Calls) - 1 guesses through in a window.
THEOREM GuessesStayBounded == Spec => []GuessesBounded
<1>1. DashInv => GuessesBounded
  <2> SUFFICES ASSUME DashInv PROVE GuessesBounded
    OBVIOUS
  <2>1. Cardinality(Admitted) \in Nat /\ Cardinality(Calls) \in Nat
    BY CallsFinite, FS_Subset, FS_CardinalityType DEF Admitted
  <2>2. now \in Nat /\ failures \in Seq(Nat)
    BY DEF DashInv, DashShape, ThrottleShape
  <2>3. PICK p \in Seq(Nat) : p = Prune(failures)
    BY <2>2, PruneIsKept, KeptBounded
  <2>4. PICK m \in Nat : m = Cardinality(Admitted)
    BY <2>1
  <2>5. Len(p) + m <= MaxFailures + Cardinality(Calls) - 1
    BY <2>3, <2>4 DEF DashInv, GuessInv
  <2>6. Len(p) <= MaxFailures + Cardinality(Calls) - 1
    BY <2>1, <2>5, DashboardBounds
  <2> QED BY <2>3, <2>6 DEF GuessesBounded
<1> QED BY <1>1, DashInvariant, PTL

\* Tenant isolation: no interleaving of requests with sessions that come and
\* go lets scope_sees_session show a tunnel of another user or token.
THEOREM TenantsStayApart == Spec => []OwnTunnelsOnly
<1>1. DashInv => OwnTunnelsOnly
  BY DEF DashInv, SightInv, Sees, OwnTunnelsOnly
<1> QED BY <1>1, DashInvariant, PTL

\* The event stream announces every loss and the audit file records each token
\* change once, whatever requests race (group_events_sse, delete_token, audit.rs).
THEOREM RecordsStayTrue == Spec => []RecordsAreTrue
<1>1. DashInv => DashTypeOK
  <2> SUFFICES ASSUME DashInv PROVE DashTypeOK
    OBVIOUS
  <2>1. /\ table \subseteq issued /\ issued \subseteq Tokens /\ removed \subseteq issued
        /\ sessions \subseteq Sessions
    BY DEF DashInv, DashShape, TableShape, CoreShape
  <2>2. \A s \in Sessions : ident[s].token \in Tokens \cup {NoUser}
    BY DEF DashInv, DashShape, CoreShape, Identities
  <2>3. \A t \in Tunnels : tunnel[t].st \in {"new", "checked", "live", "gone"}
    BY DEF DashInv, DashShape, CoreShape, TunnelRecords
  <2>4. \A i \in DOMAIN failures : failures[i] \in 0 .. now
    <3>1. now \in Nat /\ failures \in Seq(Nat) /\ \A i \in 1 .. Len(failures) : failures[i] <= now
      BY DEF DashInv, DashShape, ThrottleShape
    <3> QED BY <3>1
  <2>5. ASSUME NEW c \in Calls
        PROVE  /\ call[c].pc \in Pcs
               /\ call[c].scope \in Scopes /\ call[c].shown \subseteq Tunnels
               /\ stream[c].queue \in Seq(Tunnels) /\ Len(stream[c].queue) <= EventCapacity
    <3>1. call[c] \in CallRecords /\ stream[c] \in StreamRecords /\ Len(stream[c].queue) <= EventCapacity
      BY DEF DashInv, DashShape, StreamShape
    <3> QED BY <3>1 DEF CallRecords, StreamRecords
  <2>6. auditlog \in Seq(TokenEvents) /\ Len(auditq) <= AuditCapacity
    BY DEF DashInv, DashShape, AuditShape
  <2> QED BY <2>1, <2>2, <2>3, <2>4, <2>5, <2>6 DEF DashTypeOK, Pcs
<1>2. DashInv => AuditIsTrue
  <2> SUFFICES ASSUME DashInv PROVE AuditIsTrue
    OBVIOUS
  <2> DEFINE created == {<<"created", k>> : k \in {j \in issued : UserOf[j] = NoUser}}
             deleted == {<<"deleted", k>> : k \in removed}
  <2>1. /\ auditlog \in Seq(TokenEvents) /\ auditq \in Seq(AuditEvents)
        /\ issued \subseteq Tokens /\ removed \subseteq Tokens /\ RecordInv
    BY DEF DashInv, DashShape, AuditShape, TableShape
  <2>2. \A e \in created \cup deleted : e \in TokenEvents /\ Happened(e)
    BY <2>1 DEF Happened, TokenEvents
  <2>3. \A e \in TokenEvents : Happened(e) => e \in created \cup deleted
    <3>1. ASSUME NEW a \in {"created", "deleted"}, NEW j \in Tokens, Happened(<<a, j>>)
          PROVE  <<a, j>> \in created \cup deleted
      BY <3>1 DEF Happened
    <3> QED BY <3>1 DEF TokenEvents
  <2>4. \A e : e \in ToSet(auditlog) <=> InLog(e)
    BY <2>1 DEF ToSet, InLog
  <2>5. \A e : e \in ToSet(auditq) <=> InQueue(e)
    BY <2>1 DEF ToSet, InQueue
  <2>6. \A e \in AuditEvents : e[1] # "auth" <=> e \in TokenEvents
    BY DEF AuditEvents, TokenEvents
  <2>7. \A e : InQueue(e) => e \in AuditEvents
    BY <2>1 DEF InQueue
  <2>8. \A e : InLog(e) => e \in TokenEvents
    BY <2>1 DEF InLog
  <2>9. \A e : InHand(e) => e \in TokenEvents
    BY <2>1 DEF InHand, RecordInv
  <2>10. \A e : e \in AuditedOrPending <=> e \in TokenEvents /\ (InLog(e) \/ InQueue(e) \/ InHand(e))
    <3>1. \A e : e \in {call[c].change : c \in {d \in Calls : call[d].pc = "auditing"}} <=> InHand(e)
      BY DEF InHand
    <3>2. \A e : e \in {f \in ToSet(auditq) : f[1] # "auth"} <=> InQueue(e) /\ e \in TokenEvents
      BY <2>5, <2>6, <2>7
    <3>3. \A e \in TokenEvents : e \in AuditEvents
      BY DEF AuditEvents
    <3> QED BY <2>4, <2>8, <2>9, <3>1, <3>2, <3>3 DEF AuditedOrPending
  <2> HIDE DEF created, deleted
  <2>11. AuditedOrPending \subseteq created \cup deleted
    BY <2>1, <2>3, <2>10 DEF RecordInv
  <2>12. ~dropped => created \cup deleted \subseteq AuditedOrPending
    BY <2>1, <2>2, <2>10 DEF RecordInv
  <2>13. IsInjective(auditlog)
    BY <2>1 DEF RecordInv, RecordedOnce, IsInjective
  <2> QED BY <2>11, <2>12, <2>13 DEF AuditIsTrue, created, deleted
<1>3. DashInv => RecordsAreTrue
  BY <1>1, <1>2 DEF DashInv, RecordsAreTrue
<1> QED BY <1>3, DashInvariant, PTL

=============================================================================
