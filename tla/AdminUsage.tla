----------------------------- MODULE AdminUsage -----------------------------
(***************************************************************************)
(* The admin's usage reports over `usage_daily`: a daily series, totals    *)
(* per user and per token in pages, and a leaderboard.  The reports are    *)
(* separate queries with different joins; meanwhile rollups replace rows,  *)
(* tokens are deleted and days begin.  Rows keep the bytes only: the other *)
(* measures are added up in the same way.                                  *)
(* (db/usage_rollup.rs, dashboard/api.rs)                                  *)
(***************************************************************************)
EXTENDS Integers, Sequences, FiniteSets, FiniteSetsExt, SequencesExt

CONSTANTS
  UserIds,       \* users.id, of the accounts that are no test accounts
  TestIds,       \* users.id of the test accounts
  Anonymous,     \* ANONYMOUS_USER_ID: no row of users
  Owner,         \* tokens.user_id, over every token id there ever is
  SystemTokens,  \* tokens.system
  NoToken,       \* '': a row without a token
  Slices,        \* the <<day, user, token>> that usage_daily may have a row of
  PageLimits,    \* `limit` as an admin sends it
  LastDay        \* bound: days

ASSUME UsageConstants ==
  /\ UserIds \cup TestIds \subseteq Nat /\ Anonymous \notin UserIds \cup TestIds
  /\ UserIds \cap TestIds = {} /\ SystemTokens \subseteq DOMAIN Owner /\ NoToken \notin DOMAIN Owner
  /\ \A s \in Slices : /\ s[1] \in 0 .. LastDay
                       /\ s[2] \in UserIds \cup TestIds \cup {Anonymous}
                       /\ s[3] = NoToken \/ s[2] = Owner[s[3]]
  /\ IsFiniteSet(Slices) /\ PageLimits \subseteq Int /\ LastDay \in Nat

VARIABLES
  table,         \* usage_daily, over the slices that have a row
  tokens,        \* ids in the tokens table
  today,
  walk           \* an admin reading the per-user report page by page

usageVars == <<table, tokens, today, walk>>

Cell(i, o, u) == [bytes_in |-> i, bytes_out |-> o, unknown |-> u, total |-> i + o + u]
\* What a rollup writes: no bytes (a tunnel that is still open), bytes with a
\* direction, or a legacy total.  Groups mix them.
Cells == {Cell(0, 0, 0), Cell(1, 0, 0), Cell(0, 0, 1)}
NotReading == [at |-> "idle", limit |-> 0, days |-> 1, exclude |-> FALSE, seen |-> <<>>]

UsageInit ==
  /\ table = [s \in {} |-> Cell(0, 0, 0)]
  /\ tokens = DOMAIN Owner
  /\ today = 0
  /\ walk = NotReading

-----------------------------------------------------------------------------
(* The queries                                                             *)

\* usage_range: the trailing `days`, today included.
usage_range(days) == {d \in 0 .. LastDay : d <= today /\ d + days > today}

\* test_filter_sql, on the users row the join found (u.email IS NULL passes).
test_filter(user, exclude) == exclude => user \notin TestIds

\* t.system IS NOT TRUE after a LEFT JOIN: a row without a token passes, and so
\* does one whose token is gone.
NotSystem(k) == ~ (k \in tokens /\ k \in SystemTokens)

InWindow(days, exclude) ==
  {s \in DOMAIN table : s[1] \in usage_range(days) /\ test_filter(s[2], exclude)}

\* The rows of load_daily (LEFT JOIN users), of user_group_sql (JOIN users) and
\* of token_group_sql (JOIN tokens; the test filter is on the token's owner).
DailyRows(days, exclude) == {s \in InWindow(days, exclude) : NotSystem(s[3])}
\* Variant: t.system = FALSE, which a missing token does not satisfy.
UserRows_inner(days, exclude) ==
  {s \in InWindow(days, exclude) : s[2] \in UserIds \cup TestIds /\ s[3] \in tokens \ SystemTokens}
UserRows(days, exclude) ==
  {s \in InWindow(days, exclude) : s[2] \in UserIds \cup TestIds /\ NotSystem(s[3])}
TokenRows(days, exclude) ==
  {s \in DOMAIN table : /\ s[1] \in usage_range(days) /\ s[3] \in tokens \ SystemTokens
                        /\ test_filter(Owner[s[3]], exclude)}

\* SUM over the rows of a group: how many units its rows stand for.
Summed(S) ==
  LET Sum(f) == Cardinality(UNION {{s} \X (1 .. table[s][f]) : s \in S})
  IN  [bytes_in |-> Sum("bytes_in"), bytes_out |-> Sum("bytes_out"),
       unknown |-> Sum("unknown"), total |-> Sum("total")]

\* GROUP BY
Groups(S, col) == {s[col] : s \in S}
Of(S, col, x) == Summed({s \in S : s[col] = x})

\* Variant: unknown as soon as a part is.
direction_pair_any(c) == IF c.unknown > 0 THEN <<>> ELSE <<c.bytes_in, c.bytes_out>>
direction_pair(c) ==
  IF c.unknown > 0 /\ c.bytes_in = 0 /\ c.bytes_out = 0 THEN <<>> ELSE <<c.bytes_in, c.bytes_out>>

\* ORDER BY bytes_total DESC, user_id ASC
\* Variant: no tie-break.
Before_bytes_only(S, u, v) == Of(S, 2, u).total >= Of(S, 2, v).total
Before(S, u, v) ==
  \/ Of(S, 2, u).total > Of(S, 2, v).total
  \/ Of(S, 2, u).total = Of(S, 2, v).total /\ u <= v

\* The orders in which the database may return the groups of S.
Ordered(S) ==
  {q \in SetToSeqs(Groups(S, 2)) : \A i \in DOMAIN q : \A j \in i .. Len(q) : Before(S, q[i], q[j])}

Clamped(n) == IF n < 1 THEN 1 ELSE n

\* OFFSET and LIMIT
Page(q, offset, limit) == SubSeq(q, offset + 1, Min({offset + limit, Len(q)}))

\* The leaderboard by bandwidth.
usage_leaderboard(days, exclude, limit) ==
  {Page(q, 0, Clamped(limit)) : q \in Ordered(UserRows(days, exclude))}

-----------------------------------------------------------------------------
(* Writers: each ends a walk, whose pages would be of different tables     *)

\* A rollup replaces the rows of yesterday and today (UsageRollup).
Recent(s) == s[1] <= today /\ today <= s[1] + 1
RollupWrites(s, c) ==
  /\ Recent(s) /\ (s \in DOMAIN table => table[s] # c)
  /\ table' = [r \in DOMAIN table \cup {s} |-> IF r = s THEN c ELSE table[r]]
  /\ walk' = NotReading
  /\ UNCHANGED <<tokens, today>>

RollupRemoves(s) ==
  /\ Recent(s) /\ s \in DOMAIN table
  /\ table' = [r \in DOMAIN table \ {s} |-> table[r]]
  /\ walk' = NotReading
  /\ UNCHANGED <<tokens, today>>

DeleteToken(k) ==
  /\ k \in tokens
  /\ tokens' = tokens \ {k}
  /\ walk' = NotReading
  /\ UNCHANGED <<table, today>>

NewDay ==
  /\ today < LastDay
  /\ today' = today + 1
  /\ walk' = NotReading
  /\ UNCHANGED <<table, tokens>>

-----------------------------------------------------------------------------
(* admin_usage_by_user                                                     *)

StartWalk(limit, days, exclude) ==
  /\ walk.at = "idle"
  /\ walk' = [at |-> "reading", limit |-> limit, days |-> days, exclude |-> exclude, seen |-> <<>>]
  /\ UNCHANGED <<table, tokens, today>>

\* A page per request: the admin asks for what comes after the entries so far,
\* until a page is empty.
admin_usage_by_user ==
  /\ walk.at = "reading"
  /\ \E q \in Ordered(UserRows(walk.days, walk.exclude)) :
       LET entries == Page(q, Len(walk.seen), Clamped(walk.limit))
       IN  walk' = [walk EXCEPT !.seen = @ \o entries,
                                !.at = IF entries = <<>> THEN "complete" ELSE "reading"]
  /\ UNCHANGED <<table, tokens, today>>

UsageNext ==
  \/ \E s \in Slices : RollupRemoves(s) \/ \E c \in Cells : RollupWrites(s, c)
  \/ \E k \in DOMAIN Owner : DeleteToken(k)
  \/ NewDay
  \/ \E limit \in PageLimits, days \in 1 .. LastDay + 1, exclude \in BOOLEAN : StartWalk(limit, days, exclude)
  \/ admin_usage_by_user

UsageSpec == UsageInit /\ [][UsageNext]_usageVars

-----------------------------------------------------------------------------
(* Properties                                                              *)

\* Type invariant: what an admin is shown are accounts, never the nil user.
UsageTypeOK ==
  /\ DOMAIN table \subseteq Slices /\ Range(table) \subseteq Cells
  /\ tokens \subseteq DOMAIN Owner /\ today \in 0 .. LastDay
  /\ walk.at \in {"idle", "reading", "complete"}
  /\ walk.seen \in Seq(UserIds \cup TestIds)

\* The reports agree although they join differently: what the daily series
\* shows is what the users show plus the rows without an account, and what the
\* tokens show plus the rows whose token is unnamed or deleted, with and
\* without the test accounts, whichever tokens have gone meanwhile.
ReportsReconcile ==
  \A days \in 1 .. LastDay + 1, exclude \in BOOLEAN :
    LET all == DailyRows(days, exclude)
    IN  /\ all = UserRows(days, exclude) \cup {s \in all : s[2] = Anonymous}
        /\ all = TokenRows(days, exclude) \cup {s \in all : s[3] \notin tokens}

\* A bucket's directions are withheld only when nothing of it has one, and
\* what is shown adds up to its total: also where rows from before and after
\* the directional columns fall into one bucket.
DirectionsAddUp ==
  \A days \in 1 .. LastDay + 1, exclude \in BOOLEAN :
    LET S == UserRows(days, exclude)
    IN  \A u \in Groups(S, 2) :
          LET c == Of(S, 2, u) IN
          IF direction_pair(c) = <<>>
          THEN c.total = c.unknown /\ c.total > 0
          ELSE direction_pair(c)[1] + direction_pair(c)[2] + c.unknown = c.total

\* Pages read one after the other, with nothing written meanwhile, show every
\* account of the report exactly once, whatever ties there are; and the
\* leaderboard is how that list begins.
WalkIsComplete ==
  walk.at = "complete" =>
    /\ IsInjective(walk.seen)
    /\ Range(walk.seen) = Groups(UserRows(walk.days, walk.exclude), 2)
    /\ usage_leaderboard(walk.days, walk.exclude, walk.limit)
         = {Page(walk.seen, 0, Clamped(walk.limit))}

\* The reports of one table agree with each other: in their totals, in their
\* directions and page by page (the admin_usage queries).
ReportsAgree == UsageTypeOK /\ ReportsReconcile /\ DirectionsAddUp /\ WalkIsComplete

=============================================================================
