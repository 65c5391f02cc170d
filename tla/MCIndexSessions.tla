--------------------------- MODULE MCIndexSessions ---------------------------
(***************************************************************************)
(* IndexSessions for TLC, and what an operator is shown of the runs, over  *)
(* every table of a few rows.                                              *)
(***************************************************************************)
EXTENDS IndexSessions, Sequences, FiniteSets

CONSTANTS NoBudget, Absent, Unpriced

V == INSTANCE OperatorViews
        WITH None <- NoBudget, Unknown <- Unpriced, Day <- 2, Month <- 12, StaleAfter <- 3

Now == 25
Times == {10, 11, 12, 23, 24, 25}
Costs == {Absent, Unpriced, 1, 3}
Budgets == {NoBudget, 2}

Row == [started : Times, status : {"failed"}, llm : Costs, embedding : Costs]

\* The rows of a table, the newest first.
Tables == {<<>>} \cup {<<r>> : r \in Row}
                 \cup {<<r, s>> : r \in Row, s \in {s \in Row : s.embedding # 3}}
Ordered(table) == \A i, j \in DOMAIN table : i < j => table[i].started >= table[j].started
CostTables == {t \in Tables : Ordered(t)}

\* The metrics, the operator API and /cost tell one story of today, and a budget
\* that the recorded cost exceeds is never called kept or unknown.
ASSUME DailyViewsAgree ==
    \A t \in CostTables, daily, each \in Budgets :
        LET d == V!DailySummary(t, Now, daily, each)
            p == V!PeriodSummary(t, "today", Now, daily, each)
        IN /\ d.total = p.total /\ d.unknown = p.unknown /\ d.status = p.status
           /\ d.over >= p.over
           /\ daily # NoBudget =>
                /\ d.status = "exceeded" <=> d.total > daily
                /\ d.status = "ok" <=> d.total <= daily /\ d.unknown = 0

\* Each period has all that a shorter one within it has.
ASSUME PeriodsNest ==
    \A t \in CostTables :
        LET Cost(scope) == V!PeriodSummary(t, scope, Now, NoBudget, 2)
        IN \A longer \in {"7d", "month"} :
            /\ Cost("today").total <= Cost(longer).total
            /\ Cost("today").unknown <= Cost(longer).unknown
            /\ Cost("today").over <= Cost(longer).over

\* A listing that is cut short still has today's cost, as long as it has room for
\* the runs of today.
ASSUME ShortListingIsExact ==
    \A t \in CostTables, limit \in 1 .. 2 :
        Cardinality({i \in DOMAIN t : t[i].started >= 24}) <= limit =>
            V!PeriodSummary(V!Newest(t, limit), "today", Now, 2, 2)
                = V!PeriodSummary(t, "today", Now, 2, 2)

\* /cost for one workflow: an unknown part hides from its status, though not from
\* its count, that the recorded part is over the budget.
ASSUME UnknownHidesExcess ==
    /\ \A r \in Row :
        LET w == V!WorkflowSummary(r, 2)
        IN /\ w.status = "ok" => w.over = 0
           /\ w.status = "exceeded" <=> w.over = 1 /\ w.unknown = 0
    /\ \E r \in Row : V!WorkflowSummary(r, 2).status = "unknown" /\ V!WorkflowSummary(r, 2).over = 1

-----------------------------------------------------------------------------
StatusRow == [started : 20 .. 25, status : {"running", "succeeded"}]
StatusTables == {t \in UNION {[1 .. n -> StatusRow] : n \in 1 .. 3} : Ordered(t)}

\* The run shown as stale, the one counted as stale and the one an operator may
\* close are the same; the listing lags behind by those that are just old enough.
ASSUME StaleViewsAgree ==
    /\ \A t \in StatusTables :
        LET stale == {i \in DOMAIN t : V!Reconcilable(t[i], Now)}
            listed == V!ListedStale(t, Now, 3)
        IN /\ stale = {i \in DOMAIN t : V!ShownStale(t[i], Now)}
           /\ V!Metrics(t, Now).stale = Cardinality(stale)
           /\ {listed[k] : k \in DOMAIN listed} = {t[i] : i \in {i \in stale : t[i].started # 22}}
           /\ \A k \in 1 .. Len(listed) - 1 : listed[k].started <= listed[k + 1].started
    /\ \E t \in StatusTables : V!ListedStale(t, Now, 3) = <<>> /\ V!Metrics(t, Now).stale > 0

Systems ==
    [database : BOOLEAN, migration : BOOLEAN, vector : BOOLEAN, openai : BOOLEAN,
     mode : {"mock", "live"}, notion : {"mock", "live", "none"},
     queueRequired : BOOLEAN, queue : {"none", "down", "up", "scheduled"}]

\* What /status calls ready is ready, and it asks for no more than Notion.
ASSUME StatusTellsReadiness ==
    \A sys \in Systems :
        V!Ready(V!StatusChecks(sys)) <=> V!Ready(V!Checks(sys)) /\ sys.notion # "none"
=============================================================================
