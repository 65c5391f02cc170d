---------------------------- MODULE OperatorViews ----------------------------
(***************************************************************************)
(* What operators are shown of the workflow_runs table and of the system:  *)
(* cost and budgets (services/cost_budget.py), runs and the stale among    *)
(* them (services/workflow_observability.py, services/metrics.py), and     *)
(* readiness (services/readiness_service.py).  Nothing here writes.        *)
(*                                                                         *)
(* A run is a record of when it was started, its status, and the two costs *)
(* of its metadata; time is counted in some unit from an epoch.            *)
(***************************************************************************)
EXTENDS Naturals, Sequences, FiniteSetsExt, SequencesExt

CONSTANTS
    None,        \* no budget
    Absent,      \* the metadata has no such cost
    Unknown,     \* it has one without a price, or one that is no cost
    Day, Month,  \* in units of time; a month begins at its multiples
    StaleAfter   \* age from which a running workflow is stale

Floor(t, unit) == t - (t % unit)
Known(cost) == cost \notin {Absent, Unknown}

-----------------------------------------------------------------------------
(* Cost. *)

KnownPart(cost) == IF Known(cost) THEN cost ELSE 0
Total(r) == KnownPart(r.llm) + KnownPart(r.embedding)
HasUnknown(r) == Unknown \in {r.llm, r.embedding}
HasKnown(r) == Known(r.llm) \/ Known(r.embedding)

Listed(runs, select(_)) == {i \in DOMAIN runs : select(runs[i])}
SumOver(runs, I) == MapThenSumSet(LAMBDA i : Total(runs[i]), I)

\* The newest runs, as many as a listing may have.
Newest(runs, limit) == SubSeq(runs, 1, IF Len(runs) < limit THEN Len(runs) ELSE limit)

\* The runs whose recorded cost is over the budget for one.
OverBudget(runs, budget) ==
    Listed(runs, LAMBDA r : budget # None /\ HasKnown(r) /\ Total(r) > budget)

Status(total, unknown, budget) ==
    IF budget = None THEN "unconfigured"
    ELSE IF total > budget THEN "exceeded"
    ELSE IF unknown > 0 THEN "unknown" ELSE "ok"

\* The daily figures of the metrics and of the operator API.
DailySummary(runs, now, daily, each) ==
    LET today == Listed(runs, LAMBDA r : r.started >= Floor(now, Day))
        unknown == Cardinality(Listed(runs, HasUnknown) \cap today)
        total == SumOver(runs, today)
    IN [total |-> total, unknown |-> unknown, status |-> Status(total, unknown, daily),
        over |-> Cardinality(OverBudget(runs, each))]

ScopeStart(scope, now) ==
    CASE scope = "today" -> Floor(now, Day)
      [] scope = "7d"    -> IF now < 7 * Day THEN 0 ELSE now - 7 * Day
      [] scope = "month" -> Floor(now, Month)

\* The figures of /cost for a period: only that of today has a budget.
PeriodSummary(runs, scope, now, daily, each) ==
    LET scoped == SelectSeq(runs, LAMBDA r : r.started >= ScopeStart(scope, now))
        unknown == Cardinality(Listed(scoped, HasUnknown))
        total == SumOver(scoped, DOMAIN scoped)
    IN [total |-> total, unknown |-> unknown,
        status |-> IF scope = "today" THEN Status(total, unknown, daily) ELSE "not_applicable",
        over |-> Cardinality(OverBudget(scoped, each))]

\* What a recorded cost is to the budget of one workflow.
Decision(cost, each) ==
    IF cost = Unknown THEN "unknown"
    ELSE IF each = None THEN "unconfigured"
    ELSE IF cost > each THEN "exceeded" ELSE "ok"

\* The figures of /cost for one workflow.
WorkflowSummary(r, each) ==
    [total |-> Total(r), unknown |-> IF HasUnknown(r) THEN 1 ELSE 0,
     status |-> Decision(IF HasUnknown(r) THEN Unknown ELSE Total(r), each),
     over |-> Cardinality(OverBudget(<<r>>, each))]

-----------------------------------------------------------------------------
(* Runs. *)

Age(r, now) == IF r.started > now THEN 0 ELSE now - r.started

\* /workflow and the operator API mark a run as stale, and the metrics count it.
ShownStale(r, now) == r.status = "running" /\ Age(r, now) >= StaleAfter

\* The listing of stale runs: the oldest, as many as it may have.
ListedStale(runs, now, limit) ==
    LET stale == SelectSeq(runs, LAMBDA r : r.status = "running" /\ r.started + StaleAfter < now)
    IN Newest(Reverse(stale), limit)

\* An operator may close the run.
Reconcilable(r, now) == r.status = "running" /\ ~ (r.started + StaleAfter > now)

\* Runs by status, and the stale, as the metrics show them.
Metrics(runs, now) ==
    [count |-> [s \in {"running", "succeeded", "failed"} |->
                    Cardinality(Listed(runs, LAMBDA r : r.status = s))],
     stale |-> Cardinality(Listed(runs, LAMBDA r : ShownStale(r, now)))]

-----------------------------------------------------------------------------
(* Readiness.  A probe that raises has failed. *)

ModeReady(sys) == sys.mode # "live" \/ sys.openai

\* The readiness probe of a deployment.
Checks(sys) ==
    [database |-> sys.database, migration |-> sys.migration, vector |-> sys.vector,
     mode |-> ModeReady(sys),
     queue |-> sys.queueRequired => sys.queue = "scheduled"]

\* What /status shows.
StatusChecks(sys) ==
    [database |-> sys.database, migration |-> sys.migration, vector |-> sys.vector,
     provider |-> ModeReady(sys),
     notion |-> sys.notion \in {"mock", "live"},
     redis |-> sys.queueRequired => sys.queue \in {"up", "scheduled"},
     scheduler |-> sys.queueRequired => sys.queue = "scheduled"]

Ready(checks) == \A c \in DOMAIN checks : checks[c]
=============================================================================
