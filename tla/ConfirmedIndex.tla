--------------------------- MODULE ConfirmedIndex ---------------------------
(***************************************************************************)
(* What the confirmation of an index operation promises: nothing is read   *)
(* or replaced before the owner confirms, the pages are those confirmed,   *)
(* one run comes of one confirmation, and none of a cancelled one.         *)
(***************************************************************************)
CONSTANTS
    Pages,   \* the pages of the workspace
    Runs     \* the rows of workflow_runs

VARIABLES
    phase,      \* where the confirmation is
    scope,      \* the pages it asks for
    runs,       \* the runs that were opened for it
    committed   \* the pages whose index they have replaced

vars == <<phase, scope, runs, committed>>

Init ==
    /\ phase = "none"
    /\ scope = {}
    /\ runs = {}
    /\ committed = {}

\* The scope of a full index is the workspace; that of a sync is selected.
Offer ==
    /\ phase = "none"
    /\ phase' = "offered"
    /\ scope' \in {{}, Pages}
    /\ UNCHANGED <<runs, committed>>

Select ==
    /\ phase = "offered"
    /\ scope' \in SUBSET Pages
    /\ UNCHANGED <<phase, runs, committed>>

Decide ==
    /\ phase = "offered"
    /\ phase' \in {"taken", "cancelled"}
    /\ UNCHANGED <<scope, runs, committed>>

Start(r) ==
    /\ phase = "taken"
    /\ runs = {}
    /\ runs' = {r}
    /\ UNCHANGED <<phase, scope, committed>>

Commit(p) ==
    /\ runs # {}
    /\ p \in scope
    /\ committed' = committed \cup {p}
    /\ UNCHANGED <<phase, scope, runs>>

Next ==
    \/ Offer \/ Select \/ Decide
    \/ \E r \in Runs : Start(r)
    \/ \E p \in Pages : Commit(p)

Spec == Init /\ [][Next]_vars
=============================================================================
