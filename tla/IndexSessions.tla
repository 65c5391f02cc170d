--------------------------- MODULE IndexSessions ---------------------------
(***************************************************************************)
(* One confirmation of /index-full or /sync, and the run that comes of it. *)
(*                                                                         *)
(*   - The session (telegram_index_session_store, telegram_sync_session_   *)
(*     store) is a Redis record changed under a lock, with a time to live. *)
(*     Its buttons are one-shot tokens; every picker has new ones.         *)
(*   - A press is a job of a worker: it claims its token, then the session.*)
(*   - A confirmed full index is queued as a job of its own when there is  *)
(*     a queue; any other confirmed index is run by the call that confirms *)
(*     it.  Pages are indexed one after the other, each in a transaction.  *)
(*   - The run is a row of workflow_runs.  An operator may reconcile a run *)
(*     that looks stale.                                                   *)
(***************************************************************************)
EXTENDS Naturals

CONSTANTS
    Pages,        \* the pages of the workspace
    Workers,      \* the processes that serve presses and run jobs
    Runs,         \* rows of workflow_runs
    MaxButtons,   \* bound: live buttons of one kind
    MaxFaults     \* bound: calls that break off and answers that are lost

ASSUME ConstantsAssumption == MaxButtons \in Nat \ {0} /\ MaxFaults \in Nat

VARIABLES
    kind,        \* "full" or "sync"
    queued,      \* is there a queue?
    session,     \* the record of the confirmation
    live,        \* has its key not expired?
    buttons,     \* how many live tokens each button has
    run,         \* the rows
    jobs,        \* the runs whose job is queued
    reconciling, \* the runs an operator has seen running and stale
    pc,          \* what each worker does next
    work,        \* its arguments and locals
    committed,   \* the pages whose index has been replaced for the session
    told,        \* what the owner was told
    faults       \* calls broken off and answers lost

\* Nothing in the code reads these: they record what was done and said.
history == <<committed, told>>
mode == <<kind, queued>>
vars == <<mode, session, live, buttons, run, jobs, reconciling, pc, work, history, faults>>

-----------------------------------------------------------------------------
Buttons == {"confirm", "cancel"}
Outcomes == {"succeeded", "failed", "partially_failed"}

\* A full index waits in "warning", a sync in "selecting": one name for both.
Sessions ==
    [state : {"none", "offered", "cancelled", "processing", "running"} \cup Outcomes,
     pages : SUBSET Pages, selected : SUBSET Pages]

\* The metadata of a row names the pages done, the page that failed and the
\* pages left; "by" is who closed it.
Rows ==
    [status : {"none", "running", "succeeded", "failed"},
     done : SUBSET Pages, failed : SUBSET Pages, left : SUBSET Pages,
     by : {"nobody", "worker", "queue", "operator"}]

NoRow == [status |-> "none", done |-> {}, failed |-> {}, left |-> {}, by |-> "nobody"]

\* What a call knows: its run, whether the call itself goes on to answer the
\* owner, the pages it found, and those it has indexed.
Locals ==
    [runs : SUBSET Runs, answers : BOOLEAN, found : SUBSET Pages,
     done : SUBSET Pages, failed : SUBSET Pages, outcome : Outcomes]

NoLocals == [runs |-> {}, answers |-> FALSE, found |-> {}, done |-> {}, failed |-> {},
             outcome |-> "failed"]

Steps == {"idle", "confirm", "cancel", "start", "mark", "enqueue", "refuse", "refused",
          "discover", "index", "fail", "read", "complete"}
Replies == {"cancelled", "succeeded", "failed", "partially_failed", "unavailable"}

TypeOK ==
    /\ kind \in {"full", "sync"} /\ queued \in BOOLEAN
    /\ session \in Sessions /\ live \in BOOLEAN
    /\ buttons \in [Buttons -> Nat]
    /\ run \in [Runs -> Rows]
    /\ jobs \subseteq Runs /\ reconciling \subseteq Runs
    /\ pc \in [Workers -> Steps]
    /\ work \in [Workers -> Locals]
    /\ committed \subseteq Pages /\ told \subseteq Replies
    /\ faults \in Nat

Init ==
    /\ kind \in {"full", "sync"} /\ queued \in BOOLEAN
    /\ session = [state |-> "none", pages |-> {}, selected |-> {}]
    /\ live = FALSE
    /\ buttons = [b \in Buttons |-> 0]
    /\ run = [r \in Runs |-> NoRow]
    /\ jobs = {} /\ reconciling = {}
    /\ pc = [w \in Workers |-> "idle"]
    /\ work = [w \in Workers |-> NoLocals]
    /\ committed = {} /\ told = {}
    /\ faults = 0

Goto(w, step) == pc' = [pc EXCEPT ![w] = step]
Return(w) == Goto(w, "idle") /\ work' = [work EXCEPT ![w] = NoLocals]

-----------------------------------------------------------------------------
(* The command, and the buttons it offers. *)

Add(n) == IF n < MaxButtons THEN n + 1 ELSE n

\* A picker has a confirm button once a page is selected; a warning always has.
\* Beyond the bound, the oldest token has expired.
Render(selected) ==
    buttons' = [buttons EXCEPT
        !["confirm"] = IF kind = "full" \/ selected # {} THEN Add(@) ELSE @,
        !["cancel"] = Add(@)]

\* What the reader lists: the pages it may read by now, which need not be all.
\* The pages of a sync are discovered before the session is made; none, or an
\* error of the discovery, and there is no session.
Listings == SUBSET Pages
Discovered == {found \in Listings : (kind = "sync") = (found # {})}

Offer ==
    /\ session.state = "none"
    /\ \E found \in Discovered :
         session' = [state |-> "offered", pages |-> found, selected |-> {}]
    /\ live' = TRUE
    /\ Render({})
    /\ UNCHANGED <<mode, run, jobs, reconciling, pc, work, history, faults>>

Toggled(p) ==
    IF p \in session.selected THEN session.selected \ {p} ELSE session.selected \cup {p}

\* Mutant: pages may be selected while the sync is processed.
ToggleLate(p) ==
    /\ kind = "sync" /\ live
    /\ session.state \in {"offered", "processing"}
    /\ p \in session.pages
    /\ session' = [session EXCEPT !.selected = Toggled(p)]
    /\ Render(Toggled(p))
    /\ UNCHANGED <<mode, live, run, jobs, reconciling, pc, work, history, faults>>

\* A toggle shows a new picker; the buttons of the old ones stay.
Toggle(p) ==
    /\ kind = "sync" /\ live
    /\ session.state = "offered"
    /\ p \in session.pages
    /\ session' = [session EXCEPT !.selected = Toggled(p)]
    /\ Render(Toggled(p))
    /\ UNCHANGED <<mode, live, run, jobs, reconciling, pc, work, history, faults>>

\* A token that is gone, or expired, resolves to no action.
Resolvable(b) == buttons[b] > 0
ClaimCallback(b) == buttons' = [buttons EXCEPT ![b] = @ - 1]

\* A press claims its token, and goes to the branch of its button.
Press(w, b) ==
    /\ pc[w] = "idle"
    /\ Resolvable(b)
    /\ ClaimCallback(b)
    /\ Goto(w, b)
    /\ UNCHANGED <<mode, session, live, run, jobs, reconciling, work, history, faults>>

-----------------------------------------------------------------------------
(* The press. *)

\* Every change of the record reads it under its lock; one that is gone stays so.
Become(state) == session' = IF live THEN [session EXCEPT !.state = state] ELSE session

\* Whatever state the session is in, the owner reads that it was cancelled.
Cancel(w) ==
    /\ pc[w] = "cancel"
    /\ IF session.state = "offered" THEN Become("cancelled") ELSE UNCHANGED session
    /\ told' = IF live THEN told \cup {"cancelled"} ELSE told
    /\ Return(w)
    /\ UNCHANGED <<mode, live, buttons, run, jobs, reconciling, committed, faults>>

Confirmable == live /\ session.state = "offered" /\ (kind = "sync" => session.selected # {})

\* Mutant: the state is not checked by the claim.
ConfirmAgain(w) ==
    /\ pc[w] = "confirm"
    /\ IF live /\ session.state \in {"offered", "processing"}
       THEN /\ session' = [session EXCEPT !.state = "processing"]
            /\ work' = [work EXCEPT ![w].answers = TRUE, ![w].found = session.selected]
            /\ Goto(w, "start")
       ELSE UNCHANGED session /\ Return(w)
    /\ UNCHANGED <<mode, live, buttons, run, jobs, reconciling, history, faults>>

\* The selection is read with the claim.  A session that is missing, empty or
\* already claimed is only answered.
Confirm(w) ==
    /\ pc[w] = "confirm"
    /\ IF Confirmable
       THEN /\ session' = [session EXCEPT !.state = "processing"]
            /\ work' = [work EXCEPT ![w].answers = TRUE, ![w].found = session.selected]
            /\ Goto(w, "start")
       ELSE UNCHANGED session /\ Return(w)
    /\ UNCHANGED <<mode, live, buttons, run, jobs, reconciling, history, faults>>

Start(w) ==
    /\ pc[w] = "start"
    /\ \E r \in Runs : run[r].status = "none"
    /\ LET r == CHOOSE r \in Runs : run[r].status = "none" IN
         /\ run' = [run EXCEPT ![r].status = "running"]
         /\ work' = [work EXCEPT ![w].runs = {r}]
    /\ Goto(w, IF kind = "sync" THEN "index" ELSE IF queued THEN "mark" ELSE "discover")
    /\ UNCHANGED <<mode, session, live, buttons, jobs, reconciling, history, faults>>

\* The session is marked before the job is queued.  Either may raise, the
\* second with the job queued after all.
MarkQueued(w) ==
    /\ pc[w] = "mark"
    /\ Become("running")
    /\ Goto(w, "enqueue")
    /\ UNCHANGED <<mode, live, buttons, run, jobs, reconciling, work, history, faults>>

Enqueue(w) ==
    /\ pc[w] = "enqueue"
    /\ jobs' = jobs \cup work[w].runs
    /\ Return(w)
    /\ UNCHANGED <<mode, session, live, buttons, run, reconciling, history, faults>>

QueueRaises(w) ==
    /\ pc[w] \in {"mark", "enqueue"}
    /\ faults < MaxFaults
    /\ faults' = faults + 1
    /\ \/ UNCHANGED jobs
       \/ pc[w] = "enqueue" /\ jobs' = jobs \cup work[w].runs
    /\ Goto(w, "refuse")
    /\ UNCHANGED <<mode, session, live, buttons, run, reconciling, work, history>>

Close(w, row) == run' = [r \in Runs |-> IF r \in work[w].runs THEN row ELSE run[r]]

\* The failed enqueue closes the row, or loses that write in silence, ...
CloseRefused(w) ==
    /\ pc[w] = "refuse"
    /\ \/ Close(w, [NoRow EXCEPT !.status = "failed", !.by = "queue"]) /\ UNCHANGED faults
       \/ faults < MaxFaults /\ faults' = faults + 1 /\ UNCHANGED run
    /\ Goto(w, "refused")
    /\ UNCHANGED <<mode, session, live, buttons, jobs, reconciling, work, history>>

\* Mutant: what the owner is told becomes the state.
RefuseByName(w) ==
    /\ pc[w] = "refused"
    /\ Become("unavailable")
    /\ told' = told \cup {"unavailable"}
    /\ Return(w)
    /\ UNCHANGED <<mode, live, buttons, run, jobs, reconciling, committed, faults>>

\* ... and then the session.
Refuse(w) ==
    /\ pc[w] = "refused"
    /\ Become("failed")
    /\ told' = told \cup {"unavailable"}
    /\ Return(w)
    /\ UNCHANGED <<mode, live, buttons, run, jobs, reconciling, committed, faults>>

-----------------------------------------------------------------------------
(* The run. *)

\* The queued job of a full index; RQ does not run it again.
StartJob(w, r) ==
    /\ pc[w] = "idle"
    /\ r \in jobs
    /\ jobs' = jobs \ {r}
    /\ work' = [work EXCEPT ![w].runs = {r}]
    /\ Goto(w, "discover")
    /\ UNCHANGED <<mode, session, live, buttons, run, reconciling, history, faults>>

Discover(w) ==
    /\ pc[w] = "discover"
    /\ \/ \E found \in Listings :
            work' = [work EXCEPT ![w].found = found] /\ Goto(w, "index")
       \/ Goto(w, "fail") /\ UNCHANGED work
    /\ UNCHANGED <<mode, session, live, buttons, run, jobs, reconciling, history, faults>>

Todo(w) == work[w].found \ work[w].done

\* One page: read, chunked, embedded, and replaced in one transaction.
IndexPage(w, p) ==
    /\ pc[w] = "index"
    /\ p \in Todo(w)
    /\ committed' = committed \cup {p}
    /\ work' = [work EXCEPT ![w].done = @ \cup {p}]
    /\ UNCHANGED <<mode, session, live, buttons, run, jobs, reconciling, pc, told, faults>>

\* Mutant: a page that failed is passed over, and counted.
PageFailsAndGoesOn(w, p) ==
    /\ pc[w] = "index"
    /\ p \in Todo(w)
    /\ work' = [work EXCEPT ![w].done = @ \cup {p}]
    /\ UNCHANGED <<mode, session, live, buttons, run, jobs, reconciling, pc, history, faults>>

\* Any error of a page ends the loop.  The answer of its commit may be lost.
PageFails(w, p) ==
    /\ pc[w] = "index"
    /\ p \in Todo(w)
    /\ \/ UNCHANGED <<committed, faults>>
       \/ /\ faults < MaxFaults /\ faults' = faults + 1
          /\ committed' = committed \cup {p}
    /\ work' = [work EXCEPT ![w].failed = {p}]
    /\ Goto(w, "fail")
    /\ UNCHANGED <<mode, session, live, buttons, run, jobs, reconciling, told>>

SucceededRow(w) == [NoRow EXCEPT !.status = "succeeded", !.done = work[w].done, !.by = "worker"]
FailedRow(w) ==
    [status |-> "failed", done |-> work[w].done, failed |-> work[w].failed,
     left |-> Todo(w) \ work[w].failed, by |-> "worker"]

Answer(w, outcome) ==
    IF work[w].answers
    THEN Goto(w, "complete") /\ work' = [work EXCEPT ![w].outcome = outcome]
    ELSE Return(w)

\* When the audit raises, applied or not, nobody completes the session.
Succeed(w) ==
    /\ pc[w] = "index"
    /\ Todo(w) = {}
    /\ \/ Close(w, SucceededRow(w)) /\ Answer(w, "succeeded") /\ UNCHANGED faults
       \/ /\ faults < MaxFaults /\ faults' = faults + 1
          /\ Close(w, SucceededRow(w)) \/ UNCHANGED run
          /\ Return(w)
    /\ UNCHANGED <<mode, session, live, buttons, jobs, reconciling, history>>

\* Mutant: the error leaves the call, and nobody completes the session.
FailAndRaise(w) ==
    /\ pc[w] = "fail"
    /\ Close(w, FailedRow(w))
    /\ Return(w)
    /\ UNCHANGED <<mode, session, live, buttons, jobs, reconciling, history, faults>>

\* A write that fails here is swallowed.
Fail(w) ==
    /\ pc[w] = "fail"
    /\ \/ Close(w, FailedRow(w)) /\ UNCHANGED faults
       \/ faults < MaxFaults /\ faults' = faults + 1 /\ UNCHANGED run
    /\ IF work[w].answers THEN Goto(w, "read") /\ UNCHANGED work ELSE Return(w)
    /\ UNCHANGED <<mode, session, live, buttons, jobs, reconciling, history>>

Some(w) == \E r \in work[w].runs : run[r].done # {}

\* Mutant: the counts are not read.
ReadNoCounts(w) ==
    /\ pc[w] = "read"
    /\ Answer(w, "failed")
    /\ UNCHANGED <<mode, session, live, buttons, run, jobs, reconciling, history, faults>>

\* How much was done is read back from the row.
ReadCounts(w) ==
    /\ pc[w] = "read"
    /\ Answer(w, IF Some(w) THEN "partially_failed" ELSE "failed")
    /\ UNCHANGED <<mode, session, live, buttons, run, jobs, reconciling, history, faults>>

Complete(w) ==
    /\ pc[w] = "complete"
    /\ Become(work[w].outcome)
    /\ told' = told \cup {work[w].outcome}
    /\ Return(w)
    /\ UNCHANGED <<mode, live, buttons, run, jobs, reconciling, committed, faults>>

-----------------------------------------------------------------------------
(* Operators, and what goes wrong. *)

\* An hour makes a run stale.  A job of a press has three minutes, the job of a
\* full index has three hours, and without a queue nothing limits a call.
Stale(r) == kind = "full" \/ ~queued \/ \A w \in Workers : r \notin work[w].runs

\* The status is read without a lock, ...
ReadStale(r) ==
    /\ run[r].status = "running"
    /\ Stale(r)
    /\ reconciling' = reconciling \cup {r}
    /\ UNCHANGED <<mode, session, live, buttons, run, jobs, pc, work, history, faults>>

Verdicts == {[NoRow EXCEPT !.status = v, !.by = "operator"] : v \in {"succeeded", "failed"}}

\* ... and the row written by its key, its metadata replaced.
WriteVerdict(r) ==
    /\ r \in reconciling
    /\ reconciling' = reconciling \ {r}
    /\ \E verdict \in Verdicts : run' = [run EXCEPT ![r] = verdict]
    /\ UNCHANGED <<mode, session, live, buttons, jobs, pc, work, history, faults>>

\* A process dies, or its call ends in an error nobody handles: the timeout of
\* the job of a sync is one.
Break(w) ==
    /\ pc[w] # "idle"
    /\ faults < MaxFaults
    /\ faults' = faults + 1
    /\ Return(w)
    /\ UNCHANGED <<mode, session, live, buttons, run, jobs, reconciling, history>>

\* The key expires, also under a run; its last state is kept here.
Expire ==
    /\ live
    /\ live' = FALSE
    /\ UNCHANGED <<mode, session, buttons, run, jobs, reconciling, pc, work, history, faults>>

-----------------------------------------------------------------------------
Advance(w) ==
    \/ Cancel(w) \/ Confirm(w) \/ Start(w)
    \/ MarkQueued(w) \/ Enqueue(w) \/ CloseRefused(w) \/ Refuse(w)
    \/ Discover(w) \/ (\E p \in Pages : IndexPage(w, p) \/ PageFails(w, p))
    \/ Succeed(w) \/ Fail(w) \/ ReadCounts(w) \/ Complete(w)

Next ==
    \/ Offer \/ Expire
    \/ \E p \in Pages : Toggle(p)
    \/ \E w \in Workers :
         \/ \E b \in Buttons : Press(w, b)
         \/ \E r \in Runs : StartJob(w, r)
         \/ Advance(w) \/ QueueRaises(w) \/ Break(w)
    \/ \E r \in Runs : ReadStale(r) \/ WriteVerdict(r)

Spec == Init /\ [][Next]_vars

\* A call that has begun goes on, and the queue is first in, first out.
Fairness ==
    /\ \A w \in Workers : WF_vars(Advance(w))
    /\ \A r \in Runs : SF_vars(\E w \in Workers : StartJob(w, r))

FairSpec == Spec /\ Fairness

-----------------------------------------------------------------------------
(* Properties. *)

\* The row of a run that its worker closed tells what became of each page: the
\* pages done are committed, those left were not touched, and no other page
\* was, but for one whose commit was applied and reported as failed
\* (index_all, sync_pages: "later pages are not attempted").
RowTellsTruth ==
    \A r \in Runs : run[r].by = "worker" =>
        /\ run[r].done \subseteq committed
        /\ committed \subseteq run[r].done \cup run[r].failed
        /\ faults = 0 => run[r].failed \cap committed = {}
        /\ run[r].status = "succeeded" /\ kind = "sync" => run[r].done = session.selected

\* The owner who reads that nothing, some or all of it was indexed reads the
\* truth, unless a write was lost or an operator replaced the row in between.
RepliesTellTruth ==
    faults = 0 /\ (\A r \in Runs : run[r].by # "operator") =>
        /\ "failed" \in told => committed = {}
        /\ "partially_failed" \in told => committed # {}
        /\ "succeeded" \in told /\ kind = "sync" => committed = session.selected

Phase ==
    CASE session.state \in {"none", "offered", "cancelled"} -> session.state
      [] OTHER -> "taken"

Confirmed == INSTANCE ConfirmedIndex
    WITH phase <- Phase,
         scope <- IF session.state # "none" /\ kind = "full" THEN Pages ELSE session.selected,
         runs <- {r \in Runs : run[r].status # "none"}

\* However often and wherever it is pressed, a confirmation opens one run over
\* the pages it was given for; a cancelled one opens none (claim_confirm,
\* claim_full_index: "Duplicate or expired callbacks fail safely").
ImplementsConfirmed == Confirmed!Spec

\* A run that was opened is closed, and its session with it unless the run has a
\* job of its own, as long as nothing breaks off.
ConfirmedIndexEnds ==
    /\ \A r \in Runs : run[r].status = "running" ~> (run[r].status # "running" \/ faults > 0)
    /\ session.state = "processing" ~> (session.state # "processing" \/ faults > 0 \/ ~live)
=============================================================================
