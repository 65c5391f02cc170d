--------------------------- MODULE TelegramUpdates --------------------------
(***************************************************************************)
(* One Telegram update from its webhook deliveries to a terminal row of    *)
(* the update ledger.                                                      *)
(*                                                                         *)
(*   - Telegram delivers an update any number of times; a delivery claims  *)
(*     the ledger row or replays it (telegram_update_idempotency.py), and  *)
(*     the owner enqueues one RQ job or, with no queue configured, runs    *)
(*     the update itself (telegram_gateway_orchestrator.py).               *)
(*   - An attempt of the job writes a workflow_runs row, does the work,    *)
(*     sends the reply, closes the row and then closes the ledger.  RQ     *)
(*     runs the job again when it raises or when its process dies.         *)
(*   - A press of an operator button first takes the token of the button   *)
(*     out of Redis; without the token no attempt works.                   *)
(*   - An operator may turn the failed outcome of committed work whose     *)
(*     reply was not delivered into a success (telegram_recovery.py).      *)
(*                                                                         *)
(* A delivery and the job it enqueues have one name.  Every statement on   *)
(* PostgreSQL can fail, because the server is away for a moment.           *)
(*                                                                         *)
(* A claimed ledger row is closed in two steps, its transaction reads it   *)
(* without a lock and later writes the columns that are to differ from     *)
(* what it read, so the columns of two overlapping closes can mix.         *)
(***************************************************************************)
EXTENDS Naturals

CONSTANTS
    Updates,     \* update_ids
    Presses,     \* the updates that press one operator button
    Deliveries,  \* webhook requests, each with the job it may enqueue
    Operators,   \* operators who run the recovery script
    None,        \* no update, no row
    HasQueue,    \* is a queue client configured?
    MaxRetries   \* retries of the queue policy (two in the code)

ASSUME ConstantsAssumption ==
    /\ None \notin Updates
    /\ Presses \subseteq Updates
    /\ HasQueue \in BOOLEAN
    /\ MaxRetries \in Nat

VARIABLES
    ledger,    \* telegram_update_ledger: status, failure reason, workflow run
    run,       \* the workflow_runs row of each attempt
    work,      \* how often the work of an update has been committed
    pc,        \* what each webhook request does next
    update,    \* the update a request delivers
    job,       \* what each job does next
    attempt,   \* the attempts of a job that have started
    failure,   \* how the current attempt fails, if it does
    opc,       \* the row an operator has found eligible, with its update
    read,      \* the ledger row each open transaction of a closer has read
    token      \* is the token of the button still in Redis?

rowVars == <<ledger, run, work>>
requestVars == <<pc, update>>
jobVars == <<job, attempt, failure>>
vars == <<rowVars, requestVars, jobVars, opc, read, token>>

-----------------------------------------------------------------------------
Attempts == 1 .. MaxRetries + 1
Rows == [job : Deliveries, attempt : Attempts]
NoRow == [job |-> None, attempt |-> 0]

Reasons == {"none", "delivery", "other"}
LedgerRows == [status : {"none", "running", "succeeded", "failed"},
               reason : Reasons, run : Rows \cup {NoRow}]
Unclaimed == [status |-> "none", reason |-> "none", run |-> NoRow]
Claimed == [status |-> "running", reason |-> "none", run |-> NoRow]

\* A run that failed for a delivery reason says so.
RunStatus == {"none", "running", "succeeded", "failed", "undelivered"}

\* Who closes ledger rows: the request, its job and an operator.
RequestOf(d) == <<"request", d>>
JobOf(d) == <<"job", d>>
OperatorOf(o) == <<"operator", o>>
Closers == ({"request", "job"} \X Deliveries) \cup ({"operator"} \X Operators)

\* "raw" is any exception but TelegramGatewayError; gateway errors carry the
\* failure reason, of which the recovery script only tells delivery failures.
Failures == [raw : BOOLEAN, reason : Reasons]
NoFailure == [raw |-> FALSE, reason |-> "none"]

RequestSteps == {"new", "insert", "enqueue", "refuse", "done"}
JobSteps == {"none", "queued", "resolve", "claim", "work", "reply", "audit", "ledger",
             "failRun", "failLedger", "returned", "raised", "over"}
Running == JobSteps \ {"none", "queued", "over"}

TypeOK ==
    /\ ledger \in [Updates -> LedgerRows]
    /\ run \in [Rows -> RunStatus]
    /\ work \in [Updates -> Nat]
    /\ pc \in [Deliveries -> RequestSteps]
    /\ update \in [Deliveries -> Updates \cup {None}]
    /\ job \in [Deliveries -> JobSteps]
    /\ attempt \in [Deliveries -> 0 .. MaxRetries + 1]
    /\ failure \in [Deliveries -> Failures]
    /\ opc \in [Operators -> [update : Updates \cup {None}, run : Rows \cup {NoRow}]]
    /\ read \in [Closers -> LedgerRows]
    /\ token \in BOOLEAN

Idle == [update |-> None, run |-> NoRow]

Init ==
    /\ ledger = [u \in Updates |-> Unclaimed]
    /\ run = [n \in Rows |-> "none"]
    /\ work = [u \in Updates |-> 0]
    /\ pc = [d \in Deliveries |-> "new"]
    /\ update = [d \in Deliveries |-> None]
    /\ job = [d \in Deliveries |-> "none"]
    /\ attempt = [d \in Deliveries |-> 0]
    /\ failure = [d \in Deliveries |-> NoFailure]
    /\ opc = [o \in Operators |-> Idle]
    /\ read = [c \in Closers |-> Unclaimed]
    /\ token = TRUE

Respond(d, step) == pc' = [pc EXCEPT ![d] = step]
Goto(d, step) == job' = [job EXCEPT ![d] = step]

\* The workflow_runs row of the current attempt.
Row(d) == [job |-> d, attempt |-> attempt[d]]

\* A closer reads the row it is to close, without a lock.
ReadLedger(c, u) ==
    /\ read[c] = Unclaimed
    /\ read' = [read EXCEPT ![c] = ledger[u]]

\* A row of a claimed update never reads as unclaimed.
HasRead(c) == read[c] # Unclaimed

\* A transaction commits, rolls back or dies with its process.
EndRead(c) == read' = [read EXCEPT ![c] = Unclaimed]

\* A column is written if it is to differ from what was read.
Column(new, seen, old) == IF new # seen THEN new ELSE old

\* Closing a row by primary key, whatever has been written since it was read.
\* Two failures of one reason may be worded differently.
WriteLedger(c, u, new) ==
    \E reason \in {Column(new.reason, read[c].reason, ledger[u].reason)}
                   \cup ({new.reason} \ {"none"}) :
        ledger' = [ledger EXCEPT ![u] =
            [status |-> Column(new.status, read[c].status, @.status),
             reason |-> reason,
             run |-> Column(new.run, read[c].run, @.run)]]

Success(n) == [status |-> "succeeded", reason |-> "none", run |-> n]
Failure(reason, n) == [status |-> "failed", reason |-> reason, run |-> n]

-----------------------------------------------------------------------------
(* The webhook request. *)

\* A row that exists is replayed: its outcome, or "still running".
Deliver(d, u) ==
    /\ pc[d] = "new"
    /\ update' = [update EXCEPT ![d] = u]
    /\ Respond(d, IF ledger[u].status = "none" THEN "insert" ELSE "done")
    /\ UNCHANGED <<rowVars, jobVars, opc, read, token>>

\* Mutant: the insert overwrites the row of another delivery.
InsertAnyway(d) ==
    /\ pc[d] = "insert"
    /\ ledger' = [ledger EXCEPT ![update[d]] = Claimed]
    /\ Respond(d, "enqueue")
    /\ UNCHANGED <<run, work, update, jobVars, opc, read, token>>

\* The primary key decides between deliveries that both found no row; the
\* loser replays the row of the winner.
Insert(d) ==
    /\ pc[d] = "insert"
    /\ IF ledger[update[d]].status = "none"
       THEN /\ ledger' = [ledger EXCEPT ![update[d]] = Claimed]
            /\ Respond(d, "enqueue")
       ELSE /\ Respond(d, "done")
            /\ UNCHANGED ledger
    /\ UNCHANGED <<run, work, update, jobVars, opc, read, token>>

\* The job reaches Redis, and the request is answered 202 or the answer of
\* Redis is lost.  With no queue the request runs the update itself.
Enqueue(d) ==
    /\ pc[d] = "enqueue"
    /\ Goto(d, "queued")
    /\ \/ Respond(d, "done")
       \/ HasQueue /\ Respond(d, "refuse")
    /\ UNCHANGED <<rowVars, update, attempt, failure, opc, read, token>>

EnqueueFails(d) ==
    /\ pc[d] = "enqueue"
    /\ HasQueue
    /\ Respond(d, "refuse")
    /\ UNCHANGED <<rowVars, update, jobVars, opc, read, token>>

ReadToRefuse(d) ==
    /\ pc[d] = "refuse"
    /\ ReadLedger(RequestOf(d), update[d])
    /\ UNCHANGED <<rowVars, requestVars, jobVars, opc, token>>

\* TELEGRAM_QUEUE_UNAVAILABLE is written to the ledger, if that succeeds.  The
\* job may be at work: the answer of Redis was lost, and not the job.
Refuse(d) ==
    /\ pc[d] = "refuse"
    /\ HasRead(RequestOf(d))
    /\ \/ WriteLedger(RequestOf(d), update[d], Failure("other", NoRow))
       \/ UNCHANGED ledger
    /\ EndRead(RequestOf(d))
    /\ Respond(d, "done")
    /\ UNCHANGED <<run, work, update, jobVars, opc, token>>

\* The API process dies, or PostgreSQL refuses the claim.
RequestDies(d) ==
    /\ pc[d] \in {"insert", "enqueue", "refuse"}
    /\ EndRead(RequestOf(d))
    /\ Respond(d, "done")
    /\ UNCHANGED <<rowVars, update, jobVars, opc, token>>

-----------------------------------------------------------------------------
(* An attempt of the job.  What the ledger says decides nothing. *)

\* The row of the attempt is created, or that raises, before the handler's
\* try block.
Start(d) ==
    /\ job[d] = "queued"
    /\ attempt' = [attempt EXCEPT ![d] = @ + 1]
    /\ \/ /\ run' = [run EXCEPT ![[job |-> d, attempt |-> attempt[d] + 1]] = "running"]
          /\ UNCHANGED failure
          /\ Goto(d, IF update[d] \in Presses THEN "resolve" ELSE "work")
       \/ /\ failure' = [failure EXCEPT ![d] = [raw |-> TRUE, reason |-> "other"]]
          /\ Goto(d, "failLedger")
          /\ UNCHANGED run
    /\ UNCHANGED <<ledger, work, requestVars, opc, read, token>>

\* INVALID_CALLBACK, or Redis is away.
RefusePress(d) ==
    /\ failure' = [failure EXCEPT ![d].reason = "other"]
    /\ Goto(d, "failRun")

\* The button is looked up and validated, and keeps its token.
Resolve(d) ==
    /\ job[d] = "resolve"
    /\ \/ token /\ Goto(d, "claim") /\ UNCHANGED failure
       \/ RefusePress(d)
    /\ UNCHANGED <<rowVars, requestVars, attempt, opc, read, token>>

\* The press is acknowledged; nothing depends on whether that arrives.
Acknowledge(d) == Goto(d, "work") /\ UNCHANGED failure

\* Mutant: whoever has resolved the button may go on.
ClaimResolved(d) ==
    /\ job[d] = "claim"
    /\ token' = FALSE
    /\ Acknowledge(d)
    /\ UNCHANGED <<rowVars, requestVars, attempt, opc, read>>

\* One script takes the token out of Redis; its answer may be lost.
Claim(d) ==
    /\ job[d] = "claim"
    /\ \/ token /\ token' = FALSE /\ Acknowledge(d)
       \/ token' \in {token, FALSE} /\ RefusePress(d)
    /\ UNCHANGED <<rowVars, requestVars, attempt, opc, read>>

\* The command, the button or the upload is carried out by its orchestrator.
CarryOut(d) == work' = [work EXCEPT ![update[d]] = @ + 1]

\* The work commits, or ends in an error that the handler converts to a
\* gateway error: a refused command, a failed tool, a job timeout.  Committed
\* work whose own workflow run cannot be closed raises past the handler.
Work(d) ==
    /\ job[d] = "work"
    /\ \/ CarryOut(d) /\ Goto(d, "reply") /\ UNCHANGED failure
       \/ /\ CarryOut(d)
          /\ failure' = [failure EXCEPT ![d] = [raw |-> TRUE, reason |-> "other"]]
          /\ Goto(d, "failLedger")
       \/ /\ failure' = [failure EXCEPT ![d].reason = "other"]
          /\ Goto(d, "failRun")
          /\ UNCHANGED work
    /\ UNCHANGED <<ledger, run, requestVars, attempt, opc, read, token>>

\* Telegram refuses the reply, or the attempt fails while it is sent.
Reply(d) ==
    /\ job[d] = "reply"
    /\ \/ Goto(d, "audit") /\ UNCHANGED failure
       \/ \E reason \in {"delivery", "other"} :
            /\ failure' = [failure EXCEPT ![d].reason = reason]
            /\ Goto(d, "failRun")
    /\ UNCHANGED <<rowVars, requestVars, attempt, opc, read, token>>

\* A row that cannot be closed raises the same WorkflowRunAuditUpdateError, the
\* one error the handler does not convert.
Audit(d) ==
    /\ job[d] = "audit"
    /\ \/ /\ run' = [run EXCEPT ![Row(d)] = "succeeded"]
          /\ Goto(d, "ledger")
          /\ UNCHANGED failure
       \/ /\ failure' = [failure EXCEPT ![d] = [raw |-> TRUE, reason |-> "other"]]
          /\ Goto(d, "failLedger")
          /\ UNCHANGED run
    /\ UNCHANGED <<ledger, work, requestVars, attempt, opc, read, token>>

ReadToClose(d) ==
    /\ job[d] \in {"ledger", "failLedger"}
    /\ ReadLedger(JobOf(d), update[d])
    /\ UNCHANGED <<rowVars, requestVars, jobVars, opc, token>>

\* A ledger that cannot be closed is a gateway error: the job completes.
MarkSucceeded(d) ==
    /\ job[d] = "ledger"
    /\ HasRead(JobOf(d))
    /\ \/ WriteLedger(JobOf(d), update[d], Success(Row(d)))
       \/ UNCHANGED ledger
    /\ EndRead(JobOf(d))
    /\ Goto(d, "returned")
    /\ UNCHANGED <<run, work, requestVars, attempt, failure, opc, token>>

\* The user is told what failed; the error stands whether that arrives or not.
NotifyUser(d) == Goto(d, "failLedger")

\* A row that cannot be marked failed stays running.
FailRun(d) ==
    /\ job[d] = "failRun"
    /\ \/ run' = [run EXCEPT ![Row(d)] =
                       IF failure[d].reason = "delivery" THEN "undelivered" ELSE "failed"]
       \/ UNCHANGED run
    /\ NotifyUser(d)
    /\ UNCHANGED <<ledger, work, requestVars, attempt, failure, opc, read, token>>

\* The run an attempt names in the ledger: none if its row was not created.
NamedRun(d) == IF run[Row(d)] = "none" THEN NoRow ELSE Row(d)

\* The worker returns gateway errors as a completed job; what else is raised,
\* an error of this very write included, goes to RQ.
FailLedger(d) ==
    /\ job[d] = "failLedger"
    /\ HasRead(JobOf(d))
    /\ \/ /\ WriteLedger(JobOf(d), update[d], Failure(failure[d].reason, NamedRun(d)))
          /\ Goto(d, IF failure[d].raw THEN "raised" ELSE "returned")
       \/ /\ Goto(d, "raised")
          /\ UNCHANGED ledger
    /\ EndRead(JobOf(d))
    /\ UNCHANGED <<run, work, requestVars, attempt, failure, opc, token>>

-----------------------------------------------------------------------------
(* RQ.  A job that raised, or whose process died, runs again while retries *)
(* are left; nothing repeats a request that runs its update itself.        *)

Retries == IF HasQueue THEN MaxRetries ELSE 0

\* Mutant: the retries left are not looked at.
RetryAlways(d) ==
    /\ Goto(d, "queued")
    /\ UNCHANGED attempt

\* Mutant: every retry is enqueued as a new job.
RetryAfresh(d) ==
    /\ Goto(d, "queued")
    /\ attempt' = [attempt EXCEPT ![d] = 0]

Retry(d) ==
    /\ Goto(d, IF attempt[d] <= Retries THEN "queued" ELSE "over")
    /\ UNCHANGED attempt

\* What an attempt knows of its failure ends with it.
Forget(d) == failure' = [failure EXCEPT ![d] = NoFailure]

Raised(d) ==
    /\ job[d] = "raised"
    /\ Retry(d) /\ Forget(d)
    /\ UNCHANGED <<rowVars, requestVars, opc, read, token>>

Returned(d) ==
    /\ job[d] = "returned"
    /\ Goto(d, "over") /\ Forget(d)
    /\ UNCHANGED <<rowVars, requestVars, attempt, opc, read, token>>

WorkerDies(d) ==
    /\ job[d] \in Running
    /\ Retry(d) /\ Forget(d)
    /\ EndRead(JobOf(d))
    /\ UNCHANGED <<rowVars, requestVars, opc, token>>

-----------------------------------------------------------------------------
(* The recovery script, for work that is known to be committed. *)

\* The ledger names a failed run, and one of the two gives a delivery reason.
Eligible(u) ==
    /\ ledger[u].status = "failed"
    /\ ledger[u].run \in Rows
    /\ \/ run[ledger[u].run] = "undelivered"
       \/ run[ledger[u].run] = "failed" /\ ledger[u].reason = "delivery"

Inspect(o, u) ==
    /\ opc[o] = Idle
    /\ Eligible(u)
    /\ opc' = [opc EXCEPT ![o] = [update |-> u, run |-> ledger[u].run]]
    /\ UNCHANGED <<rowVars, requestVars, jobVars, read, token>>

\* The transaction that closes both rows looks at the status again, and not at
\* the run the ledger names.
ReadToReconcile(o) ==
    /\ opc[o] # Idle
    /\ ledger[opc[o].update].status = "failed"
    /\ ReadLedger(OperatorOf(o), opc[o].update)
    /\ UNCHANGED <<rowVars, requestVars, jobVars, opc, token>>

\* Mutant: the ledger is closed and the workflow run is not.
CloseLedger(o) ==
    /\ HasRead(OperatorOf(o))
    /\ WriteLedger(OperatorOf(o), opc[o].update, Success(opc[o].run))
    /\ UNCHANGED run

CloseBoth(o) ==
    /\ HasRead(OperatorOf(o))
    /\ run' = [run EXCEPT ![opc[o].run] = "succeeded"]
    /\ WriteLedger(OperatorOf(o), opc[o].update, Success(opc[o].run))

\* The preview of the proposal cannot be built or sent to the user again, the
\* ledger no longer says failed, or the transaction fails.
Undelivered == UNCHANGED <<run, ledger>>

\* The script ends: both rows are written, or neither.
Reconcile(o) ==
    /\ opc[o] # Idle
    /\ CloseBoth(o) \/ Undelivered
    /\ opc' = [opc EXCEPT ![o] = Idle]
    /\ EndRead(OperatorOf(o))
    /\ UNCHANGED <<work, requestVars, jobVars, token>>

-----------------------------------------------------------------------------
Request(d) ==
    \/ \E u \in Updates : Deliver(d, u)
    \/ Insert(d) \/ Enqueue(d) \/ EnqueueFails(d)
    \/ ReadToRefuse(d) \/ Refuse(d) \/ RequestDies(d)

JobStep(d) ==
    \/ Start(d) \/ Resolve(d) \/ Claim(d) \/ Work(d) \/ Reply(d) \/ Audit(d) \/ FailRun(d)
    \/ ReadToClose(d) \/ MarkSucceeded(d) \/ FailLedger(d) \/ Raised(d) \/ Returned(d)

Operate(o) == ReadToReconcile(o) \/ Reconcile(o) \/ \E u \in Updates : Inspect(o, u)

Next ==
    \/ \E d \in Deliveries : Request(d) \/ JobStep(d) \/ WorkerDies(d)
    \/ \E o \in Operators : Operate(o)

Spec == Init /\ [][Next]_vars

\* A worker takes a queued job and goes on with it; the job timeout and the
\* transport timeouts bound every step of it.
FairSpec == Spec /\ \A d \in Deliveries : WF_vars(JobStep(d))

-----------------------------------------------------------------------------
(* Properties. *)

\* Deliveries that have claimed the row of an update.
Owner(d) == pc[d] \in {"enqueue", "refuse"} \/ job[d] # "none"

\* However often an update is delivered, and whichever deliveries race for the
\* insert, at most one of them ever owns it.
OneOwner ==
    \A d, e \in Deliveries : Owner(d) /\ Owner(e) /\ d # e => update[d] # update[e]

\* A ledger that says succeeded, and so every replay of it, is backed by
\* committed work and by an attempt whose workflow run says succeeded as well,
\* however the columns of the request, of the attempts and of an operator mix.
\* That run need not be the one the row names.
SucceededIsBacked ==
    \A u \in Updates : ledger[u].status = "succeeded" =>
        /\ work[u] > 0
        /\ \E n \in Rows : update[n.job] = u /\ run[n] = "succeeded"

\* The queue policy bounds how often the work of an update is done, duplicate
\* deliveries and dying workers included; and however often a button is pressed
\* and each press retried, all of them together do its work once.
WorkIsBounded ==
    /\ \A u \in Updates : work[u] <= Retries + 1
    /\ \A u, v \in Presses : work[u] > 0 /\ work[v] > 0 => u = v /\ work[u] = 1

\* Every job is over at some time: it cannot be retried for ever.
JobsEnd == \A d \in Deliveries : job[d] = "queued" ~> job[d] = "over"
=============================================================================
