------------------------ MODULE TelegramUpdatesProofs -----------------------
(***************************************************************************)
(* Proofs about TelegramUpdates, for any updates, deliveries, operators    *)
(* and retry policy, with and without a queue.                             *)
(***************************************************************************)
EXTENDS TelegramUpdates, TLAPS

\* A request past its first read knows its update; only the request that claims
\* the row of the update enqueues a job, once.
RequestInv ==
    \A d \in Deliveries :
        /\ pc[d] # "new" => update[d] \in Updates
        /\ pc[d] \in {"new", "insert", "enqueue"} => job[d] = "none"
        /\ Owner(d) => ledger[update[d]].status # "none"

\* A job is queued again only while attempts are left.
AttemptInv ==
    \A d \in Deliveries :
        /\ job[d] = "none" => attempt[d] = 0
        /\ job[d] \in Running => attempt[d] >= 1
        /\ job[d] = "queued" => attempt[d] <= Retries
        /\ attempt[d] <= Retries + 1

\* The work of an update is done by the attempts of one job.
WorkInv ==
    /\ \A u \in Updates : work[u] > 0 =>
          \E d \in Deliveries : job[d] # "none" /\ update[d] = u
    /\ \A d \in Deliveries : job[d] # "none" => work[update[d]] <= attempt[d]
    /\ \A d \in Deliveries : job[d] \in {"resolve", "claim", "work"} => work[update[d]] < attempt[d]

\* What an attempt at each step knows of its row and of the committed work.
RowInv ==
    /\ \A n \in Rows : run[n] # "none" => n.attempt <= attempt[n.job]
    /\ \A d \in Deliveries :
          /\ job[d] \in {"resolve", "claim", "work", "reply", "audit", "failRun"} => run[Row(d)] = "running"
          /\ job[d] = "ledger" => run[Row(d)] = "succeeded"
          /\ job[d] \in {"reply", "audit", "ledger"} => work[update[d]] > 0
          /\ job[d] \in {"failRun", "failLedger"} /\ failure[d].reason = "delivery" =>
                work[update[d]] > 0
    /\ \A n \in Rows : run[n] = "undelivered" => work[update[n.job]] > 0

\* A row of an attempt at the update, and what a success must have behind it.
RunOf(u, n) == run[n] # "none" /\ update[n.job] = u
Backed(u) == work[u] > 0 /\ \E n \in Rows : update[n.job] = u /\ run[n] = "succeeded"
NextRunOf(u, n) == run'[n] # "none" /\ update'[n.job] = u
NextBacked(u) == work'[u] > 0 /\ \E n \in Rows : update'[n.job] = u /\ run'[n] = "succeeded"

\* What the ledger and an operator know of the work and of its row.  Columns of
\* several closes can mix in one row, so each column of a row is right by itself,
\* whatever the others say.
OutcomeInv ==
    /\ \A u \in Updates :
          /\ ledger[u].reason = "delivery" => work[u] > 0
          /\ ledger[u].run \in Rows => RunOf(u, ledger[u].run)
          /\ ledger[u].status = "succeeded" => Backed(u)
    /\ \A o \in Operators : opc[o] # Idle =>
          /\ opc[o].update \in Updates
          /\ work[opc[o].update] > 0
          /\ opc[o].run \in Rows
          /\ RunOf(opc[o].update, opc[o].run)
          /\ run[opc[o].run] # "running"

\* A step never reopens a closed row, nor undoes committed work, and the update
\* of an attempt stays.
NothingUndone ==
    /\ \A n \in Rows : run[n] = "succeeded" => run'[n] = "succeeded"
    /\ \A n \in Rows : run[n] \notin {"none", "running"} => run'[n] \notin {"none", "running"}
    /\ \A n \in Rows : run[n] # "none" => run'[n] # "none" /\ update'[n.job] = update[n.job]
    /\ \A u \in Updates : work'[u] >= work[u]

\* A press works only when it has taken the token, and no press has worked yet.
Acting(d) == job[d] = "work" /\ update[d] \in Presses
PressInv ==
    /\ \A d \in Deliveries : Acting(d) => ~token /\ \A u \in Presses : work[u] = 0
    /\ \A d, e \in Deliveries : Acting(d) /\ Acting(e) => d = e
    /\ token => \A u \in Presses : work[u] = 0
    /\ \A u, v \in Presses : work[u] > 0 /\ work[v] > 0 => u = v /\ work[u] = 1

OwnInv == TypeOK /\ RequestInv /\ OneOwner

-----------------------------------------------------------------------------
(* Lemmas about the parts of a step. *)

\* A close is well typed and touches one row, and each column of it is the old
\* or the new one.
LEMMA Written ==
  ASSUME TypeOK, NEW c, NEW u \in Updates, NEW new \in LedgerRows, WriteLedger(c, u, new)
  PROVE  /\ ledger' \in [Updates -> LedgerRows]
         /\ ledger'[u].status \in {new.status, ledger[u].status}
         /\ ledger'[u].reason \in {new.reason, ledger[u].reason}
         /\ ledger'[u].run \in {new.run, ledger[u].run}
         /\ \A v \in Updates : v # u => ledger'[v] = ledger[v]
<1>1. PICK reason \in {Column(new.reason, read[c].reason, ledger[u].reason)}
                        \cup ({new.reason} \ {"none"}) :
        ledger' = [ledger EXCEPT ![u] =
            [status |-> Column(new.status, read[c].status, ledger[u].status),
             reason |-> reason,
             run |-> Column(new.run, read[c].run, ledger[u].run)]]
  BY DEF WriteLedger
<1>2. reason \in {new.reason, ledger[u].reason}
  BY <1>1 DEF Column
<1>3. Column(new.status, read[c].status, ledger[u].status) \in {new.status, ledger[u].status}
  BY DEF Column
<1>4. Column(new.run, read[c].run, ledger[u].run) \in {new.run, ledger[u].run}
  BY DEF Column
<1>5. ledger \in [Updates -> LedgerRows]  BY DEF TypeOK
<1>6. [status |-> Column(new.status, read[c].status, ledger[u].status), reason |-> reason,
       run |-> Column(new.run, read[c].run, ledger[u].run)] \in LedgerRows
  BY <1>2, <1>3, <1>4, <1>5 DEF LedgerRows
<1> QED BY <1>1, <1>2, <1>3, <1>4, <1>5, <1>6

\* The insert is well typed.
LEMMA Inserted ==
  ASSUME TypeOK, NEW u \in Updates, ledger' = [ledger EXCEPT ![u] = Claimed]
  PROVE  /\ ledger' \in [Updates -> LedgerRows] /\ ledger'[u] = Claimed
         /\ \A v \in Updates : v # u => ledger'[v] = ledger[v]
<1>1. Claimed \in LedgerRows  BY DEF Claimed, LedgerRows, Reasons
<1> QED BY <1>1 DEF TypeOK

\* What a close may write.
LEMMA ClosedType ==
  ASSUME NEW n \in Rows \cup {NoRow}
  PROVE  /\ Success(n) \in LedgerRows
         /\ \A reason \in Reasons : Failure(reason, n) \in LedgerRows
  BY DEF Success, Failure, LedgerRows, Reasons

\* What a transaction has read is a row.
LEMMA ReadType ==
  ASSUME TypeOK, NEW c,
         EndRead(c) \/ \E u \in Updates : ReadLedger(c, u)
  PROVE  read' \in [Closers -> LedgerRows]
<1>1. Unclaimed \in LedgerRows  BY DEF Unclaimed, LedgerRows, Reasons
<1>2. \A u \in Updates : ledger[u] \in LedgerRows  BY DEF TypeOK
<1>3. \E row \in LedgerRows : read' = [read EXCEPT ![c] = row]
  BY <1>1, <1>2 DEF EndRead, ReadLedger
<1> QED BY <1>3 DEF TypeOK

\* The row of a running attempt is a row, and no other job's.
LEMMA RowType ==
  ASSUME TypeOK, AttemptInv, NEW d \in Deliveries, job[d] \in Running
  PROVE  Row(d) \in Rows /\ Row(d).job = d /\ Row(d).attempt = attempt[d]
<1>1. attempt[d] \in Attempts
  BY ConstantsAssumption DEF ConstantsAssumption, TypeOK, AttemptInv, Attempts, Retries
<1> QED BY <1>1 DEF Row, Rows

LEMMA RowsDiffer ==
  ASSUME NEW d, NEW e, d # e  PROVE Row(d) # Row(e)
  BY DEF Row

\* The row of the next attempt is fresh.
LEMMA NextRow ==
  ASSUME TypeOK, AttemptInv, NEW d \in Deliveries, job[d] = "queued"
  PROVE  [job |-> d, attempt |-> attempt[d] + 1] \in Rows
<1>1. attempt[d] + 1 \in Attempts
  BY ConstantsAssumption DEF ConstantsAssumption, TypeOK, AttemptInv, Attempts, Retries
<1> QED BY <1>1 DEF Rows

LEMMA FreshRow ==
  ASSUME TypeOK, AttemptInv, RowInv, NEW d \in Deliveries, job[d] = "queued"
  PROVE  run[[job |-> d, attempt |-> attempt[d] + 1]] = "none"
<1>1. [job |-> d, attempt |-> attempt[d] + 1] \in Rows  BY NextRow
<1>2. ~(attempt[d] + 1 <= attempt[d])  BY DEF TypeOK
<1> QED BY <1>1, <1>2 DEF RowInv

\* An attempt that has a row works on a delivered update.
LEMMA RowsUpdate ==
  ASSUME TypeOK, RequestInv, AttemptInv, RowInv, NEW n \in Rows, run[n] # "none"
  PROVE  n.job \in Deliveries /\ pc[n.job] # "new" /\ job[n.job] # "none" /\ update[n.job] \in Updates
<1>1. n.job \in Deliveries /\ n.attempt \in Nat /\ n.attempt >= 1
  BY DEF Rows, Attempts
<1>2. n.attempt <= attempt[n.job]  BY DEF RowInv
<1>3. attempt[n.job] # 0  BY <1>1, <1>2 DEF TypeOK
<1>4. job[n.job] # "none"  BY <1>1, <1>3 DEF AttemptInv
<1>5. pc[n.job] # "new"  BY <1>1, <1>4 DEF RequestInv
<1> QED BY <1>1, <1>4, <1>5 DEF RequestInv

\* The run a failed attempt names is none or its own.
LEMMA NamedRunType ==
  ASSUME TypeOK, AttemptInv, NEW d \in Deliveries, job[d] \in Running
  PROVE  NamedRun(d) \in Rows \cup {NoRow}
  BY RowType DEF NamedRun

\* A refused press is well typed.
LEMMA RefusedType ==
  ASSUME TypeOK, NEW d \in Deliveries, RefusePress(d)
  PROVE  failure' \in [Deliveries -> Failures]
<1>1. failure[d].raw \in BOOLEAN  BY DEF TypeOK, Failures
<1>2. [failure[d] EXCEPT !.reason = "other"] \in Failures
  BY <1>1 DEF TypeOK, Failures, Reasons
<1>3. failure' = [failure EXCEPT ![d] = [failure[d] EXCEPT !.reason = "other"]]
  BY DEF RefusePress
<1> QED BY <1>2, <1>3 DEF TypeOK

\* A close keeps the type of the ledger and never frees a row.
LEMMA Closed ==
  ASSUME TypeOK, NEW c, NEW u \in Updates, NEW new \in LedgerRows, new.status # "none",
         UNCHANGED ledger \/ WriteLedger(c, u, new)
  PROVE  /\ ledger' \in [Updates -> LedgerRows]
         /\ \A v \in Updates : ledger'[v].status = "none" => ledger[v].status = "none"
<1>1. CASE UNCHANGED ledger  BY <1>1 DEF TypeOK
<1>2. CASE WriteLedger(c, u, new)
  <2>1. /\ ledger' \in [Updates -> LedgerRows]
        /\ ledger'[u].status \in {new.status, ledger[u].status}
        /\ \A v \in Updates : v # u => ledger'[v] = ledger[v]
    BY <1>2, Written
  <2> QED BY <2>1
<1> QED BY <1>1, <1>2

\* The closes of a request and of an attempt.
LEMMA DeliveryCloses ==
  ASSUME TypeOK, RequestInv, AttemptInv, NEW d \in Deliveries,
         Refuse(d) \/ MarkSucceeded(d) \/ FailLedger(d)
  PROVE  /\ ledger' \in [Updates -> LedgerRows]
         /\ \A v \in Updates : ledger'[v].status = "none" => ledger[v].status = "none"
         /\ read' \in [Closers -> LedgerRows]
<1>1. CASE Refuse(d)
  <2>1. update[d] \in Updates  BY <1>1 DEF Refuse, RequestInv
  <2>2. Failure("other", NoRow) \in LedgerRows /\ Failure("other", NoRow).status # "none"
    BY ClosedType DEF Failure, Reasons
  <2>3. UNCHANGED ledger \/ WriteLedger(RequestOf(d), update[d], Failure("other", NoRow))
    BY <1>1 DEF Refuse
  <2>4. EndRead(RequestOf(d))  BY <1>1 DEF Refuse
  <2> QED BY <2>1, <2>2, <2>3, <2>4, Closed, ReadType
<1>2. CASE MarkSucceeded(d)
  <2>1. update[d] \in Updates /\ Row(d) \in Rows
    BY <1>2, RowType DEF MarkSucceeded, RequestInv, Running, JobSteps
  <2>2. Success(Row(d)) \in LedgerRows /\ Success(Row(d)).status # "none"
    BY <2>1, ClosedType DEF Success
  <2>3. UNCHANGED ledger \/ WriteLedger(JobOf(d), update[d], Success(Row(d)))
    BY <1>2 DEF MarkSucceeded
  <2>4. EndRead(JobOf(d))  BY <1>2 DEF MarkSucceeded
  <2> QED BY <2>1, <2>2, <2>3, <2>4, Closed, ReadType
<1>3. CASE FailLedger(d)
  <2>1. update[d] \in Updates /\ NamedRun(d) \in Rows \cup {NoRow} /\ failure[d].reason \in Reasons
    BY <1>3, NamedRunType DEF FailLedger, RequestInv, Running, JobSteps, TypeOK, Failures
  <2>2. Failure(failure[d].reason, NamedRun(d)) \in LedgerRows
    BY <2>1, ClosedType
  <2>3. Failure(failure[d].reason, NamedRun(d)).status # "none"  BY DEF Failure
  <2>4. UNCHANGED ledger \/ WriteLedger(JobOf(d), update[d], Failure(failure[d].reason, NamedRun(d)))
    BY <1>3 DEF FailLedger
  <2>5. EndRead(JobOf(d))  BY <1>3 DEF FailLedger
  <2> QED BY <2>1, <2>2, <2>3, <2>4, <2>5, Closed, ReadType
<1> QED BY <1>1, <1>2, <1>3

\* The close of an operator.
LEMMA OperatorCloses ==
  ASSUME TypeOK, OutcomeInv, NEW o \in Operators, Reconcile(o)
  PROVE  /\ ledger' \in [Updates -> LedgerRows]
         /\ \A v \in Updates : ledger'[v].status = "none" => ledger[v].status = "none"
         /\ read' \in [Closers -> LedgerRows]
         /\ opc[o].update \in Updates /\ opc[o].run \in Rows
<1>1. opc[o].update \in Updates /\ opc[o].run \in Rows
  BY DEF Reconcile, OutcomeInv
<1>2. Success(opc[o].run) \in LedgerRows /\ Success(opc[o].run).status # "none"
  BY <1>1, ClosedType DEF Success
<1>3. UNCHANGED ledger \/ WriteLedger(OperatorOf(o), opc[o].update, Success(opc[o].run))
  BY DEF Reconcile, CloseBoth, Undelivered
<1>4. EndRead(OperatorOf(o))  BY DEF Reconcile
<1> QED BY <1>1, <1>2, <1>3, <1>4, Closed, ReadType

-----------------------------------------------------------------------------
(* Type correctness, ownership and attempts. *)

LEMMA OwnInit == Init => OwnInv /\ AttemptInv
<1>1. Init => TypeOK
  BY ConstantsAssumption DEF ConstantsAssumption, Init, TypeOK, Rows, Attempts, LedgerRows, Reasons,
     Failures, RequestSteps, JobSteps, NoRow, Unclaimed, NoFailure, Idle, RunStatus
<1>2. Init => RequestInv /\ OneOwner /\ AttemptInv
  BY ConstantsAssumption DEF ConstantsAssumption, Init, RequestInv, OneOwner, Owner, AttemptInv,
       Running, Retries, JobSteps
<1> QED BY <1>1, <1>2 DEF OwnInv

\* The shape of the state.
LEMMA TypeStep == ASSUME TypeOK, RequestInv, AttemptInv, OutcomeInv, [Next]_vars PROVE TypeOK'
<1> USE ConstantsAssumption
    DEF ConstantsAssumption, TypeOK, RequestInv, Failures, Reasons, RequestSteps, JobSteps,
       Running, vars, rowVars, requestVars, jobVars, Respond, Goto
<1>1. ASSUME NEW d \in Deliveries, NEW u \in Updates, Deliver(d, u) PROVE TypeOK'
  BY <1>1 DEF Deliver
<1>2. ASSUME NEW d \in Deliveries, Insert(d) PROVE TypeOK'
  <2>1. ledger' \in [Updates -> LedgerRows]
    <3>1. update[d] \in Updates  BY <1>2 DEF Insert
    <3> QED BY <1>2, <3>1, Inserted DEF Insert
  <2> QED BY <1>2, <2>1 DEF Insert
<1>3. ASSUME NEW d \in Deliveries, Enqueue(d) PROVE TypeOK'
  BY <1>3 DEF Enqueue
<1>4. ASSUME NEW d \in Deliveries, EnqueueFails(d) PROVE TypeOK'
  BY <1>4 DEF EnqueueFails
<1>5. ASSUME NEW d \in Deliveries, Refuse(d) PROVE TypeOK'
  <2>1. ledger' \in [Updates -> LedgerRows] /\ read' \in [Closers -> LedgerRows]
    BY <1>5, DeliveryCloses
  <2> QED BY <1>5, <2>1 DEF Refuse
<1>6. ASSUME NEW d \in Deliveries, RequestDies(d) PROVE TypeOK'
  <2>1. read' \in [Closers -> LedgerRows]  BY <1>6, ReadType DEF RequestDies
  <2> QED BY <1>6, <2>1 DEF RequestDies
<1>7. ASSUME NEW d \in Deliveries, Start(d) PROVE TypeOK'
  <2>1. attempt[d] + 1 \in 0 .. MaxRetries + 1
    BY <1>7 DEF Start, AttemptInv, Retries
  <2>2. run' \in [Rows -> RunStatus]
    BY <1>7, NextRow DEF Start, RunStatus
  <2>3. failure' \in [Deliveries -> Failures]
    <3>1. NoFailure \in Failures /\ [raw |-> TRUE, reason |-> "other"] \in Failures
      BY DEF NoFailure
    <3> QED BY <1>7, <3>1 DEF Start
  <2> QED BY <1>7, <2>1, <2>2, <2>3 DEF Start
<1>8. ASSUME NEW d \in Deliveries, Work(d) PROVE TypeOK'
  <2>1. work' \in [Updates -> Nat]
    BY <1>8 DEF Work, CarryOut
  <2>2. failure' \in [Deliveries -> Failures]
    <3>1. [raw |-> TRUE, reason |-> "other"] \in Failures
      BY DEF Failures, Reasons
    <3>2. failure[d].raw \in BOOLEAN
      BY DEF TypeOK, Failures
    <3>3. [failure[d] EXCEPT !.reason = "other"] \in Failures
      BY <3>2 DEF TypeOK, Failures, Reasons
    <3>4. \/ failure' = failure
          \/ failure' = [failure EXCEPT ![d] = [raw |-> TRUE, reason |-> "other"]]
          \/ failure' = [failure EXCEPT ![d] = [failure[d] EXCEPT !.reason = "other"]]
      BY <1>8 DEF Work, CarryOut
    <3> QED BY <3>1, <3>3, <3>4 DEF TypeOK
  <2> QED BY <1>8, <2>1, <2>2 DEF Work, CarryOut
<1>9. ASSUME NEW d \in Deliveries, Reply(d) PROVE TypeOK'
  <2>1. failure' \in [Deliveries -> Failures]
    BY <1>9 DEF Reply
  <2> QED BY <1>9, <2>1 DEF Reply
<1>10. ASSUME NEW d \in Deliveries, Audit(d) PROVE TypeOK'
  <2>1. run' \in [Rows -> RunStatus]
    BY <1>10, RowType DEF Audit, RunStatus
  <2>2. failure' \in [Deliveries -> Failures]
    <3>1. [raw |-> TRUE, reason |-> "other"] \in Failures
      OBVIOUS
    <3> QED BY <1>10, <3>1 DEF Audit
  <2> QED BY <1>10, <2>1, <2>2 DEF Audit
<1>11. ASSUME NEW d \in Deliveries, MarkSucceeded(d) PROVE TypeOK'
  <2>1. ledger' \in [Updates -> LedgerRows] /\ read' \in [Closers -> LedgerRows]
    BY <1>11, DeliveryCloses
  <2> QED BY <1>11, <2>1 DEF MarkSucceeded
<1>12. ASSUME NEW d \in Deliveries, FailRun(d) PROVE TypeOK'
  <2>1. run' \in [Rows -> RunStatus]
    BY <1>12, RowType DEF FailRun, NotifyUser, RunStatus
  <2> QED BY <1>12, <2>1 DEF FailRun, NotifyUser
<1>13. ASSUME NEW d \in Deliveries, FailLedger(d) PROVE TypeOK'
  <2>1. ledger' \in [Updates -> LedgerRows] /\ read' \in [Closers -> LedgerRows]
    BY <1>13, DeliveryCloses
  <2> QED BY <1>13, <2>1 DEF FailLedger
<1>14. ASSUME NEW d \in Deliveries, Raised(d) PROVE TypeOK'
  BY <1>14 DEF Raised, Forget, NoFailure, Retry
<1>15. ASSUME NEW d \in Deliveries, Returned(d) PROVE TypeOK'
  BY <1>15 DEF Returned, Forget, NoFailure
<1>16. ASSUME NEW d \in Deliveries, WorkerDies(d) PROVE TypeOK'
  <2>1. read' \in [Closers -> LedgerRows]  BY <1>16, ReadType DEF WorkerDies
  <2> QED BY <1>16, <2>1 DEF WorkerDies, Forget, NoFailure, Retry
<1>17. ASSUME NEW o \in Operators, NEW u \in Updates, Inspect(o, u) PROVE TypeOK'
  <2>1. ledger[u].run \in Rows \cup {NoRow}
    BY <1>17 DEF LedgerRows
  <2> QED BY <1>17, <2>1 DEF Inspect
<1>18. ASSUME NEW o \in Operators, Reconcile(o) PROVE TypeOK'
  <2>1. /\ ledger' \in [Updates -> LedgerRows] /\ read' \in [Closers -> LedgerRows]
        /\ opc[o].run \in Rows
    BY <1>18, OperatorCloses
  <2>2. run' \in [Rows -> RunStatus]
    BY <1>18, <2>1 DEF Reconcile, CloseBoth, Undelivered, RunStatus
  <2>3. opc' \in [Operators -> [update : Updates \cup {None}, run : Rows \cup {NoRow}]]
    BY <1>18 DEF Reconcile, Idle
  <2> QED BY <1>18, <2>1, <2>2, <2>3 DEF Reconcile
<1>20. ASSUME NEW d \in Deliveries, Resolve(d) PROVE TypeOK'
  <2>1. failure' \in [Deliveries -> Failures]
    BY <1>20, RefusedType DEF Resolve
  <2> QED BY <1>20, <2>1 DEF Resolve, RefusePress
<1>21. ASSUME NEW d \in Deliveries, Claim(d) PROVE TypeOK'
  <2>1. failure' \in [Deliveries -> Failures]
    BY <1>21, RefusedType DEF Claim, Acknowledge
  <2> QED BY <1>21, <2>1 DEF Claim, Acknowledge, RefusePress
<1>22. ASSUME NEW d \in Deliveries, ReadToRefuse(d) PROVE TypeOK'
  <2>1. update[d] \in Updates  BY <1>22 DEF ReadToRefuse
  <2>2. read' \in [Closers -> LedgerRows]  BY <1>22, <2>1, ReadType DEF ReadToRefuse
  <2> QED BY <1>22, <2>2 DEF ReadToRefuse
<1>23. ASSUME NEW d \in Deliveries, ReadToClose(d) PROVE TypeOK'
  <2>1. update[d] \in Updates  BY <1>23 DEF ReadToClose
  <2>2. read' \in [Closers -> LedgerRows]  BY <1>23, <2>1, ReadType DEF ReadToClose
  <2> QED BY <1>23, <2>2 DEF ReadToClose
<1>24. ASSUME NEW o \in Operators, ReadToReconcile(o) PROVE TypeOK'
  <2>1. opc[o].update \in Updates  BY <1>24 DEF ReadToReconcile, OutcomeInv
  <2>2. read' \in [Closers -> LedgerRows]  BY <1>24, <2>1, ReadType DEF ReadToReconcile
  <2> QED BY <1>24, <2>2 DEF ReadToReconcile
<1>19. CASE UNCHANGED vars  BY <1>19
<1> QED BY <1>1, <1>2, <1>3, <1>4, <1>5, <1>6, <1>7, <1>8, <1>9, <1>10, <1>11, <1>12, <1>13, <1>14,
     <1>15, <1>16, <1>17, <1>18, <1>19, <1>20, <1>21, <1>22, <1>23, <1>24 DEF Next, Request, JobStep, Operate

\* Requests and their rows.
LEMMA RequestStep ==
  ASSUME TypeOK, RequestInv, AttemptInv, OutcomeInv, [Next]_vars
  PROVE  RequestInv'
<1> USE ConstantsAssumption
    DEF ConstantsAssumption, TypeOK, RequestInv, Owner, RequestSteps, JobSteps, Running,
       LedgerRows, vars, rowVars, requestVars, jobVars, Respond, Goto
<1>1. ASSUME NEW d \in Deliveries, NEW u \in Updates, Deliver(d, u) PROVE RequestInv'
  BY <1>1 DEF Deliver
<1>2. ASSUME NEW d \in Deliveries, Insert(d) PROVE RequestInv'
  <2>1. update[d] \in Updates  BY <1>2 DEF Insert
  <2>2. CASE ledger[update[d]].status # "none"  BY <1>2, <2>2 DEF Insert
  <2>3. CASE ledger[update[d]].status = "none"
    <3>1. /\ ledger'[update[d]] = Claimed
          /\ \A v \in Updates : v # update[d] => ledger'[v] = ledger[v]
      BY <1>2, <2>1, <2>3, Inserted DEF Insert
    <3>2. \A u \in Updates : ledger'[u].status = "none" => ledger[u].status = "none" /\ u # update[d]
      BY <3>1 DEF Claimed
    <3> QED BY <1>2, <2>3, <3>2 DEF Insert
  <2> QED BY <2>2, <2>3
<1>3. ASSUME NEW d \in Deliveries, Enqueue(d) PROVE RequestInv'
  BY <1>3 DEF Enqueue
<1>4. ASSUME NEW d \in Deliveries, EnqueueFails(d) PROVE RequestInv'
  BY <1>4 DEF EnqueueFails
<1>5. ASSUME NEW d \in Deliveries, Refuse(d) PROVE RequestInv'
  <2>1. \A u \in Updates : ledger'[u].status = "none" => ledger[u].status = "none"
    BY <1>5, DeliveryCloses
  <2> QED BY <1>5, <2>1 DEF Refuse
<1>6. ASSUME NEW d \in Deliveries, RequestDies(d) PROVE RequestInv'
  BY <1>6 DEF RequestDies
<1>7. ASSUME NEW d \in Deliveries, Start(d) PROVE RequestInv'
  BY <1>7 DEF Start
<1>8. ASSUME NEW d \in Deliveries, Work(d) PROVE RequestInv'
  BY <1>8 DEF Work, CarryOut
<1>9. ASSUME NEW d \in Deliveries, Reply(d) PROVE RequestInv'
  BY <1>9 DEF Reply
<1>10. ASSUME NEW d \in Deliveries, Audit(d) PROVE RequestInv'
  BY <1>10 DEF Audit
<1>11. ASSUME NEW d \in Deliveries, MarkSucceeded(d) PROVE RequestInv'
  <2>1. \A u \in Updates : ledger'[u].status = "none" => ledger[u].status = "none"
    BY <1>11, DeliveryCloses
  <2> QED BY <1>11, <2>1 DEF MarkSucceeded
<1>12. ASSUME NEW d \in Deliveries, FailRun(d) PROVE RequestInv'
  BY <1>12 DEF FailRun, NotifyUser
<1>13. ASSUME NEW d \in Deliveries, FailLedger(d) PROVE RequestInv'
  <2>1. \A u \in Updates : ledger'[u].status = "none" => ledger[u].status = "none"
    BY <1>13, DeliveryCloses
  <2> QED BY <1>13, <2>1 DEF FailLedger
<1>14. ASSUME NEW d \in Deliveries, Raised(d) PROVE RequestInv'
  BY <1>14 DEF Raised, Forget, Retry
<1>15. ASSUME NEW d \in Deliveries, Returned(d) PROVE RequestInv'
  BY <1>15 DEF Returned, Forget
<1>16. ASSUME NEW d \in Deliveries, WorkerDies(d) PROVE RequestInv'
  BY <1>16 DEF WorkerDies, Forget, Retry
<1>17. ASSUME NEW o \in Operators, NEW u \in Updates, Inspect(o, u) PROVE RequestInv'
  BY <1>17 DEF Inspect, Eligible
<1>18. ASSUME NEW o \in Operators, Reconcile(o) PROVE RequestInv'
  <2>1. \A u \in Updates : ledger'[u].status = "none" => ledger[u].status = "none"
    BY <1>18, OperatorCloses
  <2> QED BY <1>18, <2>1 DEF Reconcile
<1>20. ASSUME NEW d \in Deliveries, Resolve(d) PROVE RequestInv'
  BY <1>20 DEF Resolve, RefusePress
<1>21. ASSUME NEW d \in Deliveries, Claim(d) PROVE RequestInv'
  BY <1>21 DEF Claim, Acknowledge, RefusePress
<1>22. ASSUME NEW d \in Deliveries, ReadToRefuse(d) PROVE RequestInv'
  BY <1>22 DEF ReadToRefuse
<1>23. ASSUME NEW d \in Deliveries, ReadToClose(d) PROVE RequestInv'
  BY <1>23 DEF ReadToClose
<1>24. ASSUME NEW o \in Operators, ReadToReconcile(o) PROVE RequestInv'
  BY <1>24 DEF ReadToReconcile
<1>19. CASE UNCHANGED vars  BY <1>19
<1> QED BY <1>1, <1>2, <1>3, <1>4, <1>5, <1>6, <1>7, <1>8, <1>9, <1>10, <1>11, <1>12, <1>13, <1>14,
     <1>15, <1>16, <1>17, <1>18, <1>19, <1>20, <1>21, <1>22, <1>23, <1>24 DEF Next, Request, JobStep, Operate

\* Ownership: only an insert into a free row makes an owner.
LEMMA OwnerStep == ASSUME TypeOK, RequestInv, OneOwner, [Next]_vars PROVE OneOwner'
<1> USE ConstantsAssumption
    DEF ConstantsAssumption, TypeOK, RequestInv, OneOwner, Owner, RequestSteps, JobSteps,
       Running, vars, rowVars, requestVars, jobVars, Respond, Goto
<1>1. ASSUME NEW d \in Deliveries, NEW u \in Updates, Deliver(d, u) PROVE OneOwner'
  BY <1>1 DEF Deliver
<1>2. ASSUME NEW d \in Deliveries, Insert(d) PROVE OneOwner'
  BY <1>2 DEF Insert
<1>3. ASSUME NEW d \in Deliveries, Enqueue(d) PROVE OneOwner'
  BY <1>3 DEF Enqueue
<1>4. ASSUME NEW d \in Deliveries, EnqueueFails(d) PROVE OneOwner'
  BY <1>4 DEF EnqueueFails
<1>5. ASSUME NEW d \in Deliveries, Refuse(d) PROVE OneOwner'
  BY <1>5 DEF Refuse
<1>6. ASSUME NEW d \in Deliveries, RequestDies(d) PROVE OneOwner'
  BY <1>6 DEF RequestDies
<1>7. ASSUME NEW d \in Deliveries, Start(d) PROVE OneOwner'
  BY <1>7 DEF Start
<1>8. ASSUME NEW d \in Deliveries, Work(d) PROVE OneOwner'
  BY <1>8 DEF Work, CarryOut
<1>9. ASSUME NEW d \in Deliveries, Reply(d) PROVE OneOwner'
  BY <1>9 DEF Reply
<1>10. ASSUME NEW d \in Deliveries, Audit(d) PROVE OneOwner'
  BY <1>10 DEF Audit
<1>11. ASSUME NEW d \in Deliveries, MarkSucceeded(d) PROVE OneOwner'
  BY <1>11 DEF MarkSucceeded
<1>12. ASSUME NEW d \in Deliveries, FailRun(d) PROVE OneOwner'
  BY <1>12 DEF FailRun, NotifyUser
<1>13. ASSUME NEW d \in Deliveries, FailLedger(d) PROVE OneOwner'
  BY <1>13 DEF FailLedger, NamedRun
<1>14. ASSUME NEW d \in Deliveries, Raised(d) PROVE OneOwner'
  BY <1>14 DEF Raised, Forget, Retry
<1>15. ASSUME NEW d \in Deliveries, Returned(d) PROVE OneOwner'
  BY <1>15 DEF Returned, Forget
<1>16. ASSUME NEW d \in Deliveries, WorkerDies(d) PROVE OneOwner'
  BY <1>16 DEF WorkerDies, Forget, Retry
<1>17. ASSUME NEW o \in Operators, NEW u \in Updates, Inspect(o, u) PROVE OneOwner'
  BY <1>17 DEF Inspect, Eligible
<1>18. ASSUME NEW o \in Operators, Reconcile(o) PROVE OneOwner'
  BY <1>18 DEF Reconcile, CloseBoth, Undelivered
<1>20. ASSUME NEW d \in Deliveries, Resolve(d) PROVE OneOwner'
  BY <1>20 DEF Resolve, RefusePress
<1>21. ASSUME NEW d \in Deliveries, Claim(d) PROVE OneOwner'
  BY <1>21 DEF Claim, Acknowledge, RefusePress
<1>22. ASSUME NEW d \in Deliveries, ReadToRefuse(d) PROVE OneOwner'
  BY <1>22 DEF ReadToRefuse
<1>23. ASSUME NEW d \in Deliveries, ReadToClose(d) PROVE OneOwner'
  BY <1>23 DEF ReadToClose
<1>24. ASSUME NEW o \in Operators, ReadToReconcile(o) PROVE OneOwner'
  BY <1>24 DEF ReadToReconcile
<1>19. CASE UNCHANGED vars  BY <1>19
<1> QED BY <1>1, <1>2, <1>3, <1>4, <1>5, <1>6, <1>7, <1>8, <1>9, <1>10, <1>11, <1>12, <1>13, <1>14,
     <1>15, <1>16, <1>17, <1>18, <1>19, <1>20, <1>21, <1>22, <1>23, <1>24 DEF Next, Request, JobStep, Operate

\* Attempts.
LEMMA AttemptStep == ASSUME TypeOK, RequestInv, AttemptInv, [Next]_vars PROVE AttemptInv'
<1> USE ConstantsAssumption
    DEF ConstantsAssumption, TypeOK, RequestInv, AttemptInv, Retries, JobSteps, Running, vars,
       rowVars, requestVars, jobVars, Respond, Goto
<1>1. ASSUME NEW d \in Deliveries, NEW u \in Updates, Deliver(d, u) PROVE AttemptInv'
  BY <1>1 DEF Deliver
<1>2. ASSUME NEW d \in Deliveries, Insert(d) PROVE AttemptInv'
  BY <1>2 DEF Insert
<1>3. ASSUME NEW d \in Deliveries, Enqueue(d) PROVE AttemptInv'
  BY <1>3 DEF Enqueue
<1>4. ASSUME NEW d \in Deliveries, EnqueueFails(d) PROVE AttemptInv'
  BY <1>4 DEF EnqueueFails
<1>5. ASSUME NEW d \in Deliveries, Refuse(d) PROVE AttemptInv'
  BY <1>5 DEF Refuse
<1>6. ASSUME NEW d \in Deliveries, RequestDies(d) PROVE AttemptInv'
  BY <1>6 DEF RequestDies
<1>7. ASSUME NEW d \in Deliveries, Start(d) PROVE AttemptInv'
  BY <1>7 DEF Start
<1>8. ASSUME NEW d \in Deliveries, Work(d) PROVE AttemptInv'
  BY <1>8 DEF Work, CarryOut
<1>9. ASSUME NEW d \in Deliveries, Reply(d) PROVE AttemptInv'
  BY <1>9 DEF Reply
<1>10. ASSUME NEW d \in Deliveries, Audit(d) PROVE AttemptInv'
  BY <1>10 DEF Audit
<1>11. ASSUME NEW d \in Deliveries, MarkSucceeded(d) PROVE AttemptInv'
  BY <1>11 DEF MarkSucceeded
<1>12. ASSUME NEW d \in Deliveries, FailRun(d) PROVE AttemptInv'
  BY <1>12 DEF FailRun, NotifyUser
<1>13. ASSUME NEW d \in Deliveries, FailLedger(d) PROVE AttemptInv'
  BY <1>13 DEF FailLedger, NamedRun
<1>14. ASSUME NEW d \in Deliveries, Raised(d) PROVE AttemptInv'
  BY <1>14 DEF Raised, Forget, Retry
<1>15. ASSUME NEW d \in Deliveries, Returned(d) PROVE AttemptInv'
  BY <1>15 DEF Returned, Forget
<1>16. ASSUME NEW d \in Deliveries, WorkerDies(d) PROVE AttemptInv'
  BY <1>16 DEF WorkerDies, Forget, Retry
<1>17. ASSUME NEW o \in Operators, NEW u \in Updates, Inspect(o, u) PROVE AttemptInv'
  BY <1>17 DEF Inspect, Eligible
<1>18. ASSUME NEW o \in Operators, Reconcile(o) PROVE AttemptInv'
  BY <1>18 DEF Reconcile, CloseBoth, Undelivered
<1>20. ASSUME NEW d \in Deliveries, Resolve(d) PROVE AttemptInv'
  BY <1>20 DEF Resolve, RefusePress
<1>21. ASSUME NEW d \in Deliveries, Claim(d) PROVE AttemptInv'
  BY <1>21 DEF Claim, Acknowledge, RefusePress
<1>22. ASSUME NEW d \in Deliveries, ReadToRefuse(d) PROVE AttemptInv'
  BY <1>22 DEF ReadToRefuse
<1>23. ASSUME NEW d \in Deliveries, ReadToClose(d) PROVE AttemptInv'
  BY <1>23 DEF ReadToClose
<1>24. ASSUME NEW o \in Operators, ReadToReconcile(o) PROVE AttemptInv'
  BY <1>24 DEF ReadToReconcile
<1>19. CASE UNCHANGED vars  BY <1>19
<1> QED BY <1>1, <1>2, <1>3, <1>4, <1>5, <1>6, <1>7, <1>8, <1>9, <1>10, <1>11, <1>12, <1>13, <1>14,
     <1>15, <1>16, <1>17, <1>18, <1>19, <1>20, <1>21, <1>22, <1>23, <1>24 DEF Next, Request, JobStep, Operate

-----------------------------------------------------------------------------
(* Work and outcomes. *)

\* Each attempt works once, and one job only.
LEMMA WorkStep ==
  ASSUME TypeOK, RequestInv, OneOwner, AttemptInv, WorkInv, [Next]_vars
  PROVE  WorkInv'
<1> USE ConstantsAssumption
    DEF ConstantsAssumption, TypeOK, RequestInv, OneOwner, Owner, AttemptInv, WorkInv, JobSteps,
       Running, vars, rowVars, requestVars, jobVars, Respond, Goto
<1>1. ASSUME NEW d \in Deliveries, NEW u \in Updates, Deliver(d, u) PROVE WorkInv'
  BY <1>1 DEF Deliver
<1>2. ASSUME NEW d \in Deliveries, Insert(d) PROVE WorkInv'
  BY <1>2 DEF Insert
<1>3. ASSUME NEW d \in Deliveries, Enqueue(d) PROVE WorkInv'
  BY <1>3 DEF Enqueue
<1>4. ASSUME NEW d \in Deliveries, EnqueueFails(d) PROVE WorkInv'
  BY <1>4 DEF EnqueueFails
<1>5. ASSUME NEW d \in Deliveries, Refuse(d) PROVE WorkInv'
  BY <1>5 DEF Refuse
<1>6. ASSUME NEW d \in Deliveries, RequestDies(d) PROVE WorkInv'
  BY <1>6 DEF RequestDies
<1>7. ASSUME NEW d \in Deliveries, Start(d) PROVE WorkInv'
  BY <1>7 DEF Start
<1>8. ASSUME NEW d \in Deliveries, Work(d) PROVE WorkInv'
  BY <1>8 DEF Work, CarryOut
<1>9. ASSUME NEW d \in Deliveries, Reply(d) PROVE WorkInv'
  BY <1>9 DEF Reply
<1>10. ASSUME NEW d \in Deliveries, Audit(d) PROVE WorkInv'
  BY <1>10 DEF Audit
<1>11. ASSUME NEW d \in Deliveries, MarkSucceeded(d) PROVE WorkInv'
  BY <1>11 DEF MarkSucceeded
<1>12. ASSUME NEW d \in Deliveries, FailRun(d) PROVE WorkInv'
  BY <1>12 DEF FailRun, NotifyUser
<1>13. ASSUME NEW d \in Deliveries, FailLedger(d) PROVE WorkInv'
  BY <1>13 DEF FailLedger, NamedRun
<1>14. ASSUME NEW d \in Deliveries, Raised(d) PROVE WorkInv'
  BY <1>14 DEF Raised, Forget, Retry
<1>15. ASSUME NEW d \in Deliveries, Returned(d) PROVE WorkInv'
  BY <1>15 DEF Returned, Forget
<1>16. ASSUME NEW d \in Deliveries, WorkerDies(d) PROVE WorkInv'
  BY <1>16 DEF WorkerDies, Forget, Retry
<1>17. ASSUME NEW o \in Operators, NEW u \in Updates, Inspect(o, u) PROVE WorkInv'
  BY <1>17 DEF Inspect, Eligible
<1>18. ASSUME NEW o \in Operators, Reconcile(o) PROVE WorkInv'
  BY <1>18 DEF Reconcile, CloseBoth, Undelivered
<1>20. ASSUME NEW d \in Deliveries, Resolve(d) PROVE WorkInv'
  BY <1>20 DEF Resolve, RefusePress
<1>21. ASSUME NEW d \in Deliveries, Claim(d) PROVE WorkInv'
  <2>1. CASE Acknowledge(d)  BY <1>21, <2>1 DEF Claim, Acknowledge
  <2>2. CASE RefusePress(d)  BY <1>21, <2>2 DEF Claim, RefusePress
  <2> QED BY <1>21, <2>1, <2>2 DEF Claim
<1>22. ASSUME NEW d \in Deliveries, ReadToRefuse(d) PROVE WorkInv'
  BY <1>22 DEF ReadToRefuse
<1>23. ASSUME NEW d \in Deliveries, ReadToClose(d) PROVE WorkInv'
  BY <1>23 DEF ReadToClose
<1>24. ASSUME NEW o \in Operators, ReadToReconcile(o) PROVE WorkInv'
  BY <1>24 DEF ReadToReconcile
<1>19. CASE UNCHANGED vars  BY <1>19
<1> QED BY <1>1, <1>2, <1>3, <1>4, <1>5, <1>6, <1>7, <1>8, <1>9, <1>10, <1>11, <1>12, <1>13, <1>14,
     <1>15, <1>16, <1>17, <1>18, <1>19, <1>20, <1>21, <1>22, <1>23, <1>24 DEF Next, Request, JobStep, Operate

\* One press of the button works, once.
LEMMA PressStep == ASSUME TypeOK, RequestInv, PressInv, [Next]_vars PROVE PressInv'
<1> USE ConstantsAssumption
    DEF ConstantsAssumption, vars, rowVars, requestVars, jobVars, Respond, Goto
<1>0. ASSUME UNCHANGED <<work, token>>, \A d \in Deliveries : Acting(d)' => Acting(d)
      PROVE  PressInv'
  BY <1>0 DEF PressInv
<1>1. ASSUME NEW d \in Deliveries, NEW u \in Updates, Deliver(d, u) PROVE PressInv'
  BY <1>0, <1>1 DEF Deliver, Acting, TypeOK, RequestInv
<1>2. ASSUME NEW d \in Deliveries, Insert(d) PROVE PressInv'
  BY <1>0, <1>2 DEF Insert, Acting, TypeOK
<1>3. ASSUME NEW d \in Deliveries, Enqueue(d) PROVE PressInv'
  BY <1>0, <1>3 DEF Enqueue, Acting, TypeOK, RequestInv, RequestSteps
<1>4. ASSUME NEW d \in Deliveries, EnqueueFails(d) PROVE PressInv'
  BY <1>0, <1>4 DEF EnqueueFails, Acting, TypeOK
<1>5. ASSUME NEW d \in Deliveries, Refuse(d) PROVE PressInv'
  BY <1>0, <1>5 DEF Refuse, Acting, TypeOK
<1>6. ASSUME NEW d \in Deliveries, RequestDies(d) PROVE PressInv'
  BY <1>0, <1>6 DEF RequestDies, Acting, TypeOK
<1>7. ASSUME NEW d \in Deliveries, Start(d) PROVE PressInv'
  BY <1>0, <1>7 DEF Start, Acting, TypeOK
<1>8. ASSUME NEW d \in Deliveries, Work(d) PROVE PressInv'
  <2>1. /\ job[d] = "work" /\ job'[d] # "work" /\ UNCHANGED <<update, token>>
        /\ \A e \in Deliveries : e # d => job'[e] = job[e]
        /\ update[d] \in Updates
    BY <1>8 DEF Work, CarryOut, TypeOK, RequestInv, RequestSteps
  <2>2. \A e \in Deliveries : Acting(e)' => Acting(e) /\ e # d
    BY <2>1 DEF Acting
  <2>3. work' = work \/ work' = [work EXCEPT ![update[d]] = @ + 1]
    BY <1>8 DEF Work, CarryOut
  <2>4. CASE update[d] \notin Presses
    <3>1. \A u \in Presses : work'[u] = work[u]  BY <2>3, <2>4 DEF TypeOK
    <3> QED BY <2>1, <2>2, <3>1 DEF PressInv
  <2>5. CASE update[d] \in Presses
    <3>1. Acting(d) /\ ~token /\ \A u \in Presses : work[u] = 0
      BY <2>1, <2>5 DEF PressInv, Acting
    <3>2. \A e \in Deliveries : ~Acting(e)'
      BY <2>2, <3>1 DEF PressInv
    <3>3. \A u \in Presses : work'[u] > 0 => u = update[d] /\ work'[u] = 1
      BY <2>3, <3>1 DEF TypeOK
    <3> QED BY <2>1, <3>1, <3>2, <3>3 DEF PressInv
  <2> QED BY <2>4, <2>5
<1>9. ASSUME NEW d \in Deliveries, Reply(d) PROVE PressInv'
  BY <1>0, <1>9 DEF Reply, Acting, TypeOK
<1>10. ASSUME NEW d \in Deliveries, Audit(d) PROVE PressInv'
  BY <1>0, <1>10 DEF Audit, Acting, TypeOK
<1>11. ASSUME NEW d \in Deliveries, MarkSucceeded(d) PROVE PressInv'
  BY <1>0, <1>11 DEF MarkSucceeded, Acting, TypeOK
<1>12. ASSUME NEW d \in Deliveries, FailRun(d) PROVE PressInv'
  BY <1>0, <1>12 DEF FailRun, NotifyUser, Acting, TypeOK
<1>13. ASSUME NEW d \in Deliveries, FailLedger(d) PROVE PressInv'
  BY <1>0, <1>13 DEF FailLedger, Acting, TypeOK
<1>14. ASSUME NEW d \in Deliveries, Raised(d) PROVE PressInv'
  BY <1>0, <1>14 DEF Raised, Retry, Acting, TypeOK
<1>15. ASSUME NEW d \in Deliveries, Returned(d) PROVE PressInv'
  BY <1>0, <1>15 DEF Returned, Acting, TypeOK
<1>16. ASSUME NEW d \in Deliveries, WorkerDies(d) PROVE PressInv'
  BY <1>0, <1>16 DEF WorkerDies, Retry, Acting, TypeOK
<1>17. ASSUME NEW o \in Operators, NEW u \in Updates, Inspect(o, u) PROVE PressInv'
  BY <1>0, <1>17 DEF Inspect, Acting
<1>18. ASSUME NEW o \in Operators, Reconcile(o) PROVE PressInv'
  BY <1>0, <1>18 DEF Reconcile, CloseBoth, Undelivered, Acting
<1>22. ASSUME NEW d \in Deliveries, ReadToRefuse(d) PROVE PressInv'
  BY <1>0, <1>22 DEF ReadToRefuse, Acting
<1>23. ASSUME NEW d \in Deliveries, ReadToClose(d) PROVE PressInv'
  BY <1>0, <1>23 DEF ReadToClose, Acting
<1>24. ASSUME NEW o \in Operators, ReadToReconcile(o) PROVE PressInv'
  BY <1>0, <1>24 DEF ReadToReconcile, Acting
<1>19. CASE UNCHANGED vars  BY <1>0, <1>19 DEF Acting
<1>20. ASSUME NEW d \in Deliveries, Resolve(d) PROVE PressInv'
  BY <1>0, <1>20 DEF Resolve, RefusePress, Acting, TypeOK
<1>21. ASSUME NEW d \in Deliveries, Claim(d) PROVE PressInv'
  <2>1. /\ job[d] = "claim" /\ UNCHANGED <<work, update>>
        /\ \A e \in Deliveries : e # d => job'[e] = job[e]
    BY <1>21 DEF Claim, Acknowledge, RefusePress, TypeOK
  <2>2. CASE token /\ token' = FALSE /\ Acknowledge(d)
    <3>1. \A u \in Presses : work'[u] = 0  BY <2>1, <2>2 DEF PressInv
    <3>2. \A e \in Deliveries : Acting(e)' => e = d
      BY <2>1, <2>2 DEF PressInv, Acting
    <3> QED BY <2>2, <3>1, <3>2 DEF PressInv, TypeOK
  <2>3. CASE token' \in {token, FALSE} /\ RefusePress(d)
    <3>1. \A e \in Deliveries : Acting(e)' => Acting(e)
      BY <2>1, <2>3 DEF Acting, RefusePress, TypeOK
    <3>2. token' => token  BY <2>3 DEF TypeOK
    <3>3. \A u \in Presses : work'[u] = work[u]  BY <2>1
    <3> QED BY <3>1, <3>2, <3>3 DEF PressInv
  <2> QED BY <1>21, <2>2, <2>3 DEF Claim
<1> QED BY <1>1, <1>2, <1>3, <1>4, <1>5, <1>6, <1>7, <1>8, <1>9, <1>10, <1>11, <1>12, <1>13, <1>14,
     <1>15, <1>16, <1>17, <1>18, <1>19, <1>20, <1>21, <1>22, <1>23, <1>24 DEF Next, Request, JobStep, Operate

\* Closed rows stay closed, work stays done.
LEMMA UndoStep == ASSUME TypeOK, RequestInv, AttemptInv, RowInv, [Next]_vars PROVE NothingUndone
<1> USE ConstantsAssumption
    DEF ConstantsAssumption, TypeOK, RequestInv, NothingUndone, vars, rowVars, requestVars,
       jobVars, Respond, Goto
<1>1. ASSUME NEW d \in Deliveries, NEW u \in Updates, Deliver(d, u) PROVE NothingUndone
  BY <1>1, RowsUpdate DEF Deliver
<1>2. ASSUME NEW d \in Deliveries, Insert(d) PROVE NothingUndone
  BY <1>2 DEF Insert
<1>3. ASSUME NEW d \in Deliveries, Enqueue(d) PROVE NothingUndone
  BY <1>3 DEF Enqueue
<1>4. ASSUME NEW d \in Deliveries, EnqueueFails(d) PROVE NothingUndone
  BY <1>4 DEF EnqueueFails
<1>5. ASSUME NEW d \in Deliveries, Refuse(d) PROVE NothingUndone
  BY <1>5 DEF Refuse
<1>6. ASSUME NEW d \in Deliveries, RequestDies(d) PROVE NothingUndone
  BY <1>6 DEF RequestDies
<1>7. ASSUME NEW d \in Deliveries, Start(d) PROVE NothingUndone
  BY <1>7, NextRow, FreshRow DEF Start
<1>8. ASSUME NEW d \in Deliveries, Work(d) PROVE NothingUndone
  BY <1>8 DEF Work, CarryOut
<1>9. ASSUME NEW d \in Deliveries, Reply(d) PROVE NothingUndone
  BY <1>9 DEF Reply
<1>10. ASSUME NEW d \in Deliveries, Audit(d) PROVE NothingUndone
  <2>1. Row(d) \in Rows /\ run[Row(d)] = "running"
    BY <1>10, RowType DEF Audit, Running, JobSteps, RowInv
  <2> QED BY <1>10, <2>1 DEF Audit
<1>11. ASSUME NEW d \in Deliveries, MarkSucceeded(d) PROVE NothingUndone
  BY <1>11 DEF MarkSucceeded
<1>12. ASSUME NEW d \in Deliveries, FailRun(d) PROVE NothingUndone
  <2>1. Row(d) \in Rows /\ run[Row(d)] = "running"
    BY <1>12, RowType DEF FailRun, NotifyUser, Running, JobSteps, RowInv
  <2> QED BY <1>12, <2>1 DEF FailRun, NotifyUser
<1>13. ASSUME NEW d \in Deliveries, FailLedger(d) PROVE NothingUndone
  BY <1>13 DEF FailLedger, NamedRun
<1>14. ASSUME NEW d \in Deliveries, Raised(d) PROVE NothingUndone
  BY <1>14 DEF Raised, Forget, Retry
<1>15. ASSUME NEW d \in Deliveries, Returned(d) PROVE NothingUndone
  BY <1>15 DEF Returned, Forget
<1>16. ASSUME NEW d \in Deliveries, WorkerDies(d) PROVE NothingUndone
  BY <1>16 DEF WorkerDies, Forget, Retry
<1>17. ASSUME NEW o \in Operators, NEW u \in Updates, Inspect(o, u) PROVE NothingUndone
  BY <1>17 DEF Inspect, Eligible
<1>18. ASSUME NEW o \in Operators, Reconcile(o) PROVE NothingUndone
  <2>1. run' = run \/ run' = [run EXCEPT ![opc[o].run] = "succeeded"]
    BY <1>18 DEF Reconcile, CloseBoth, Undelivered
  <2> QED BY <1>18, <2>1 DEF Reconcile
<1>20. ASSUME NEW d \in Deliveries, Resolve(d) PROVE NothingUndone
  BY <1>20 DEF Resolve, RefusePress
<1>21. ASSUME NEW d \in Deliveries, Claim(d) PROVE NothingUndone
  BY <1>21 DEF Claim, Acknowledge, RefusePress
<1>22. ASSUME NEW d \in Deliveries, ReadToRefuse(d) PROVE NothingUndone
  BY <1>22 DEF ReadToRefuse
<1>23. ASSUME NEW d \in Deliveries, ReadToClose(d) PROVE NothingUndone
  BY <1>23 DEF ReadToClose
<1>24. ASSUME NEW o \in Operators, ReadToReconcile(o) PROVE NothingUndone
  BY <1>24 DEF ReadToReconcile
<1>19. CASE UNCHANGED vars  BY <1>19
<1> QED BY <1>1, <1>2, <1>3, <1>4, <1>5, <1>6, <1>7, <1>8, <1>9, <1>10, <1>11, <1>12, <1>13, <1>14,
     <1>15, <1>16, <1>17, <1>18, <1>19, <1>20, <1>21, <1>22, <1>23, <1>24 DEF Next, Request, JobStep, Operate

\* The row of an attempt agrees with its step.
LEMMA RowStep ==
  ASSUME TypeOK, RequestInv, AttemptInv, RowInv, OutcomeInv, [Next]_vars
  PROVE  RowInv'
<1> USE ConstantsAssumption
    DEF ConstantsAssumption, RowInv, JobSteps, Running, vars, rowVars, requestVars, jobVars,
       Respond, Goto
<1>1. ASSUME NEW d \in Deliveries, NEW u \in Updates, Deliver(d, u) PROVE RowInv'
  <2>1. \A e \in Deliveries : Row(e)' = Row(e)
    BY <1>1 DEF Deliver, Row
  <2>2. \A n \in Rows : run[n] # "none" => update'[n.job] = update[n.job]
    BY <1>1, RowsUpdate DEF Deliver, TypeOK
  <2> QED BY <1>1, <2>1, <2>2 DEF Deliver, TypeOK, RequestInv
<1>2. ASSUME NEW d \in Deliveries, Insert(d) PROVE RowInv'
  <2>1. \A e \in Deliveries : Row(e)' = Row(e)
    BY <1>2 DEF Insert, Row
  <2> QED BY <1>2, <2>1 DEF Insert, TypeOK
<1>3. ASSUME NEW d \in Deliveries, Enqueue(d) PROVE RowInv'
  <2>1. \A e \in Deliveries : Row(e)' = Row(e)
    BY <1>3 DEF Enqueue, Row
  <2> QED BY <1>3, <2>1 DEF Enqueue, TypeOK, RequestInv
<1>4. ASSUME NEW d \in Deliveries, EnqueueFails(d) PROVE RowInv'
  <2>1. \A e \in Deliveries : Row(e)' = Row(e)
    BY <1>4 DEF EnqueueFails, Row
  <2> QED BY <1>4, <2>1 DEF EnqueueFails, TypeOK
<1>5. ASSUME NEW d \in Deliveries, Refuse(d) PROVE RowInv'
  <2>1. \A e \in Deliveries : Row(e)' = Row(e)
    BY <1>5 DEF Refuse, Row
  <2> QED BY <1>5, <2>1 DEF Refuse, TypeOK
<1>6. ASSUME NEW d \in Deliveries, RequestDies(d) PROVE RowInv'
  <2>1. \A e \in Deliveries : Row(e)' = Row(e)
    BY <1>6 DEF RequestDies, Row
  <2> QED BY <1>6, <2>1 DEF RequestDies, TypeOK
<1>7. ASSUME NEW d \in Deliveries, Start(d) PROVE RowInv'
  <2> DEFINE new == [job |-> d, attempt |-> attempt[d] + 1]
  <2>1. attempt' = [attempt EXCEPT ![d] = attempt[d] + 1] /\ new \in Rows /\ run[new] = "none"
    BY <1>7, NextRow, FreshRow DEF Start
  <2>2. Row(d)' = new /\ \A e \in Deliveries : e # d => Row(e)' = Row(e) /\ Row(e) # new
    BY <2>1 DEF Row, TypeOK
  <2>3. run' = run \/ run' = [run EXCEPT ![new] = "running"]
    BY <1>7 DEF Start
  <2>4. \A n \in Rows : run'[n] # "none" => n.attempt <= attempt'[n.job]
    <3>1. SUFFICES ASSUME NEW n \in Rows, run'[n] # "none" PROVE n.attempt <= attempt'[n.job]
      OBVIOUS
    <3>2. n.job \in Deliveries /\ n.attempt \in Nat  BY DEF Rows, Attempts
    <3>3. CASE n = new
      <4>1. n.job = d /\ n.attempt = attempt[d] + 1  BY <3>3
      <4> QED BY <2>1, <3>2, <4>1 DEF TypeOK
    <3>4. CASE n # new
      <4>1. n.attempt <= attempt[n.job]  BY <2>1, <2>3, <3>1, <3>4 DEF TypeOK
      <4>2. attempt'[n.job] >= attempt[n.job] /\ attempt[n.job] \in Nat /\ attempt'[n.job] \in Nat
        BY <2>1, <3>2 DEF TypeOK
      <4> QED BY <4>1, <4>2, <3>2
    <3> QED BY <3>3, <3>4
  <2>5. ASSUME NEW e \in Deliveries, e # d
        PROVE  run'[Row(e)'] = run[Row(e)] \/ job[e] \notin Running
    BY <2>1, <2>2, <2>3, <2>5, RowType DEF TypeOK
  <2>6. job'[d] \in {"resolve", "work"} => run'[Row(d)'] = "running"
    BY <1>7, <2>1, <2>2 DEF Start, TypeOK
  <2>7. /\ job'[d] \notin {"claim", "reply", "audit", "failRun", "ledger"}
        /\ job'[d] = "failLedger" => failure'[d].reason # "delivery"
    BY <1>7 DEF Start, TypeOK, NoFailure
  <2>8. \A e \in Deliveries : e # d => job'[e] = job[e] /\ failure'[e] = failure[e]
    BY <1>7 DEF Start, TypeOK
  <2>9. UNCHANGED <<work, update>>  BY <1>7 DEF Start
  <2>10. \A n \in Rows : run'[n] = "undelivered" => run[n] = "undelivered"
    BY <2>1, <2>3 DEF TypeOK
  <2> QED BY <2>4, <2>5, <2>6, <2>7, <2>8, <2>9, <2>10
<1>8. ASSUME NEW d \in Deliveries, Work(d) PROVE RowInv'
  <2>1. \A e \in Deliveries : Row(e)' = Row(e)
    BY <1>8 DEF Work, CarryOut, Row
  <2>2. \A u \in Updates : work[u] > 0 => work'[u] > 0
    BY <1>8 DEF Work, CarryOut, TypeOK
  <2>3. job'[d] = "reply" => work'[update[d]] > 0
    BY <1>8 DEF Work, CarryOut, TypeOK, RequestInv
  <2>4. /\ job'[d] \in {"reply", "failRun", "failLedger"}
        /\ job'[d] # "reply" => failure'[d].reason = "other"
    BY <1>8 DEF Work, CarryOut, TypeOK, Failures
  <2>5. \A e \in Deliveries : e # d => job'[e] = job[e] /\ failure'[e] = failure[e]
    BY <1>8 DEF Work, CarryOut, TypeOK
  <2>6. job[d] = "work" /\ UNCHANGED <<run, update, attempt>>
    BY <1>8 DEF Work, CarryOut
  <2>7. \A e \in Deliveries : job[e] # "none" => update[e] \in Updates
    BY DEF RequestInv, RequestSteps, TypeOK
  <2>8. \A n \in Rows : run[n] # "none" => update[n.job] \in Updates
    BY RowsUpdate
  <2> QED BY <2>1, <2>2, <2>3, <2>4, <2>5, <2>6, <2>7, <2>8
<1>9. ASSUME NEW d \in Deliveries, Reply(d) PROVE RowInv'
  <2>1. \A e \in Deliveries : Row(e)' = Row(e)
    BY <1>9 DEF Reply, Row
  <2> QED BY <1>9, <2>1 DEF Reply, TypeOK
<1>10. ASSUME NEW d \in Deliveries, Audit(d) PROVE RowInv'
  <2>1. /\ \A e \in Deliveries : Row(e)' = Row(e) /\ (e # d => Row(e) # Row(d))
        /\ Row(d) \in Rows /\ run[Row(d)] = "running"
    BY <1>10, RowType, RowsDiffer DEF Audit, Row
  <2>2. run' = run \/ run' = [run EXCEPT ![Row(d)] = "succeeded"]
    BY <1>10 DEF Audit
  <2>3. \A n \in Rows : run'[n] # "none" => run[n] # "none"
    BY <2>1, <2>2 DEF TypeOK
  <2>4. \A e \in Deliveries : e # d =>
           (job[e] \in Running => run'[Row(e)'] = run[Row(e)]) /\ job'[e] = job[e] /\ failure'[e] = failure[e]
    BY <1>10, <2>1, <2>2, RowType DEF Audit, TypeOK
  <2>5. run'[Row(d)'] # "none" /\ UNCHANGED <<attempt, update, work>>
    BY <1>10, <2>1, <2>2 DEF Audit, TypeOK
  <2>6. job'[d] = "ledger" => run'[Row(d)'] = "succeeded"
    BY <1>10, <2>1 DEF Audit, TypeOK
  <2>7. job'[d] \notin {"resolve", "claim", "work", "reply", "audit", "failRun"}
    BY <1>10 DEF Audit, TypeOK
  <2>8. \/ work[update[d]] > 0
        \/ job'[d] = "failLedger" /\ (failure'[d].reason = "delivery" => work[update[d]] > 0)
    BY <1>10 DEF Audit, TypeOK
  <2>9. \A n \in Rows : run'[n] = "undelivered" => run[n] = "undelivered"
    BY <2>1, <2>2 DEF TypeOK
  <2> QED BY <2>1, <2>3, <2>4, <2>5, <2>6, <2>7, <2>8, <2>9
<1>11. ASSUME NEW d \in Deliveries, MarkSucceeded(d) PROVE RowInv'
  <2>1. \A e \in Deliveries : Row(e)' = Row(e)
    BY <1>11 DEF MarkSucceeded, Row
  <2> QED BY <1>11, <2>1 DEF MarkSucceeded, TypeOK
<1>12. ASSUME NEW d \in Deliveries, FailRun(d) PROVE RowInv'
  <2>1. /\ \A e \in Deliveries : Row(e)' = Row(e) /\ (e # d => Row(e) # Row(d))
        /\ Row(d) \in Rows /\ run[Row(d)] = "running"
    BY <1>12, RowType, RowsDiffer DEF FailRun, NotifyUser, Row
  <2>2. run' = run \/ run' = [run EXCEPT ![Row(d)] =
                               IF failure[d].reason = "delivery" THEN "undelivered" ELSE "failed"]
    BY <1>12 DEF FailRun, NotifyUser
  <2>3. \A n \in Rows : run'[n] # "none" => run[n] # "none"
    BY <2>1, <2>2 DEF TypeOK
  <2>4. \A e \in Deliveries : e # d =>
           (job[e] \in Running => run'[Row(e)'] = run[Row(e)]) /\ job'[e] = job[e] /\ failure'[e] = failure[e]
    BY <1>12, <2>1, <2>2, RowType DEF FailRun, NotifyUser, TypeOK
  <2>5. run'[Row(d)'] # "none" /\ UNCHANGED <<attempt, update, work>>
    BY <1>12, <2>1, <2>2 DEF FailRun, NotifyUser, TypeOK
  <2>6. job'[d] = "ledger" => run'[Row(d)'] = "succeeded"
    BY <1>12, <2>1 DEF FailRun, NotifyUser, TypeOK
  <2>7. job'[d] \notin {"resolve", "claim", "work", "reply", "audit", "failRun"}
    BY <1>12 DEF FailRun, NotifyUser, TypeOK
  <2>8. \/ work[update[d]] > 0
        \/ job'[d] = "failLedger" /\ (failure'[d].reason = "delivery" => work[update[d]] > 0)
    BY <1>12 DEF FailRun, NotifyUser, TypeOK
  <2>9. \A n \in Rows : run'[n] = "undelivered" =>
           run[n] = "undelivered" \/ (n.job = d /\ work[update[d]] > 0)
    BY <1>12, <2>1, <2>2, RowType DEF FailRun, TypeOK
  <2> QED BY <2>1, <2>3, <2>4, <2>5, <2>6, <2>7, <2>8, <2>9
<1>13. ASSUME NEW d \in Deliveries, FailLedger(d) PROVE RowInv'
  <2>1. \A e \in Deliveries : Row(e)' = Row(e)
    BY <1>13 DEF FailLedger, NamedRun, Row
  <2> QED BY <1>13, <2>1 DEF FailLedger, TypeOK, NamedRun
<1>14. ASSUME NEW d \in Deliveries, Raised(d) PROVE RowInv'
  <2>1. \A e \in Deliveries : Row(e)' = Row(e)
    BY <1>14 DEF Raised, Forget, Retry, Row
  <2> QED BY <1>14, <2>1 DEF Raised, Forget, TypeOK, Retry
<1>15. ASSUME NEW d \in Deliveries, Returned(d) PROVE RowInv'
  <2>1. \A e \in Deliveries : Row(e)' = Row(e)
    BY <1>15 DEF Returned, Forget, Row
  <2> QED BY <1>15, <2>1 DEF Returned, Forget, TypeOK
<1>16. ASSUME NEW d \in Deliveries, WorkerDies(d) PROVE RowInv'
  <2>1. \A e \in Deliveries : Row(e)' = Row(e)
    BY <1>16 DEF WorkerDies, Forget, Retry, Row
  <2> QED BY <1>16, <2>1 DEF WorkerDies, Forget, TypeOK, Retry
<1>17. ASSUME NEW o \in Operators, NEW u \in Updates, Inspect(o, u) PROVE RowInv'
  <2>1. \A e \in Deliveries : Row(e)' = Row(e)
    BY <1>17 DEF Inspect, Row
  <2> QED BY <1>17, <2>1 DEF Inspect, TypeOK
<1>18. ASSUME NEW o \in Operators, Reconcile(o) PROVE RowInv'
  <2>1. \A e \in Deliveries : Row(e)' = Row(e)
    BY <1>18 DEF Reconcile, Row
  <2>2. opc[o].run \in Rows /\ run[opc[o].run] \notin {"none", "running"}
    BY <1>18 DEF Reconcile, OutcomeInv, RunOf
  <2>3. run' = run \/ run' = [run EXCEPT ![opc[o].run] = "succeeded"]
    BY <1>18 DEF Reconcile, CloseBoth, Undelivered
  <2>4. \A e \in Deliveries : job[e] \in Running => Row(e) \in Rows
    BY RowType
  <2>5. \A n \in Rows : /\ run'[n] # "none" <=> run[n] # "none"
                        /\ run[n] = "running" => run'[n] = "running"
                        /\ run[n] = "succeeded" => run'[n] = "succeeded"
                        /\ run'[n] = "undelivered" => run[n] = "undelivered"
    BY <2>2, <2>3 DEF TypeOK
  <2>6. UNCHANGED <<work, requestVars, jobVars>>  BY <1>18 DEF Reconcile
  <2> QED BY <2>1, <2>4, <2>5, <2>6
<1>20. ASSUME NEW d \in Deliveries, Resolve(d) PROVE RowInv'
  <2>1. \A e \in Deliveries : Row(e)' = Row(e)
    BY <1>20 DEF Resolve, RefusePress, Row
  <2>2. failure'[d].reason = "other" \/ job'[d] \in {"claim", "work"}
    BY <1>20 DEF Resolve, RefusePress, TypeOK, Failures
  <2> QED BY <1>20, <2>1, <2>2 DEF Resolve, RefusePress, TypeOK
<1>21. ASSUME NEW d \in Deliveries, Claim(d) PROVE RowInv'
  <2>1. \A e \in Deliveries : Row(e)' = Row(e)
    BY <1>21 DEF Claim, Acknowledge, RefusePress, Row
  <2>2. CASE Acknowledge(d)
    BY <1>21, <2>1, <2>2 DEF Claim, Acknowledge, TypeOK
  <2>3. CASE RefusePress(d)
    <3>1. failure'[d].reason = "other"
      BY <2>3 DEF RefusePress, TypeOK, Failures
    <3> QED BY <1>21, <2>1, <2>3, <3>1 DEF Claim, RefusePress, TypeOK
  <2> QED BY <1>21, <2>2, <2>3 DEF Claim
<1>22. ASSUME NEW d \in Deliveries, ReadToRefuse(d) PROVE RowInv'
  <2>1. \A e \in Deliveries : Row(e)' = Row(e)
    BY <1>22 DEF ReadToRefuse, Row
  <2> QED BY <1>22, <2>1 DEF ReadToRefuse
<1>23. ASSUME NEW d \in Deliveries, ReadToClose(d) PROVE RowInv'
  <2>1. \A e \in Deliveries : Row(e)' = Row(e)
    BY <1>23 DEF ReadToClose, Row
  <2> QED BY <1>23, <2>1 DEF ReadToClose
<1>24. ASSUME NEW o \in Operators, ReadToReconcile(o) PROVE RowInv'
  <2>1. \A e \in Deliveries : Row(e)' = Row(e)
    BY <1>24 DEF ReadToReconcile, Row
  <2> QED BY <1>24, <2>1 DEF ReadToReconcile
<1>19. CASE UNCHANGED vars  BY <1>19 DEF Row
<1> QED BY <1>1, <1>2, <1>3, <1>4, <1>5, <1>6, <1>7, <1>8, <1>9, <1>10, <1>11, <1>12, <1>13, <1>14,
     <1>15, <1>16, <1>17, <1>18, <1>19, <1>20, <1>21, <1>22, <1>23, <1>24 DEF Next, Request, JobStep, Operate

\* What stands behind a success or a named run stays.
LEMMA StaysBacked ==
  ASSUME TypeOK, TypeOK', NothingUndone, NEW u \in Updates
  PROVE  /\ work[u] > 0 => work'[u] > 0
         /\ Backed(u) => NextBacked(u)
         /\ \A n \in Rows : RunOf(u, n) => NextRunOf(u, n)
<1>1. work[u] > 0 => work'[u] > 0
  BY DEF TypeOK, NothingUndone
<1>2. \A n \in Rows : update[n.job] = u /\ run[n] = "succeeded" =>
                          update'[n.job] = u /\ run'[n] = "succeeded"
  BY DEF NothingUndone
<1>3. \A n \in Rows : RunOf(u, n) => NextRunOf(u, n)
  BY DEF NothingUndone, RunOf, NextRunOf
<1>4. Backed(u) => NextBacked(u)
  BY <1>1, <1>2 DEF Backed, NextBacked
<1> QED BY <1>1, <1>3, <1>4

\* What a step must show of the one ledger row it writes.
LEMMA OutcomeFrame ==
  ASSUME TypeOK, TypeOK', OutcomeInv, NothingUndone, UNCHANGED opc, NEW u \in Updates,
         \A v \in Updates : v # u => ledger'[v] = ledger[v],
         ledger'[u].reason = "delivery" => work'[u] > 0,
         ledger'[u].run \in Rows => NextRunOf(u, ledger'[u].run),
         ledger'[u].status = "succeeded" => NextBacked(u)
  PROVE  OutcomeInv'
<1>1. \A v \in Updates :
        /\ ledger'[v].reason = "delivery" => work'[v] > 0
        /\ ledger'[v].run \in Rows => NextRunOf(v, ledger'[v].run)
        /\ ledger'[v].status = "succeeded" => NextBacked(v)
  BY StaysBacked DEF OutcomeInv
<1>2. \A o \in Operators : opc[o] # Idle => NextRunOf(opc[o].update, opc[o].run) /\ work'[opc[o].update] > 0
  BY StaysBacked DEF OutcomeInv
<1>3. \A o \in Operators : opc[o] # Idle => run'[opc[o].run] # "running"
  BY DEF OutcomeInv, RunOf, NextRunOf, NothingUndone
<1> QED BY <1>1, <1>2, <1>3 DEF OutcomeInv, RunOf, NextRunOf, Backed, NextBacked

LEMMA OutcomeSame ==
  ASSUME TypeOK, TypeOK', OutcomeInv, NothingUndone, UNCHANGED <<ledger, opc>>
  PROVE  OutcomeInv'
<1>1. \A v \in Updates :
        /\ ledger'[v].reason = "delivery" => work'[v] > 0
        /\ ledger'[v].run \in Rows => NextRunOf(v, ledger'[v].run)
        /\ ledger'[v].status = "succeeded" => NextBacked(v)
  BY StaysBacked DEF OutcomeInv
<1>2. \A o \in Operators : opc[o] # Idle => NextRunOf(opc[o].update, opc[o].run) /\ work'[opc[o].update] > 0
  BY StaysBacked DEF OutcomeInv
<1>3. \A o \in Operators : opc[o] # Idle => run'[opc[o].run] # "running"
  BY DEF OutcomeInv, RunOf, NextRunOf, NothingUndone
<1> QED BY <1>1, <1>2, <1>3 DEF OutcomeInv, RunOf, NextRunOf, Backed, NextBacked

\* A close whose columns are each right by themselves.
LEMMA OutcomeClose ==
  ASSUME TypeOK, TypeOK', OutcomeInv, NothingUndone, UNCHANGED opc, NEW c, NEW u \in Updates,
         NEW new \in LedgerRows, UNCHANGED ledger \/ WriteLedger(c, u, new),
         new.reason = "delivery" => work'[u] > 0,
         new.run \in Rows => NextRunOf(u, new.run),
         new.status = "succeeded" => NextBacked(u)
  PROVE  OutcomeInv'
<1>1. CASE UNCHANGED ledger  BY <1>1, OutcomeSame
<1>2. CASE WriteLedger(c, u, new)
  <2>1. /\ ledger'[u].status \in {new.status, ledger[u].status}
        /\ ledger'[u].reason \in {new.reason, ledger[u].reason}
        /\ ledger'[u].run \in {new.run, ledger[u].run}
        /\ \A v \in Updates : v # u => ledger'[v] = ledger[v]
    BY <1>2, Written
  <2>2. ledger'[u].reason = "delivery" => work'[u] > 0
    BY <2>1, StaysBacked DEF OutcomeInv
  <2>3. ledger'[u].run \in Rows => NextRunOf(u, ledger'[u].run)
    <3>1. CASE ledger'[u].run = new.run  BY <3>1
    <3>2. CASE ledger'[u].run = ledger[u].run
      <4>1. ledger[u].run \in Rows => NextRunOf(u, ledger[u].run)
        BY StaysBacked DEF OutcomeInv
      <4> QED BY <3>2, <4>1 DEF RunOf, NextRunOf
    <3> QED BY <2>1, <3>1, <3>2
  <2>4. ledger'[u].status = "succeeded" => NextBacked(u)
    BY <2>1, StaysBacked DEF OutcomeInv
  <2> QED BY <2>1, <2>2, <2>3, <2>4, OutcomeFrame
<1> QED BY <1>1, <1>2

\* What is recorded is backed by the row and the work.
LEMMA OutcomeStep ==
  ASSUME TypeOK, TypeOK', RequestInv, AttemptInv, RowInv, OutcomeInv, NothingUndone, [Next]_vars
  PROVE  OutcomeInv'
<1> USE ConstantsAssumption
    DEF ConstantsAssumption, Running, JobSteps, vars, rowVars, requestVars, jobVars, Respond,
       Goto
<1>1. ASSUME NEW d \in Deliveries, NEW u \in Updates, Deliver(d, u) PROVE OutcomeInv'
  BY <1>1, OutcomeSame DEF Deliver
<1>2. ASSUME NEW d \in Deliveries, Insert(d) PROVE OutcomeInv'
  <2>1. update[d] \in Updates  BY <1>2 DEF Insert, RequestInv
  <2>2. CASE UNCHANGED ledger  BY <1>2, <2>2, OutcomeSame DEF Insert
  <2>3. CASE ledger' = [ledger EXCEPT ![update[d]] = Claimed]
    <3>1. /\ ledger'[update[d]] = Claimed
          /\ \A v \in Updates : v # update[d] => ledger'[v] = ledger[v]
      BY <2>1, <2>3, Inserted
    <3>2. NoRow \notin Rows  BY DEF NoRow, Rows, Attempts
    <3>3. /\ ledger'[update[d]].reason # "delivery" /\ ledger'[update[d]].status # "succeeded"
          /\ ledger'[update[d]].run \notin Rows
      BY <3>1, <3>2 DEF Claimed
    <3>4. UNCHANGED opc  BY <1>2 DEF Insert
    <3> QED BY <2>1, <3>1, <3>3, <3>4, OutcomeFrame
  <2> QED BY <1>2, <2>2, <2>3 DEF Insert
<1>3. ASSUME NEW d \in Deliveries, Enqueue(d) PROVE OutcomeInv'
  BY <1>3, OutcomeSame DEF Enqueue
<1>4. ASSUME NEW d \in Deliveries, EnqueueFails(d) PROVE OutcomeInv'
  BY <1>4, OutcomeSame DEF EnqueueFails
<1>5. ASSUME NEW d \in Deliveries, Refuse(d) PROVE OutcomeInv'
  <2> DEFINE new == Failure("other", NoRow)
  <2>1. update[d] \in Updates /\ UNCHANGED opc  BY <1>5 DEF Refuse, RequestInv
  <2>2. NoRow \notin Rows  BY DEF NoRow, Rows, Attempts
  <2>3. new \in LedgerRows  BY ClosedType DEF Reasons
  <2>4. new.reason # "delivery" /\ new.status # "succeeded" /\ new.run \notin Rows
    BY <2>2 DEF Failure
  <2>5. UNCHANGED ledger \/ WriteLedger(RequestOf(d), update[d], new)  BY <1>5 DEF Refuse
  <2> HIDE DEF new
  <2> QED BY <2>1, <2>3, <2>4, <2>5, OutcomeClose
<1>6. ASSUME NEW d \in Deliveries, RequestDies(d) PROVE OutcomeInv'
  BY <1>6, OutcomeSame DEF RequestDies
<1>7. ASSUME NEW d \in Deliveries, Start(d) PROVE OutcomeInv'
  BY <1>7, OutcomeSame DEF Start
<1>8. ASSUME NEW d \in Deliveries, Work(d) PROVE OutcomeInv'
  BY <1>8, OutcomeSame DEF Work, CarryOut
<1>9. ASSUME NEW d \in Deliveries, Reply(d) PROVE OutcomeInv'
  BY <1>9, OutcomeSame DEF Reply
<1>10. ASSUME NEW d \in Deliveries, Audit(d) PROVE OutcomeInv'
  BY <1>10, OutcomeSame DEF Audit
<1>11. ASSUME NEW d \in Deliveries, MarkSucceeded(d) PROVE OutcomeInv'
  <2> DEFINE new == Success(Row(d))
  <2>1. update[d] \in Updates /\ Row(d) \in Rows /\ UNCHANGED <<opc, run, work, update>>
    BY <1>11, RowType DEF MarkSucceeded, RequestInv
  <2>2. new \in LedgerRows  BY <2>1, ClosedType
  <2>3. new.reason # "delivery" /\ new.run = Row(d)  BY DEF Success
  <2>4. run'[Row(d)] = "succeeded" /\ work'[update[d]] > 0 /\ update'[Row(d).job] = update[d]
    BY <1>11, <2>1, RowType DEF MarkSucceeded, RowInv
  <2>5. NextBacked(update[d]) /\ NextRunOf(update[d], Row(d))
    BY <1>11, <2>1, <2>4 DEF Backed, NextBacked, RunOf, NextRunOf
  <2>6. UNCHANGED ledger \/ WriteLedger(JobOf(d), update[d], new)  BY <1>11 DEF MarkSucceeded
  <2>7. new.run \in Rows => NextRunOf(update[d], new.run)
    BY <2>3, <2>4 DEF RunOf, NextRunOf
  <2>8. new.status = "succeeded" => NextBacked(update[d])
    BY <2>1, <2>4 DEF Backed, NextBacked
  <2> HIDE DEF new
  <2> QED BY <2>1, <2>2, <2>3, <2>6, <2>7, <2>8, OutcomeClose
<1>12. ASSUME NEW d \in Deliveries, FailRun(d) PROVE OutcomeInv'
  BY <1>12, OutcomeSame DEF FailRun, NotifyUser
<1>13. ASSUME NEW d \in Deliveries, FailLedger(d) PROVE OutcomeInv'
  <2> DEFINE new == Failure(failure[d].reason, NamedRun(d))
  <2>1. /\ update[d] \in Updates /\ failure[d].reason \in Reasons
        /\ NamedRun(d) \in Rows \cup {NoRow} /\ UNCHANGED <<opc, run, work, update>>
    BY <1>13, NamedRunType DEF FailLedger, Failures, RequestInv, TypeOK
  <2>2. new \in LedgerRows  BY <2>1, ClosedType
  <2>3. /\ new.reason = failure[d].reason /\ new.status # "succeeded"
        /\ new.run = NamedRun(d)
    BY DEF Failure
  <2>4. new.reason = "delivery" => work'[update[d]] > 0
    BY <1>13, <2>1, <2>3 DEF FailLedger, RowInv
  <2>5. NoRow \notin Rows  BY DEF NoRow, Rows, Attempts
  <2>6. NamedRun(d) \in Rows => run[NamedRun(d)] # "none" /\ NamedRun(d).job = d
    BY <1>13, <2>5, RowType DEF FailLedger, NamedRun
  <2>7. new.run \in Rows => NextRunOf(update[d], new.run)
    BY <2>1, <2>3, <2>6 DEF RunOf, NextRunOf
  <2>8. UNCHANGED ledger \/ WriteLedger(JobOf(d), update[d], new)  BY <1>13 DEF FailLedger
  <2> HIDE DEF new
  <2> QED BY <2>1, <2>2, <2>3, <2>4, <2>7, <2>8, OutcomeClose
<1>14. ASSUME NEW d \in Deliveries, Raised(d) PROVE OutcomeInv'
  BY <1>14, OutcomeSame DEF Raised, Forget, Retry
<1>15. ASSUME NEW d \in Deliveries, Returned(d) PROVE OutcomeInv'
  BY <1>15, OutcomeSame DEF Returned, Forget
<1>16. ASSUME NEW d \in Deliveries, WorkerDies(d) PROVE OutcomeInv'
  BY <1>16, OutcomeSame DEF WorkerDies, Forget, Retry
<1>17. ASSUME NEW o \in Operators, NEW u \in Updates, Inspect(o, u) PROVE OutcomeInv'
  <2>1. opc' = [opc EXCEPT ![o] = [update |-> u, run |-> ledger[u].run]]
    BY <1>17 DEF Inspect
  <2>2. UNCHANGED <<ledger, run, work, update>>
    BY <1>17 DEF Inspect
  <2>3. /\ ledger[u].run \in Rows /\ RunOf(u, ledger[u].run)
        /\ run[ledger[u].run] # "running"
    BY <1>17 DEF Inspect, Eligible, OutcomeInv
  <2>4. work[u] > 0
    BY <1>17, <2>3 DEF Inspect, Eligible, OutcomeInv, RowInv, RunOf
  <2>5. \A p \in Operators : p # o => opc'[p] = opc[p]
    BY <2>1 DEF TypeOK
  <2>6. opc'[o].update = u /\ opc'[o].run = ledger[u].run
    BY <2>1 DEF TypeOK
  <2>7. \A p \in Operators : opc'[p] # Idle =>
           /\ opc'[p].update \in Updates /\ work[opc'[p].update] > 0
           /\ opc'[p].run \in Rows /\ RunOf(opc'[p].update, opc'[p].run)
           /\ run[opc'[p].run] # "running"
    BY <2>3, <2>4, <2>5, <2>6 DEF OutcomeInv
  <2> QED BY <2>2, <2>7 DEF OutcomeInv, RunOf, Backed
<1>18. ASSUME NEW o \in Operators, Reconcile(o) PROVE OutcomeInv'
  <2> DEFINE v == opc[o].update
             n == opc[o].run
             new == Success(n)
  <2>1. v \in Updates /\ work[v] > 0 /\ n \in Rows /\ RunOf(v, n) /\ UNCHANGED <<work, update>>
    BY <1>18 DEF Reconcile, OutcomeInv
  <2>2. new \in LedgerRows  BY <2>1, ClosedType
  <2>3. new.reason # "delivery" /\ new.run = n  BY DEF Success
  <2>4. \A p \in Operators : opc'[p] = opc[p] \/ opc'[p] = Idle
    BY <1>18 DEF Reconcile, TypeOK
  <2>5. \A u \in Updates :
          /\ ledger'[u].reason = "delivery" => work'[u] > 0
          /\ ledger'[u].run \in Rows => NextRunOf(u, ledger'[u].run)
          /\ ledger'[u].status = "succeeded" => NextBacked(u)
    <3>1. CASE UNCHANGED ledger
      BY <3>1, StaysBacked DEF OutcomeInv
    <3>2. CASE CloseBoth(o)
      <4>1. run'[n] = "succeeded" /\ WriteLedger(OperatorOf(o), v, new)
        BY <2>1, <3>2 DEF CloseBoth, TypeOK
      <4>2. /\ ledger'[v].reason \in {new.reason, ledger[v].reason}
            /\ ledger'[v].run \in {new.run, ledger[v].run}
            /\ \A w \in Updates : w # v => ledger'[w] = ledger[w]
        BY <2>1, <2>2, <4>1, Written
      <4>3. NextBacked(v) /\ NextRunOf(v, n)
        BY <2>1, <4>1 DEF Backed, NextBacked, RunOf, NextRunOf
      <4>4. ledger'[v].run \in Rows => NextRunOf(v, ledger'[v].run)
        <5>1. ledger[v].run \in Rows => NextRunOf(v, ledger[v].run)
          BY <2>1, StaysBacked DEF OutcomeInv
        <5> QED BY <2>3, <4>2, <4>3, <5>1 DEF RunOf, NextRunOf
      <4>5. ledger'[v].reason = "delivery" => work'[v] > 0
        BY <2>1
      <4>6. \A w \in Updates : w # v =>
              /\ ledger'[w].reason = "delivery" => work'[w] > 0
              /\ ledger'[w].run \in Rows => NextRunOf(w, ledger'[w].run)
              /\ ledger'[w].status = "succeeded" => NextBacked(w)
        BY <4>2, StaysBacked DEF OutcomeInv
      <4> HIDE DEF v, n, new
      <4> QED BY <4>3, <4>4, <4>5, <4>6
    <3> QED BY <1>18, <3>1, <3>2 DEF Reconcile, Undelivered
  <2>6. \A p \in Operators : opc[p] # Idle =>
           NextRunOf(opc[p].update, opc[p].run) /\ work'[opc[p].update] > 0
    BY StaysBacked DEF OutcomeInv
  <2>7. \A p \in Operators : opc[p] # Idle => run'[opc[p].run] # "running"
    BY DEF OutcomeInv, RunOf, NextRunOf, NothingUndone
  <2> QED BY <2>4, <2>5, <2>6, <2>7 DEF OutcomeInv, RunOf, NextRunOf, Backed, NextBacked
<1>20. ASSUME NEW d \in Deliveries, Resolve(d) PROVE OutcomeInv'
  BY <1>20, OutcomeSame DEF Resolve, RefusePress
<1>21. ASSUME NEW d \in Deliveries, Claim(d) PROVE OutcomeInv'
  BY <1>21, OutcomeSame DEF Claim, Acknowledge, RefusePress
<1>22. ASSUME NEW d \in Deliveries, ReadToRefuse(d) PROVE OutcomeInv'
  BY <1>22, OutcomeSame DEF ReadToRefuse
<1>23. ASSUME NEW d \in Deliveries, ReadToClose(d) PROVE OutcomeInv'
  BY <1>23, OutcomeSame DEF ReadToClose
<1>24. ASSUME NEW o \in Operators, ReadToReconcile(o) PROVE OutcomeInv'
  BY <1>24, OutcomeSame DEF ReadToReconcile
<1>19. CASE UNCHANGED vars  BY <1>19, OutcomeSame
<1> QED BY <1>1, <1>2, <1>3, <1>4, <1>5, <1>6, <1>7, <1>8, <1>9, <1>10, <1>11, <1>12, <1>13, <1>14,
     <1>15, <1>16, <1>17, <1>18, <1>19, <1>20, <1>21, <1>22, <1>23, <1>24 DEF Next, Request, JobStep, Operate

-----------------------------------------------------------------------------
(* The theorems. *)

IInv == OwnInv /\ AttemptInv /\ WorkInv /\ PressInv /\ RowInv /\ OutcomeInv

LEMMA InvInit == Init => IInv
<1>1. Init => WorkInv  BY DEF Init, WorkInv
<1>2. Init => RowInv  BY DEF Init, RowInv
<1>4. Init => PressInv
  BY ConstantsAssumption DEF ConstantsAssumption, Init, PressInv, Acting
<1>3. Init => OutcomeInv
  BY DEF Init, OutcomeInv, Unclaimed, NoRow, Rows, Attempts
<1> QED BY OwnInit, <1>1, <1>2, <1>3, <1>4 DEF IInv

LEMMA InvStep == IInv /\ [Next]_vars => IInv'
<1>1. SUFFICES ASSUME IInv, [Next]_vars PROVE IInv'
  OBVIOUS
<1>2. TypeOK /\ RequestInv /\ OneOwner /\ AttemptInv /\ WorkInv /\ PressInv /\ RowInv /\ OutcomeInv
  BY <1>1 DEF IInv, OwnInv
<1>3. TypeOK' /\ RequestInv' /\ OneOwner' /\ AttemptInv'
  BY <1>1, <1>2, TypeStep, RequestStep, OwnerStep, AttemptStep
<1>4. WorkInv' /\ PressInv' /\ RowInv' /\ NothingUndone
  BY <1>1, <1>2, WorkStep, PressStep, RowStep, UndoStep
<1>5. OutcomeInv'
  BY <1>1, <1>2, <1>3, <1>4, OutcomeStep
<1> QED BY <1>3, <1>4, <1>5 DEF IInv, OwnInv

LEMMA Inductive == Spec => []IInv
  BY InvInit, InvStep, PTL DEF Spec

\* The state always has the shape TypeOK gives it.
THEOREM TypeCorrect == Spec => []TypeOK
<1>1. IInv => TypeOK  BY DEF IInv, OwnInv
<1> QED BY <1>1, Inductive, PTL

\* Any number of deliveries of an update have one owner between them.
THEOREM UpdateHasOneOwner == Spec => []OneOwner
<1>1. IInv => OneOwner  BY DEF IInv, OwnInv
<1> QED BY <1>1, Inductive, PTL

\* A succeeded ledger row is backed by committed work and by a succeeded run of
\* its update, however the columns of overlapping closes mix.
THEOREM SucceededIsAlwaysBacked == Spec => []SucceededIsBacked
<1>1. IInv => SucceededIsBacked  BY DEF IInv, OutcomeInv, SucceededIsBacked, Backed
<1> QED BY <1>1, Inductive, PTL

\* The work of an update is done at most once per attempt the queue allows, and
\* that of a button once for all its presses together.
THEOREM WorkStaysBounded == Spec => []WorkIsBounded
<1>1. IInv => WorkIsBounded
  <2>0. IInv => \A u, v \in Presses : work[u] > 0 /\ work[v] > 0 => u = v /\ work[u] = 1
    BY DEF IInv, PressInv
  <2>1. SUFFICES ASSUME IInv, NEW u \in Updates PROVE work[u] <= Retries + 1
    BY <2>0 DEF WorkIsBounded
  <2>2. work[u] \in Nat /\ Retries \in Nat
    BY <2>1, ConstantsAssumption DEF IInv, OwnInv, TypeOK, Retries, ConstantsAssumption
  <2>3. CASE work[u] = 0  BY <2>2, <2>3
  <2>4. CASE work[u] > 0
    <3>1. PICK d \in Deliveries : job[d] # "none" /\ update[d] = u
      BY <2>1, <2>4 DEF IInv, WorkInv
    <3>2. work[u] <= attempt[d] /\ attempt[d] <= Retries + 1 /\ attempt[d] \in Nat
      BY <2>1, <3>1 DEF IInv, OwnInv, WorkInv, AttemptInv, TypeOK
    <3> QED BY <2>2, <3>2
  <2> QED BY <2>2, <2>3, <2>4
<1> QED BY <1>1, Inductive, PTL
=============================================================================
