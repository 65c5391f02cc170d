------------------------ MODULE IndexSessionsProofs ------------------------
(***************************************************************************)
(* Proofs about IndexSessions, for any pages, workers, runs and bounds.    *)
(***************************************************************************)
EXTENDS IndexSessions, TLAPS

\* The right to work for the session is one: a call that is at one of these
\* steps has it, or a queued job.
Holding == {"start", "mark", "enqueue", "discover", "index", "fail"}
Free == jobs = {} /\ \A w \in Workers : pc[w] \notin Holding

Unconfirmed == session.state \in {"none", "offered", "cancelled"}

HolderInv ==
    /\ \A w \in Workers : pc[w] \in Holding =>
          jobs = {} /\ \A x \in Workers \ {w} : pc[x] \notin Holding
    /\ \A r, s \in jobs : r = s
    /\ Unconfirmed =>
          Free /\ told \cap Outcomes = {} /\ \A w \in Workers : pc[w] \notin {"read", "complete"}
    /\ \A w \in Workers : pc[w] \in {"read", "complete"} => Free
    /\ told \cap Outcomes # {} => Free
    /\ \A w \in Workers : pc[w] \in {"refuse", "refused"} => faults > 0

\* The steps of a call that has opened a run.
Opened == {"mark", "enqueue", "refuse", "refused", "discover", "index", "fail", "read", "complete"}

\* What a job or a step has behind it.
StageAt(w) ==
    /\ pc[w] = "start" => \A r \in Runs : run[r].status = "none"
    /\ pc[w] \in {"idle", "confirm", "cancel"} => work[w] = NoLocals
    /\ pc[w] \in Opened => work[w].runs # {}
    /\ \A r \in work[w].runs : run[r].status # "none"
    /\ pc[w] \in {"mark", "enqueue", "discover"} => kind = "full"

StageInv ==
    /\ Unconfirmed => \A r \in Runs : run[r].status = "none"
    /\ \A w \in Workers : StageAt(w)
    /\ \A r \in jobs : kind = "full" /\ run[r].status # "none"
    /\ \A r \in reconciling : run[r].status # "none"

\* What a call has done is what has been committed, the page that failed apart.
PagesAt(w) ==
    /\ pc[w] \in {"start", "mark", "enqueue", "discover"} => committed = {} /\ work[w].done = {}
    /\ pc[w] \in {"index", "fail"} => work[w].done \subseteq work[w].found
    /\ pc[w] \in {"start", "index", "fail"} /\ kind = "sync" => work[w].found = session.selected
    /\ pc[w] \in {"start", "mark", "enqueue", "discover", "index"} => work[w].failed = {}
    /\ pc[w] = "index" => work[w].done = committed
    /\ pc[w] = "fail" =>
          /\ work[w].done \subseteq committed
          /\ committed \subseteq work[w].done \cup work[w].failed
          /\ faults = 0 => work[w].failed \cap committed = {}

PagesInv ==
    /\ Unconfirmed \/ jobs # {} => committed = {}
    /\ \A w \in Workers : PagesAt(w)

\* The row is closed by its worker when nobody has the right to work any more.
RowInv ==
    /\ RowTellsTruth
    /\ ~Free \/ Unconfirmed => \A r \in Runs : run[r].by # "worker"

\* At most one row is opened.
OneRun == \A r, s \in Runs : run[r].status # "none" /\ run[s].status # "none" => r = s

\* Nobody lost a write, and no row is an operator's.
Clean == faults = 0 /\ \A r \in Runs : run[r].by # "operator"

\* A reply comes from the row, or from the call that closed it.
RepliesAt(w) ==
    /\ pc[w] = "read" /\ faults = 0 =>
          \A r \in work[w].runs : run[r].by = "operator" \/ run[r].done = committed
    /\ pc[w] = "complete" /\ Clean =>
          /\ work[w].outcome = "failed" => committed = {}
          /\ work[w].outcome = "partially_failed" => committed # {}
          /\ work[w].outcome = "succeeded" /\ kind = "sync" => committed = session.selected

RepliesInv == RepliesTellTruth /\ \A w \in Workers : RepliesAt(w)

SafeInv == HolderInv /\ StageInv /\ PagesInv /\ RowInv /\ OneRun /\ RepliesInv

IInv == TypeOK /\ SafeInv

-----------------------------------------------------------------------------
(* The types of what a step assigns. *)

LEMMA BlankTypes == NoRow \in Rows /\ NoLocals \in Locals
BY DEF NoRow, Rows, NoLocals, Locals, Outcomes

LEMMA GotoType ==
  ASSUME TypeOK, NEW w \in Workers, NEW step \in Steps, Goto(w, step)
  PROVE  pc' \in [Workers -> Steps]
BY DEF TypeOK, Goto

LEMMA ReturnType ==
  ASSUME TypeOK, NEW w \in Workers, Return(w)
  PROVE  pc' \in [Workers -> Steps] /\ work' \in [Workers -> Locals]
<1>1. "idle" \in Steps
  BY DEF Steps
<1> QED BY <1>1, GotoType, BlankTypes DEF Return, TypeOK

LEMMA AnswerType ==
  ASSUME TypeOK, NEW w \in Workers, NEW outcome \in Outcomes, Answer(w, outcome)
  PROVE  pc' \in [Workers -> Steps] /\ work' \in [Workers -> Locals]
<1>1. CASE work[w].answers
  <2>1. "complete" \in Steps
    BY DEF Steps
  <2>2. [work[w] EXCEPT !.outcome = outcome] \in Locals
    BY DEF TypeOK, Locals
  <2> QED BY <1>1, <2>1, <2>2, GotoType DEF Answer, TypeOK
<1> QED BY <1>1, ReturnType DEF Answer

LEMMA RenderType ==
  ASSUME TypeOK, NEW selected, Render(selected)
  PROVE  buttons' \in [Buttons -> Nat]
<1>1. \A n \in Nat : Add(n) \in Nat
  BY ConstantsAssumption DEF ConstantsAssumption, Add
<1>2. buttons \in [Buttons -> Nat] /\ Buttons = {"confirm", "cancel"}
  BY DEF TypeOK, Buttons
<1>3. Add(buttons["confirm"]) \in Nat /\ Add(buttons["cancel"]) \in Nat
  BY <1>1, <1>2
<1> HIDE DEF Add
<1> QED BY <1>2, <1>3 DEF Render

LEMMA CloseType ==
  ASSUME TypeOK, NEW w \in Workers, NEW row \in Rows, Close(w, row)
  PROVE  run' \in [Runs -> Rows]
BY DEF TypeOK, Close

LEMMA ClosedRows ==
  ASSUME TypeOK, NEW w \in Workers
  PROVE  /\ SucceededRow(w) \in Rows /\ FailedRow(w) \in Rows
         /\ [NoRow EXCEPT !.status = "failed", !.by = "queue"] \in Rows
<1>1. work[w] \in Locals
  BY DEF TypeOK
<1> QED BY <1>1 DEF SucceededRow, FailedRow, Todo, NoRow, Rows, Locals

LEMMA InitInv == Init => IInv
<1>1. Init => TypeOK
  <2> SUFFICES ASSUME Init PROVE TypeOK
    OBVIOUS
  <2>1. session \in Sessions /\ pc \in [Workers -> Steps]
    BY DEF Init, Sessions, Steps
  <2> QED BY <2>1, BlankTypes DEF Init, TypeOK
<1> USE DEF Init, NoRow, NoLocals
<1>2. Init => HolderInv /\ StageInv /\ PagesInv /\ OneRun
  BY DEF HolderInv, StageInv, StageAt, PagesInv, PagesAt, OneRun, Free, Holding, Opened, Unconfirmed
<1>3. Init => RowInv /\ RepliesInv
  BY DEF RowInv, RowTellsTruth, RepliesInv, RepliesAt, RepliesTellTruth, Free, Holding, Unconfirmed
<1> QED BY <1>1, <1>2, <1>3 DEF IInv, SafeInv

\* No session record leaves its type when it changes its state.
LEMMA BecomeType ==
  ASSUME TypeOK, NEW state \in {"cancelled", "processing", "running"} \cup Outcomes, Become(state)
  PROVE  session' \in Sessions /\ session'.selected = session.selected
         /\ session'.state \in {session.state, state}
BY DEF TypeOK, Become, Sessions, Outcomes

LEMMA TypeStep == TypeOK /\ [Next]_vars => TypeOK'
<1> SUFFICES ASSUME TypeOK, [Next]_vars PROVE TypeOK'
  OBVIOUS
<1> USE ConstantsAssumption DEF ConstantsAssumption, mode, history
<1>1. ASSUME Offer PROVE TypeOK'
  <2>1. session' \in Sessions
    BY <1>1 DEF Offer, Discovered, Listings, Sessions
  <2>2. buttons' \in [Buttons -> Nat]
    BY <1>1, RenderType DEF Offer
  <2> QED BY <1>1, <2>1, <2>2 DEF TypeOK, Offer
<1>2. ASSUME NEW p \in Pages, Toggle(p) PROVE TypeOK'
  <2>1. session' \in Sessions
    BY <1>2 DEF TypeOK, Toggle, Toggled, Sessions
  <2>2. buttons' \in [Buttons -> Nat]
    BY <1>2, RenderType DEF Toggle
  <2> QED BY <1>2, <2>1, <2>2 DEF TypeOK, Toggle
<1>3. ASSUME NEW w \in Workers, NEW b \in Buttons, Press(w, b) PROVE TypeOK'
  BY <1>3 DEF TypeOK, Press, ClaimCallback, Resolvable, Goto, Buttons, Steps
<1>4. ASSUME NEW w \in Workers, Cancel(w) PROVE TypeOK'
  BY <1>4, BecomeType, ReturnType DEF TypeOK, Cancel, Replies
<1>5. ASSUME NEW w \in Workers, Confirm(w) PROVE TypeOK'
  <2>1. CASE Confirmable
    <3>1. session' \in Sessions
      BY <1>5, <2>1 DEF TypeOK, Confirm, Sessions
    <3>2. [work[w] EXCEPT !.answers = TRUE, !.found = session.selected] \in Locals
      BY DEF TypeOK, Locals, Sessions
    <3>3. work' \in [Workers -> Locals]
      BY <1>5, <2>1, <3>2 DEF TypeOK, Confirm
    <3> QED BY <1>5, <2>1, <3>1, <3>3 DEF TypeOK, Confirm, Goto, Steps
  <2>2. CASE ~Confirmable
    BY <1>5, <2>2, ReturnType DEF TypeOK, Confirm
  <2> QED BY <2>1, <2>2
<1>6. ASSUME NEW w \in Workers, Start(w) PROVE TypeOK'
  <2> DEFINE r == CHOOSE r \in Runs : run[r].status = "none"
  <2>1. r \in Runs
    BY <1>6 DEF Start
  <2>2. [run[r] EXCEPT !.status = "running"] \in Rows
    BY <2>1 DEF TypeOK, Rows
  <2>3. [work[w] EXCEPT !.runs = {r}] \in Locals
    BY <2>1 DEF TypeOK, Locals
  <2>4. run' = [run EXCEPT ![r].status = "running"] /\ work' = [work EXCEPT ![w].runs = {r}]
    BY <1>6 DEF Start
  <2>5. run' \in [Runs -> Rows] /\ work' \in [Workers -> Locals]
    <3> HIDE DEF r
    <3> QED BY <2>1, <2>2, <2>3, <2>4 DEF TypeOK
  <2> QED BY <1>6, <2>5 DEF TypeOK, Start, Goto, Steps
<1>7. ASSUME NEW w \in Workers, MarkQueued(w) PROVE TypeOK'
  BY <1>7, BecomeType DEF TypeOK, MarkQueued, Goto, Steps
<1>8. ASSUME NEW w \in Workers, Enqueue(w) PROVE TypeOK'
  BY <1>8, ReturnType DEF TypeOK, Enqueue, Locals
<1>9. ASSUME NEW w \in Workers, QueueRaises(w) PROVE TypeOK'
  BY <1>9 DEF TypeOK, QueueRaises, Goto, Steps, Locals
<1>10. ASSUME NEW w \in Workers, CloseRefused(w) PROVE TypeOK'
  BY <1>10, CloseType, ClosedRows DEF TypeOK, CloseRefused, Goto, Steps
<1>11. ASSUME NEW w \in Workers, Refuse(w) PROVE TypeOK'
  BY <1>11, BecomeType, ReturnType DEF TypeOK, Refuse, Replies, Outcomes
<1>12. ASSUME NEW w \in Workers, NEW r \in Runs, StartJob(w, r) PROVE TypeOK'
  BY <1>12 DEF TypeOK, StartJob, Goto, Steps, Locals
<1>13. ASSUME NEW w \in Workers, Discover(w) PROVE TypeOK'
  BY <1>13 DEF TypeOK, Discover, Listings, Goto, Steps, Locals
<1>14. ASSUME NEW w \in Workers, NEW p \in Pages, IndexPage(w, p) \/ PageFails(w, p) PROVE TypeOK'
  BY <1>14 DEF TypeOK, IndexPage, PageFails, Todo, Goto, Steps, Locals
<1>15. ASSUME NEW w \in Workers, Succeed(w) PROVE TypeOK'
  BY <1>15, CloseType, ClosedRows, ReturnType, AnswerType DEF TypeOK, Succeed, Outcomes
<1>16. ASSUME NEW w \in Workers, Fail(w) PROVE TypeOK'
  BY <1>16, CloseType, ClosedRows, ReturnType DEF TypeOK, Fail, Goto, Steps
<1>17. ASSUME NEW w \in Workers, ReadCounts(w) PROVE TypeOK'
  BY <1>17, AnswerType DEF TypeOK, ReadCounts, Outcomes
<1>18. ASSUME NEW w \in Workers, Complete(w) PROVE TypeOK'
  <2>1. work[w].outcome \in Outcomes
    BY DEF TypeOK, Locals
  <2> QED BY <1>18, <2>1, BecomeType, ReturnType DEF TypeOK, Complete, Replies, Outcomes
<1>19. ASSUME NEW r \in Runs, ReadStale(r) PROVE TypeOK'
  BY <1>19 DEF TypeOK, ReadStale
<1>20. ASSUME NEW r \in Runs, WriteVerdict(r) PROVE TypeOK'
  <2>1. Verdicts \subseteq Rows
    BY DEF Verdicts, NoRow, Rows
  <2> QED BY <1>20, <2>1 DEF TypeOK, WriteVerdict
<1>21. ASSUME NEW w \in Workers, Break(w) PROVE TypeOK'
  BY <1>21, ReturnType DEF TypeOK, Break
<1>22. ASSUME Expire \/ UNCHANGED vars PROVE TypeOK'
  BY <1>22 DEF TypeOK, Expire, vars
<1> QED
  BY <1>1, <1>2, <1>3, <1>4, <1>5, <1>6, <1>7, <1>8, <1>9, <1>10, <1>11, <1>12, <1>13, <1>14,
     <1>15, <1>16, <1>17, <1>18, <1>19, <1>20, <1>21, <1>22 DEF Next, Advance

-----------------------------------------------------------------------------
(* The steps. *)

LEMMA NextInv == IInv /\ [Next]_vars => IInv'
<1> SUFFICES ASSUME IInv, [Next]_vars PROVE IInv'
  OBVIOUS
<1> USE DEF mode, history
<1>0. TypeOK /\ TypeOK'
  BY TypeStep DEF IInv, SafeInv
<1>1. ASSUME Offer PROVE SafeInv'
  <2> USE <1>0, <1>1
    DEF IInv, SafeInv, TypeOK, Sessions, Rows, Locals, Unconfirmed, Holding, Free, Offer,
    Discovered, Listings
  <2>1. HolderInv'
    BY DEF HolderInv, StageInv, StageAt, OneRun, Outcomes
  <2>2. StageInv' /\ OneRun'
    BY DEF HolderInv, StageInv, StageAt, OneRun, Opened, NoLocals
  <2>3. PagesInv'
    BY DEF HolderInv, StageInv, StageAt, PagesInv, PagesAt, NoLocals
  <2>4. RowInv'
    BY DEF HolderInv, StageInv, StageAt, PagesInv, PagesAt, RowInv, RowTellsTruth
  <2>5. RepliesInv'
    BY DEF HolderInv, StageInv, StageAt, PagesInv, PagesAt, RepliesInv, RepliesAt, RepliesTellTruth,
      Clean, Outcomes, Opened
  <2> QED BY <2>1, <2>2, <2>3, <2>4, <2>5 DEF SafeInv
<1>2. ASSUME NEW p \in Pages, Toggle(p) PROVE SafeInv'
  <2> USE <1>0, <1>2
    DEF IInv, SafeInv, TypeOK, Sessions, Rows, Locals, Unconfirmed, Holding, Free, Toggle
  <2>1. HolderInv'
    BY DEF HolderInv, StageInv, StageAt, OneRun, Outcomes
  <2>2. StageInv' /\ OneRun'
    BY DEF HolderInv, StageInv, StageAt, OneRun, Opened, NoLocals
  <2>3. PagesInv'
    BY DEF HolderInv, StageInv, StageAt, PagesInv, PagesAt, NoLocals
  <2>4. RowInv'
    BY DEF HolderInv, StageInv, StageAt, PagesInv, PagesAt, RowInv, RowTellsTruth
  <2>5. RepliesInv'
    BY DEF HolderInv, StageInv, StageAt, PagesInv, PagesAt, RepliesInv, RepliesAt, RepliesTellTruth,
      Clean, Outcomes, Opened
  <2> QED BY <2>1, <2>2, <2>3, <2>4, <2>5 DEF SafeInv
<1>3. ASSUME NEW w \in Workers, NEW b \in Buttons, Press(w, b) PROVE SafeInv'
  <2> USE <1>0, <1>3
    DEF IInv, SafeInv, TypeOK, Sessions, Rows, Locals, Unconfirmed, Holding, Free, Press, Goto,
    Buttons
  <2>1. HolderInv'
    BY DEF HolderInv, StageInv, StageAt, OneRun, Outcomes
  <2>2. StageInv' /\ OneRun'
    BY DEF HolderInv, StageInv, StageAt, OneRun, Opened, NoLocals
  <2>3. PagesInv'
    BY DEF HolderInv, StageInv, StageAt, PagesInv, PagesAt, NoLocals
  <2>4. RowInv'
    BY DEF HolderInv, StageInv, StageAt, PagesInv, PagesAt, RowInv, RowTellsTruth
  <2>5. RepliesInv'
    BY DEF HolderInv, StageInv, StageAt, PagesInv, PagesAt, RepliesInv, RepliesAt, RepliesTellTruth,
      Clean, Outcomes, Opened
  <2> QED BY <2>1, <2>2, <2>3, <2>4, <2>5 DEF SafeInv
<1>4. ASSUME NEW w \in Workers, Cancel(w) PROVE SafeInv'
  <2> USE <1>0, <1>4
    DEF IInv, SafeInv, TypeOK, Sessions, Rows, Locals, Unconfirmed, Holding, Free, Cancel, Become,
    Return, Goto
  <2>1. HolderInv'
    BY DEF HolderInv, StageInv, StageAt, OneRun, Outcomes
  <2>2. StageInv' /\ OneRun'
    BY DEF HolderInv, StageInv, StageAt, OneRun, Opened, NoLocals
  <2>3. PagesInv'
    BY DEF HolderInv, StageInv, StageAt, PagesInv, PagesAt, NoLocals
  <2>4. RowInv'
    BY DEF HolderInv, StageInv, StageAt, PagesInv, PagesAt, RowInv, RowTellsTruth
  <2>5. RepliesInv'
    BY DEF HolderInv, StageInv, StageAt, PagesInv, PagesAt, RepliesInv, RepliesAt, RepliesTellTruth,
      Clean, Outcomes, Opened
  <2> QED BY <2>1, <2>2, <2>3, <2>4, <2>5 DEF SafeInv
<1>5. ASSUME NEW w \in Workers, Confirm(w) PROVE SafeInv'
  <2> USE <1>0, <1>5
    DEF IInv, SafeInv, TypeOK, Sessions, Rows, Locals, Unconfirmed, Holding, Free, Confirm,
    Confirmable, Return, Goto
  <2>1. HolderInv'
    BY DEF HolderInv, StageInv, StageAt, OneRun, Outcomes
  <2>2. StageInv' /\ OneRun'
    BY DEF HolderInv, StageInv, StageAt, OneRun, Opened, NoLocals
  <2>3. PagesInv'
    BY DEF HolderInv, StageInv, StageAt, PagesInv, PagesAt, NoLocals
  <2>4. RowInv'
    BY DEF HolderInv, StageInv, StageAt, PagesInv, PagesAt, RowInv, RowTellsTruth
  <2>5. RepliesInv'
    <3>1. told' = told /\ committed' = committed /\ run' = run /\ faults' = faults /\ kind' = kind
      BY DEF Confirm, mode, history
    <3>2. RepliesTellTruth'
      BY <3>1 DEF HolderInv, RepliesInv, RepliesAt, RepliesTellTruth, Outcomes
    <3>3. \A x \in Workers : pc'[x] \in {"read", "complete"} =>
            pc[x] = pc'[x] /\ work'[x] = work[x] /\ session' = session
      BY DEF HolderInv
    <3> QED BY <3>1, <3>2, <3>3 DEF RepliesInv, RepliesAt, Clean
  <2> QED BY <2>1, <2>2, <2>3, <2>4, <2>5 DEF SafeInv
<1>6. ASSUME NEW w \in Workers, Start(w) PROVE SafeInv'
  <2> DEFINE r == CHOOSE r \in Runs : run[r].status = "none"
  <2>0. /\ r \in Runs /\ \A x \in Runs : run[x].status = "none"
        /\ run' = [run EXCEPT ![r].status = "running"] /\ work' = [work EXCEPT ![w].runs = {r}]
    BY <1>0, <1>6 DEF Start, IInv, SafeInv, StageInv, StageAt
  <2> HIDE DEF r
  <2>a. \A x \in Runs : /\ run'[x].status = (IF x = r THEN "running" ELSE "none")
                         /\ run'[x].by = run[x].by
    BY <1>0, <2>0 DEF TypeOK, Rows
  <2>b. \A x \in Workers : x # w => work'[x] = work[x] /\ pc'[x] = pc[x]
    BY <1>0, <1>6, <2>0 DEF TypeOK, Start, Goto
  <2>c. /\ work'[w].runs = {r} /\ work'[w].done = work[w].done
        /\ work'[w].found = work[w].found /\ work'[w].failed = work[w].failed
    BY <1>0, <2>0 DEF TypeOK, Locals
  <2>d. pc'[w] = (IF kind = "sync" THEN "index" ELSE IF queued THEN "mark" ELSE "discover")
        /\ pc[w] = "start"
    BY <1>0, <1>6 DEF TypeOK, Start, Goto
  <2>e. UNCHANGED <<kind, session, committed, told, faults, jobs, reconciling>>
    BY <1>6 DEF Start
  <2>f. jobs \subseteq Runs /\ reconciling \subseteq Runs
        /\ \A x \in Workers : work[x].runs \subseteq Runs
    BY <1>0 DEF TypeOK, Locals
  <2> USE <1>0, <2>0, <2>a, <2>b, <2>c, <2>d, <2>e, <2>f
    DEF IInv, SafeInv, Unconfirmed, Holding, Free
  <2>1. HolderInv'
    BY DEF HolderInv, StageInv, StageAt, OneRun, Outcomes
  <2>2. StageInv' /\ OneRun'
    <3>1. StageAt(w)'
      BY DEF TypeOK, StageAt, Opened
    <3>2. \A x \in Workers : x # w => StageAt(x)'
      BY DEF HolderInv, StageInv, StageAt, Opened
    <3> QED BY <3>1, <3>2 DEF HolderInv, StageInv, OneRun
  <2>3. PagesInv'
    <3>1. PagesAt(w)'
      BY DEF PagesInv, PagesAt
    <3>2. \A x \in Workers : x # w => PagesAt(x)'
      BY DEF HolderInv, PagesInv, PagesAt
    <3> QED BY <3>1, <3>2 DEF HolderInv, PagesInv
  <2>4. RowInv'
    BY DEF HolderInv, StageInv, StageAt, PagesInv, PagesAt, RowInv, RowTellsTruth
  <2>5. RepliesInv'
    BY DEF HolderInv, StageInv, StageAt, PagesInv, PagesAt, RepliesInv, RepliesAt, RepliesTellTruth,
      Clean, Outcomes, Opened
  <2> QED BY <2>1, <2>2, <2>3, <2>4, <2>5 DEF SafeInv
<1>7. ASSUME NEW w \in Workers, MarkQueued(w) PROVE SafeInv'
  <2> USE <1>0, <1>7
    DEF IInv, SafeInv, TypeOK, Sessions, Rows, Locals, Unconfirmed, Holding, Free, MarkQueued,
    Become, Goto
  <2>1. HolderInv'
    BY DEF HolderInv, StageInv, StageAt, OneRun, Outcomes
  <2>2. StageInv' /\ OneRun'
    BY DEF HolderInv, StageInv, StageAt, OneRun, Opened, NoLocals
  <2>3. PagesInv'
    BY DEF HolderInv, StageInv, StageAt, PagesInv, PagesAt, NoLocals
  <2>4. RowInv'
    BY DEF HolderInv, StageInv, StageAt, PagesInv, PagesAt, RowInv, RowTellsTruth
  <2>5. RepliesInv'
    BY DEF HolderInv, StageInv, StageAt, PagesInv, PagesAt, RepliesInv, RepliesAt, RepliesTellTruth,
      Clean, Outcomes, Opened
  <2> QED BY <2>1, <2>2, <2>3, <2>4, <2>5 DEF SafeInv
<1>8. ASSUME NEW w \in Workers, Enqueue(w) PROVE SafeInv'
  <2> USE <1>0, <1>8
    DEF IInv, SafeInv, TypeOK, Sessions, Rows, Locals, Unconfirmed, Holding, Free, Enqueue,
    Return, Goto
  <2>1. HolderInv'
    BY DEF HolderInv, StageInv, StageAt, OneRun, Outcomes
  <2>2. StageInv' /\ OneRun'
    BY DEF HolderInv, StageInv, StageAt, OneRun, Opened, NoLocals
  <2>3. PagesInv'
    BY DEF HolderInv, StageInv, StageAt, PagesInv, PagesAt, NoLocals
  <2>4. RowInv'
    BY DEF HolderInv, StageInv, StageAt, PagesInv, PagesAt, RowInv, RowTellsTruth
  <2>5. RepliesInv'
    BY DEF HolderInv, StageInv, StageAt, PagesInv, PagesAt, RepliesInv, RepliesAt, RepliesTellTruth,
      Clean, Outcomes, Opened
  <2> QED BY <2>1, <2>2, <2>3, <2>4, <2>5 DEF SafeInv
<1>9. ASSUME NEW w \in Workers, QueueRaises(w) PROVE SafeInv'
  <2> USE <1>0, <1>9
    DEF IInv, SafeInv, TypeOK, Sessions, Rows, Locals, Unconfirmed, Holding, Free, QueueRaises,
    Goto
  <2>1. HolderInv'
    BY DEF HolderInv, StageInv, StageAt, OneRun, Outcomes
  <2>2. StageInv' /\ OneRun'
    BY DEF HolderInv, StageInv, StageAt, OneRun, Opened, NoLocals
  <2>3. PagesInv'
    BY DEF HolderInv, StageInv, StageAt, PagesInv, PagesAt, NoLocals
  <2>4. RowInv'
    BY DEF HolderInv, StageInv, StageAt, PagesInv, PagesAt, RowInv, RowTellsTruth
  <2>5. RepliesInv'
    BY DEF HolderInv, StageInv, StageAt, PagesInv, PagesAt, RepliesInv, RepliesAt, RepliesTellTruth,
      Clean, Outcomes, Opened
  <2> QED BY <2>1, <2>2, <2>3, <2>4, <2>5 DEF SafeInv
<1>10. ASSUME NEW w \in Workers, CloseRefused(w) PROVE SafeInv'
  <2>0. /\ pc[w] = "refuse" /\ pc' = [pc EXCEPT ![w] = "refused"]
        /\ faults' \in {faults, faults + 1}
        /\ UNCHANGED <<kind, session, jobs, reconciling, work, committed, told>>
        /\ \A r \in Runs : run'[r] = run[r] \/
             /\ r \in work[w].runs
             /\ run'[r].by = "queue" /\ run'[r].status = "failed"
    BY <1>0, <1>10 DEF CloseRefused, Close, NoRow, Goto, TypeOK
  <2> USE <1>0, <2>0 DEF IInv, SafeInv, Unconfirmed, Holding, Free
  <2>1. HolderInv'
    BY DEF TypeOK, HolderInv, StageInv, StageAt, OneRun, Outcomes
  <2>2. StageInv' /\ OneRun'
    <3>1. \A r \in Runs : (run'[r].status = "none") = (run[r].status = "none")
      BY DEF StageInv, StageAt
    <3>2. jobs \subseteq Runs /\ reconciling \subseteq Runs
          /\ \A x \in Workers : work[x].runs \subseteq Runs
      BY DEF TypeOK, Locals
    <3>3. StageInv'
      BY <3>1, <3>2 DEF TypeOK, HolderInv, StageInv, StageAt, Opened
    <3> QED BY <3>1, <3>3 DEF OneRun
  <2>3. PagesInv'
    BY DEF TypeOK, HolderInv, StageInv, StageAt, PagesInv, PagesAt
  <2>4. RowInv'
    BY DEF TypeOK, HolderInv, StageInv, StageAt, PagesInv, PagesAt, RowInv, RowTellsTruth
  <2>5. RepliesInv'
    BY DEF TypeOK, HolderInv, StageInv, StageAt, PagesInv, PagesAt, RepliesInv, RepliesAt,
      RepliesTellTruth, Clean, Outcomes, Opened
  <2> QED BY <2>1, <2>2, <2>3, <2>4, <2>5 DEF SafeInv
<1>11. ASSUME NEW w \in Workers, Refuse(w) PROVE SafeInv'
  <2> USE <1>0, <1>11
    DEF IInv, SafeInv, TypeOK, Sessions, Rows, Locals, Unconfirmed, Holding, Free, Refuse, Become,
    Return, Goto
  <2>1. HolderInv'
    BY DEF HolderInv, StageInv, StageAt, OneRun, Outcomes
  <2>2. StageInv' /\ OneRun'
    BY DEF HolderInv, StageInv, StageAt, OneRun, Opened, NoLocals
  <2>3. PagesInv'
    BY DEF HolderInv, StageInv, StageAt, PagesInv, PagesAt, NoLocals
  <2>4. RowInv'
    BY DEF HolderInv, StageInv, StageAt, PagesInv, PagesAt, RowInv, RowTellsTruth
  <2>5. RepliesInv'
    BY DEF HolderInv, StageInv, StageAt, PagesInv, PagesAt, RepliesInv, RepliesAt, RepliesTellTruth,
      Clean, Outcomes, Opened
  <2> QED BY <2>1, <2>2, <2>3, <2>4, <2>5 DEF SafeInv
<1>12. ASSUME NEW w \in Workers, NEW r \in Runs, StartJob(w, r) PROVE SafeInv'
  <2> USE <1>0, <1>12
    DEF IInv, SafeInv, TypeOK, Sessions, Rows, Locals, Unconfirmed, Holding, Free, StartJob, Goto
  <2>1. HolderInv'
    BY DEF HolderInv, StageInv, StageAt, OneRun, Outcomes
  <2>2. StageInv' /\ OneRun'
    BY DEF HolderInv, StageInv, StageAt, OneRun, Opened, NoLocals
  <2>3. PagesInv'
    BY DEF HolderInv, StageInv, StageAt, PagesInv, PagesAt, NoLocals
  <2>4. RowInv'
    BY DEF HolderInv, StageInv, StageAt, PagesInv, PagesAt, RowInv, RowTellsTruth
  <2>5. RepliesInv'
    BY DEF HolderInv, StageInv, StageAt, PagesInv, PagesAt, RepliesInv, RepliesAt, RepliesTellTruth,
      Clean, Outcomes, Opened
  <2> QED BY <2>1, <2>2, <2>3, <2>4, <2>5 DEF SafeInv
<1>13. ASSUME NEW w \in Workers, Discover(w) PROVE SafeInv'
  <2>0. /\ pc[w] = "discover" /\ pc'[w] \in {"index", "fail"}
        /\ work'[w].runs = work[w].runs /\ work'[w].done = work[w].done
        /\ work'[w].failed = work[w].failed
        /\ \A x \in Workers : x # w => pc'[x] = pc[x] /\ work'[x] = work[x]
        /\ UNCHANGED <<kind, session, run, jobs, reconciling, committed, told, faults>>
    BY <1>0, <1>13 DEF TypeOK, Locals, Discover, Goto, mode, history
  <2> USE <1>0, <2>0 DEF IInv, SafeInv, Unconfirmed, Holding, Free
  <2>1. HolderInv'
    BY DEF HolderInv, StageInv, StageAt, OneRun, Outcomes
  <2>2. StageInv' /\ OneRun'
    BY DEF HolderInv, StageInv, StageAt, OneRun, Opened
  <2>3. PagesInv'
    <3>1. PagesAt(w)'
      BY DEF StageInv, StageAt, PagesInv, PagesAt
    <3>2. \A x \in Workers : x # w => PagesAt(x)'
      BY DEF HolderInv, PagesInv, PagesAt
    <3> QED BY <3>1, <3>2 DEF HolderInv, PagesInv
  <2>4. RowInv'
    BY DEF HolderInv, StageInv, StageAt, PagesInv, PagesAt, RowInv, RowTellsTruth
  <2>5. RepliesInv'
    BY DEF HolderInv, StageInv, StageAt, PagesInv, PagesAt, RepliesInv, RepliesAt, RepliesTellTruth,
      Clean, Outcomes, Opened
  <2> QED BY <2>1, <2>2, <2>3, <2>4, <2>5 DEF SafeInv
<1>14. ASSUME NEW w \in Workers, NEW p \in Pages, IndexPage(w, p) PROVE SafeInv'
  <2>0. /\ pc[w] = "index" /\ p \in work[w].found /\ committed' = committed \cup {p}
        /\ work'[w].done = work[w].done \cup {p} /\ work'[w].runs = work[w].runs
        /\ work'[w].failed = work[w].failed /\ work'[w].found = work[w].found
        /\ \A x \in Workers : x # w => work'[x] = work[x]
        /\ UNCHANGED <<kind, session, run, jobs, reconciling, pc, told, faults>>
    BY <1>0, <1>14 DEF TypeOK, Locals, IndexPage, Todo, mode
  <2> USE <1>0, <2>0 DEF IInv, SafeInv, Unconfirmed, Holding, Free
  <2>1. HolderInv'
    BY DEF HolderInv, StageInv, StageAt, OneRun, Outcomes
  <2>2. StageInv' /\ OneRun'
    BY DEF HolderInv, StageInv, StageAt, OneRun, Opened
  <2>3. PagesInv'
    BY DEF HolderInv, StageInv, StageAt, PagesInv, PagesAt
  <2>4. RowInv'
    BY DEF HolderInv, StageInv, StageAt, PagesInv, PagesAt, RowInv, RowTellsTruth
  <2>5. RepliesInv'
    BY DEF HolderInv, StageInv, StageAt, PagesInv, PagesAt, RepliesInv, RepliesAt, RepliesTellTruth,
      Clean, Outcomes, Opened
  <2> QED BY <2>1, <2>2, <2>3, <2>4, <2>5 DEF SafeInv
<1>15. ASSUME NEW w \in Workers, NEW p \in Pages, PageFails(w, p) PROVE SafeInv'
  <2> USE <1>0, <1>15
    DEF IInv, SafeInv, TypeOK, Sessions, Rows, Locals, Unconfirmed, Holding, Free, PageFails,
    Todo, Goto
  <2>1. HolderInv'
    BY DEF HolderInv, StageInv, StageAt, OneRun, Outcomes
  <2>2. StageInv' /\ OneRun'
    BY DEF HolderInv, StageInv, StageAt, OneRun, Opened, NoLocals
  <2>3. PagesInv'
    BY DEF HolderInv, StageInv, StageAt, PagesInv, PagesAt, NoLocals
  <2>4. RowInv'
    BY DEF HolderInv, StageInv, StageAt, PagesInv, PagesAt, RowInv, RowTellsTruth
  <2>5. RepliesInv'
    BY DEF HolderInv, StageInv, StageAt, PagesInv, PagesAt, RepliesInv, RepliesAt, RepliesTellTruth,
      Clean, Outcomes, Opened
  <2> QED BY <2>1, <2>2, <2>3, <2>4, <2>5 DEF SafeInv
<1>16. ASSUME NEW w \in Workers, Succeed(w) PROVE SafeInv'
  <2> DEFINE row == SucceededRow(w)
  <2>0. /\ pc[w] = "index" /\ work[w].found \subseteq work[w].done
        /\ \A x \in Workers : x # w => pc'[x] = pc[x] /\ work'[x] = work[x]
        /\ UNCHANGED <<kind, session, jobs, reconciling, committed, told>>
        /\ faults' >= faults
    BY <1>0, <1>16 DEF TypeOK, Succeed, Todo, Answer, Return, Goto, mode, history
  <2>a. \/ /\ pc'[w] = "complete" /\ work'[w].outcome = "succeeded" /\ work'[w].runs = work[w].runs
        \/ pc'[w] = "idle" /\ work'[w] = NoLocals
    BY <1>0, <1>16 DEF TypeOK, Locals, Succeed, Answer, Return, Goto
  <2>b. /\ row.status = "succeeded" /\ row.done = work[w].done
        /\ row.failed = {} /\ row.by = "worker"
    BY DEF SucceededRow, NoRow
  <2>c. \A r \in Runs : run'[r] = run[r] \/ (r \in work[w].runs /\ run'[r] = row)
    BY <1>16 DEF Succeed, Close
  <2>d. jobs \subseteq Runs /\ reconciling \subseteq Runs
        /\ \A x \in Workers : work[x].runs \subseteq Runs
    BY <1>0 DEF TypeOK, Locals
  <2>e. \A r \in Runs : (run'[r].status = "none") = (run[r].status = "none")
    BY <2>b, <2>c DEF IInv, SafeInv, StageInv, StageAt
  <2> HIDE DEF row
  <2> USE <1>0, <2>0, <2>a, <2>c, <2>d DEF IInv, SafeInv, Unconfirmed, Holding, Free
  <2>f. ~Free /\ ~Unconfirmed /\ told \cap Outcomes = {}
        /\ \A x \in Workers : pc[x] \notin {"read", "complete"} /\ (x # w => pc[x] \notin Holding)
    BY DEF HolderInv
  <2>g. work[w].done = committed /\ work[w].failed = {}
        /\ (kind = "sync" => work[w].found = session.selected /\ work[w].done = work[w].found)
    BY DEF PagesInv, PagesAt
  <2>1. HolderInv'
    BY <2>f DEF TypeOK, HolderInv
  <2>2. StageInv' /\ OneRun'
    BY <2>e DEF HolderInv, StageInv, StageAt, OneRun, Opened, NoLocals
  <2>3. PagesInv'
    BY <2>f DEF HolderInv, PagesInv, PagesAt
  <2>4. RowInv'
    <3>1. \A r \in Runs : run[r].by # "worker"
      BY <2>f DEF RowInv
    <3>2. Free'
      BY <2>f DEF HolderInv
    <3> QED BY <2>b, <2>f, <2>g, <3>1, <3>2 DEF RowInv, RowTellsTruth
  <2>5. RepliesInv'
    <3>1. RepliesTellTruth'
      BY <2>f DEF RepliesTellTruth, Outcomes
    <3>2. \A x \in Workers : RepliesAt(x)'
      BY <2>f, <2>g DEF RepliesAt
    <3> QED BY <3>1, <3>2 DEF RepliesInv
  <2> QED BY <2>1, <2>2, <2>3, <2>4, <2>5 DEF SafeInv
<1>17. ASSUME NEW w \in Workers, Fail(w) PROVE SafeInv'
  <2> DEFINE row == FailedRow(w)
  <2>0. /\ pc[w] = "fail" /\ work' [w].runs \in {work[w].runs, {}}
        /\ pc'[w] \in {"read", "idle"} /\ (pc'[w] = "read" => work'[w] = work[w])
        /\ (pc'[w] = "idle" => work'[w] = NoLocals)
        /\ \A x \in Workers : x # w => pc'[x] = pc[x] /\ work'[x] = work[x]
        /\ UNCHANGED <<kind, session, jobs, reconciling, committed, told>>
        /\ faults' >= faults
    BY <1>0, <1>17 DEF TypeOK, Fail, Return, Goto, NoLocals, mode, history
  <2>b. /\ row.status = "failed" /\ row.done = work[w].done
        /\ row.failed = work[w].failed /\ row.by = "worker"
    BY DEF FailedRow
  <2>c. \/ faults' > faults /\ run' = run
        \/ \A r \in Runs : run'[r] = IF r \in work[w].runs THEN row ELSE run[r]
    BY <1>0, <1>17 DEF TypeOK, Fail, Close
  <2>d. jobs \subseteq Runs /\ reconciling \subseteq Runs
        /\ \A x \in Workers : work[x].runs \subseteq Runs
    BY <1>0 DEF TypeOK, Locals
  <2>e. \A r \in Runs : (run'[r].status = "none") = (run[r].status = "none")
    BY <2>b, <2>c DEF IInv, SafeInv, StageInv, StageAt
  <2> HIDE DEF row
  <2> USE <1>0, <2>0, <2>c, <2>d DEF IInv, SafeInv, Unconfirmed, Holding, Free
  <2>f. ~Free /\ ~Unconfirmed /\ told \cap Outcomes = {}
        /\ \A x \in Workers : pc[x] \notin {"read", "complete"} /\ (x # w => pc[x] \notin Holding)
    BY DEF HolderInv
  <2>g. PagesAt(w)
    BY DEF PagesInv
  <2>1. HolderInv'
    BY <2>f DEF TypeOK, HolderInv
  <2>2. StageInv' /\ OneRun'
    BY <2>e DEF HolderInv, StageInv, StageAt, OneRun, Opened, NoLocals
  <2>3. PagesInv'
    BY <2>f DEF HolderInv, PagesInv, PagesAt
  <2>4. RowInv'
    <3>1. \A r \in Runs : run[r].by # "worker"
      BY <2>f DEF RowInv
    <3>2. Free'
      BY <2>f DEF HolderInv
    <3>3. faults' = 0 => faults = 0
      BY DEF TypeOK
    <3> QED BY <2>b, <2>f, <2>g, <3>1, <3>2, <3>3 DEF PagesAt, RowInv, RowTellsTruth
  <2>5. RepliesInv'
    <3>1. RepliesTellTruth'
      BY <2>f DEF RepliesTellTruth, Outcomes
    <3>2. faults' = 0 => faults = 0 /\ \A r \in work[w].runs : run'[r] = row
      BY DEF TypeOK
    <3>3. faults = 0 => work[w].done = committed
      BY <2>g DEF PagesAt
    <3>4. \A x \in Workers : RepliesAt(x)'
      BY <2>b, <2>f, <3>2, <3>3 DEF RepliesAt
    <3> QED BY <3>1, <3>4 DEF RepliesInv
  <2> QED BY <2>1, <2>2, <2>3, <2>4, <2>5 DEF SafeInv
<1>18. ASSUME NEW w \in Workers, ReadCounts(w) PROVE SafeInv'
  <2>0. /\ pc[w] = "read"
        /\ \/ pc'[w] = "complete" /\ work'[w].runs = work[w].runs
              /\ work'[w].outcome = IF Some(w) THEN "partially_failed" ELSE "failed"
           \/ pc'[w] = "idle" /\ work'[w] = NoLocals
        /\ \A x \in Workers : x # w => pc'[x] = pc[x] /\ work'[x] = work[x]
        /\ UNCHANGED <<kind, session, run, jobs, reconciling, committed, told, faults>>
    BY <1>0, <1>18 DEF TypeOK, Locals, ReadCounts, Answer, Return, Goto, mode, history
  <2>a. work[w].runs \subseteq Runs /\ work[w].runs # {}
    BY <1>0, <2>0 DEF TypeOK, Locals, IInv, SafeInv, StageInv, StageAt, Opened
  <2> USE <1>0, <2>0, <2>a DEF IInv, SafeInv, Unconfirmed, Holding, Free
  <2>1. HolderInv'
    BY DEF HolderInv
  <2>2. StageInv' /\ OneRun'
    BY DEF HolderInv, StageInv, StageAt, OneRun, Opened, NoLocals
  <2>3. PagesInv'
    BY DEF HolderInv, PagesInv, PagesAt
  <2>4. RowInv'
    BY DEF HolderInv, RowInv, RowTellsTruth
  <2>5. RepliesInv'
    <3>1. RepliesTellTruth'
      BY DEF RepliesInv, RepliesTellTruth
    <3>2. Clean => \A r \in work[w].runs : run[r].done = committed
      BY DEF RepliesInv, RepliesAt, Clean
    <3>3. Clean => Some(w) = (committed # {})
      BY <3>2 DEF Some
    <3>4. RepliesAt(w)'
      BY <3>3 DEF RepliesAt, Clean
    <3>5. \A x \in Workers : x # w => RepliesAt(x)'
      BY DEF RepliesInv, RepliesAt, Clean
    <3> QED BY <3>1, <3>4, <3>5 DEF RepliesInv
  <2> QED BY <2>1, <2>2, <2>3, <2>4, <2>5 DEF SafeInv
<1>19. ASSUME NEW w \in Workers, Complete(w) PROVE SafeInv'
  <2>0. /\ pc[w] = "complete" /\ pc'[w] = "idle" /\ work'[w] = NoLocals
        /\ \A x \in Workers : x # w => pc'[x] = pc[x] /\ work'[x] = work[x]
        /\ told' = told \cup {work[w].outcome}
        /\ UNCHANGED <<kind, run, jobs, reconciling, committed, faults>>
    BY <1>0, <1>19 DEF TypeOK, Complete, Return, Goto, mode
  <2>a. work[w].outcome \in Outcomes /\ \A x \in Workers : work[x].runs \subseteq Runs
    BY <1>0 DEF TypeOK, Locals
  <2>b. /\ session'.selected = session.selected
        /\ session'.state \in {session.state, work[w].outcome}
    BY <1>0, <1>19, <2>a, BecomeType DEF Complete
  <2>c. ~Unconfirmed /\ Free
    BY <2>0 DEF IInv, SafeInv, HolderInv
  <2>d. ~Unconfirmed' /\ Free'
    BY <2>0, <2>a, <2>b, <2>c DEF Unconfirmed, Free, Holding, Outcomes
  <2> USE <1>0, <2>0, <2>a, <2>b, <2>c, <2>d DEF IInv, SafeInv
  <2>1. HolderInv'
    BY DEF HolderInv, Free
  <2>2. StageInv' /\ OneRun'
    BY DEF StageInv, StageAt, OneRun, Opened, NoLocals
  <2>3. PagesInv'
    BY DEF PagesInv, PagesAt, Free
  <2>4. RowInv'
    BY DEF RowInv, RowTellsTruth
  <2>5. RepliesInv'
    <3>1. RepliesTellTruth'
      BY DEF RepliesInv, RepliesAt, RepliesTellTruth, Clean, Outcomes
    <3>2. RepliesAt(w)'
      BY DEF RepliesAt
    <3>3. \A x \in Workers : x # w => RepliesAt(x)'
      BY DEF RepliesInv, RepliesAt, Clean
    <3> QED BY <3>1, <3>2, <3>3 DEF RepliesInv
  <2> QED BY <2>1, <2>2, <2>3, <2>4, <2>5 DEF SafeInv
<1>20. ASSUME NEW r \in Runs, ReadStale(r) PROVE SafeInv'
  <2> USE <1>0, <1>20
    DEF IInv, SafeInv, TypeOK, Sessions, Rows, Locals, Unconfirmed, Holding, Free, ReadStale
  <2>1. HolderInv'
    BY DEF HolderInv, StageInv, StageAt, OneRun, Outcomes
  <2>2. StageInv' /\ OneRun'
    BY DEF HolderInv, StageInv, StageAt, OneRun, Opened, NoLocals
  <2>3. PagesInv'
    BY DEF HolderInv, StageInv, StageAt, PagesInv, PagesAt, NoLocals
  <2>4. RowInv'
    BY DEF HolderInv, StageInv, StageAt, PagesInv, PagesAt, RowInv, RowTellsTruth
  <2>5. RepliesInv'
    BY DEF HolderInv, StageInv, StageAt, PagesInv, PagesAt, RepliesInv, RepliesAt, RepliesTellTruth,
      Clean, Outcomes, Opened
  <2> QED BY <2>1, <2>2, <2>3, <2>4, <2>5 DEF SafeInv
<1>21. ASSUME NEW r \in Runs, WriteVerdict(r) PROVE SafeInv'
  <2>0. /\ r \in reconciling /\ reconciling' \subseteq reconciling
        /\ UNCHANGED <<kind, session, jobs, pc, work, committed, told, faults>>
    BY <1>21 DEF WriteVerdict, mode, history
  <2>a. \A s \in Runs : s # r => run'[s] = run[s]
    BY <1>0, <1>21 DEF TypeOK, WriteVerdict
  <2>b. run'[r].status # "none" /\ run'[r].by = "operator"
    <3>1. PICK verdict \in Verdicts : run' = [run EXCEPT ![r] = verdict]
      BY <1>21 DEF WriteVerdict
    <3>2. verdict.status # "none" /\ verdict.by = "operator"
      BY DEF Verdicts, NoRow
    <3> QED BY <1>0, <3>1, <3>2 DEF TypeOK
  <2>c. \A s \in Runs : (run'[s].status = "none") = (run[s].status = "none")
    BY <2>0, <2>a, <2>b DEF IInv, SafeInv, StageInv
  <2>d. jobs \subseteq Runs /\ reconciling \subseteq Runs
        /\ \A x \in Workers : work[x].runs \subseteq Runs
    BY <1>0 DEF TypeOK, Locals
  <2> USE <1>0, <2>0, <2>a, <2>b DEF IInv, SafeInv, Unconfirmed, Free
  <2>1. HolderInv'
    BY DEF HolderInv
  <2>2. StageInv' /\ OneRun'
    <3>1. \A x \in Workers : StageAt(x)'
      BY <2>c, <2>d DEF StageInv, StageAt
    <3> QED BY <2>c, <2>d, <3>1 DEF StageInv, OneRun
  <2>3. PagesInv'
    BY DEF PagesInv, PagesAt
  <2>4. RowInv'
    BY DEF RowInv, RowTellsTruth
  <2>5. RepliesInv'
    <3>1. ~Clean'
      BY DEF Clean
    <3>2. RepliesTellTruth'
      BY DEF RepliesTellTruth
    <3>3. \A x \in Workers : RepliesAt(x)'
      BY <2>d, <3>1 DEF RepliesInv, RepliesAt
    <3> QED BY <3>2, <3>3 DEF RepliesInv
  <2> QED BY <2>1, <2>2, <2>3, <2>4, <2>5 DEF SafeInv
<1>22. ASSUME NEW w \in Workers, Break(w) PROVE SafeInv'
  <2> USE <1>0, <1>22
    DEF IInv, SafeInv, TypeOK, Sessions, Rows, Locals, Unconfirmed, Holding, Free, Break, Return,
    Goto
  <2>1. HolderInv'
    BY DEF HolderInv, StageInv, StageAt, OneRun, Outcomes
  <2>2. StageInv' /\ OneRun'
    BY DEF HolderInv, StageInv, StageAt, OneRun, Opened, NoLocals
  <2>3. PagesInv'
    BY DEF HolderInv, StageInv, StageAt, PagesInv, PagesAt, NoLocals
  <2>4. RowInv'
    BY DEF HolderInv, StageInv, StageAt, PagesInv, PagesAt, RowInv, RowTellsTruth
  <2>5. RepliesInv'
    BY DEF HolderInv, StageInv, StageAt, PagesInv, PagesAt, RepliesInv, RepliesAt, RepliesTellTruth,
      Clean, Outcomes, Opened
  <2> QED BY <2>1, <2>2, <2>3, <2>4, <2>5 DEF SafeInv
<1>23. ASSUME Expire \/ UNCHANGED vars PROVE SafeInv'
  <2> USE <1>0, <1>23
    DEF IInv, SafeInv, TypeOK, Sessions, Rows, Locals, Unconfirmed, Holding, Free, Expire, vars
  <2>1. HolderInv'
    BY DEF HolderInv, StageInv, StageAt, OneRun, Outcomes
  <2>2. StageInv' /\ OneRun'
    BY DEF HolderInv, StageInv, StageAt, OneRun, Opened, NoLocals
  <2>3. PagesInv'
    BY DEF HolderInv, StageInv, StageAt, PagesInv, PagesAt, NoLocals
  <2>4. RowInv'
    BY DEF HolderInv, StageInv, StageAt, PagesInv, PagesAt, RowInv, RowTellsTruth
  <2>5. RepliesInv'
    BY DEF HolderInv, StageInv, StageAt, PagesInv, PagesAt, RepliesInv, RepliesAt, RepliesTellTruth,
      Clean, Outcomes, Opened
  <2> QED BY <2>1, <2>2, <2>3, <2>4, <2>5 DEF SafeInv
<1> QED
  BY <1>0, <1>1, <1>2, <1>3, <1>4, <1>5, <1>6, <1>7, <1>8, <1>9, <1>10, <1>11, <1>12, <1>13,
     <1>14, <1>15, <1>16, <1>17, <1>18, <1>19, <1>20, <1>21, <1>22, <1>23
  DEF IInv, SafeInv, Next, Advance

\* Every variable of a confirmation and its run keeps its type.
THEOREM TypeCorrect == Spec => []TypeOK
<1>1. Init => TypeOK
  BY InitInv DEF IInv, SafeInv
<1> QED BY <1>1, TypeStep, PTL DEF Spec

\* The inductive invariant of a confirmation holds throughout; what it says of the
\* row and of the replies is part of it.
THEOREM Inductive == Spec => []IInv
BY InitInv, NextInv, PTL DEF Spec

\* A row that its worker closed tells what became of each page, whatever breaks
\* off, is lost or is reconciled by an operator meanwhile.
THEOREM RowsTellTruth == Spec => []RowTellsTruth
<1>1. IInv => RowTellsTruth
  BY DEF IInv, SafeInv, RowInv
<1> QED BY <1>1, Inductive, PTL

\* Unless a write was lost or an operator replaced the row, the owner reads the
\* truth about what was indexed.
THEOREM OwnerReadsTruth == Spec => []RepliesTellTruth
<1>1. IInv => RepliesTellTruth
  BY DEF IInv, SafeInv, RepliesInv
<1> QED BY <1>1, Inductive, PTL

-----------------------------------------------------------------------------
(* The refinement of the confirmed index. *)

Scope == IF session.state # "none" /\ kind = "full" THEN Pages ELSE session.selected
Started == {r \in Runs : run[r].status # "none"}

\* A step that changes nothing of what the abstract confirmation shows is a stutter.
LEMMA Stutter ==
  ASSUME UNCHANGED <<Phase, Scope, Started, committed>>
  PROVE  UNCHANGED Confirmed!vars
BY DEF Confirmed!vars, Scope, Started

\* A session that was taken stays taken, over the same pages.
LEMMA Taken ==
  ASSUME TypeOK, ~Unconfirmed, NEW state \in {"processing", "running"} \cup Outcomes,
         session' = session \/ Become(state), UNCHANGED kind
  PROVE  UNCHANGED <<Phase, Scope>>
<1>1. session' = session \/ session' = [session EXCEPT !.state = state]
  BY DEF Become
<1>2. CASE session' = session
  BY <1>2 DEF Phase, Scope
<1>3. CASE session' = [session EXCEPT !.state = state]
  <2>1. session'.state = state /\ session'.selected = session.selected
    BY <1>3 DEF TypeOK, Sessions
  <2>2. Phase = "taken" /\ Phase' = "taken"
    BY <2>1 DEF Unconfirmed, Phase, Outcomes
  <2>3. Scope' = Scope
    BY <2>1 DEF Unconfirmed, Scope, Outcomes
  <2> QED BY <2>2, <2>3
<1> QED BY <1>1, <1>2, <1>3

LEMMA InitRefines == Init => Confirmed!Init
BY DEF Init, NoRow, Confirmed!Init, Phase

LEMMA StepRefines == IInv /\ IInv' /\ [Next]_vars => [Confirmed!Next]_Confirmed!vars
<1> SUFFICES ASSUME IInv, IInv', [Next]_vars PROVE [Confirmed!Next]_Confirmed!vars
  OBVIOUS
<1> USE DEF mode, history
<1>0. TypeOK /\ TypeOK'
  BY DEF IInv, SafeInv
<1>1. ASSUME Offer PROVE Confirmed!Offer
  <2>1. session' \in Sessions /\ session'.state = "offered" /\ session'.selected = {}
        /\ session.state = "none" /\ UNCHANGED <<kind, run, committed>>
    BY <1>0, <1>1 DEF TypeOK, Offer
  <2> QED BY <2>1 DEF Confirmed!Offer, Phase
<1>2. ASSUME NEW p \in Pages, Toggle(p) PROVE Confirmed!Select
  <2>1. /\ session.state = "offered" /\ session'.state = "offered" /\ kind = "sync"
        /\ session'.selected \subseteq Pages /\ UNCHANGED <<kind, run, committed>>
    BY <1>0, <1>2 DEF TypeOK, Sessions, Toggle
  <2> QED BY <2>1 DEF Confirmed!Select, Phase
<1>3. ASSUME NEW w \in Workers, Cancel(w) PROVE [Confirmed!Next]_Confirmed!vars
  <2>1. UNCHANGED <<kind, run, committed>>
    BY <1>3 DEF Cancel
  <2>2. CASE session' = session
    BY <2>1, <2>2, Stutter DEF Phase, Scope, Started
  <2>3. CASE session' # session
    <3>1. session.state = "offered" /\ session'.state = "cancelled"
          /\ session'.selected = session.selected
      BY <1>0, <1>3, <2>3 DEF TypeOK, Sessions, Cancel, Become
    <3>2. Confirmed!Decide
      BY <2>1, <3>1 DEF Confirmed!Decide, Phase
    <3> QED BY <3>2 DEF Confirmed!Next
  <2> QED BY <2>2, <2>3
<1>4. ASSUME NEW w \in Workers, Confirm(w) PROVE [Confirmed!Next]_Confirmed!vars
  <2>1. UNCHANGED <<kind, run, committed>>
    BY <1>4 DEF Confirm
  <2>2. CASE session' = session
    BY <2>1, <2>2, Stutter DEF Phase, Scope, Started
  <2>3. CASE session' # session
    <3>1. session.state = "offered" /\ session'.state = "processing"
          /\ session'.selected = session.selected
      BY <1>0, <1>4, <2>3 DEF TypeOK, Sessions, Confirm, Confirmable
    <3>2. Confirmed!Decide
      BY <2>1, <3>1 DEF Confirmed!Decide, Phase
    <3> QED BY <3>2 DEF Confirmed!Next
  <2> QED BY <2>2, <2>3
<1>5. ASSUME NEW w \in Workers, Start(w) PROVE \E r \in Runs : Confirmed!Start(r)
  <2>1. PICK r \in Runs : run' = [run EXCEPT ![r].status = "running"]
    BY <1>5 DEF Start
  <2>0. pc[w] = "start" /\ UNCHANGED <<kind, session, committed>>
    BY <1>5 DEF Start
  <2>2. \A x \in Runs : run'[x].status = IF x = r THEN "running" ELSE run[x].status
    BY <1>0, <2>1 DEF TypeOK, Rows
  <2>3. Started = {} /\ Started' = {r}
    BY <2>0, <2>2 DEF IInv, SafeInv, StageInv, StageAt, Started
  <2>4. Phase = "taken"
    BY <2>0 DEF IInv, SafeInv, HolderInv, Free, Holding, Unconfirmed, Phase
  <2>5. UNCHANGED <<Phase, Scope, committed>>
    BY <2>0 DEF Phase, Scope
  <2>6. Confirmed!Start(r)
    BY <2>3, <2>4, <2>5 DEF Confirmed!Start, Scope, Started
  <2> QED BY <2>6
<1>6. ASSUME NEW w \in Workers, NEW p \in Pages, IndexPage(w, p) \/ PageFails(w, p)
      PROVE  [Confirmed!Next]_Confirmed!vars
  <2>1. /\ pc[w] = "index" /\ p \in work[w].found
        /\ UNCHANGED <<kind, session, run>> /\ committed' \in {committed, committed \cup {p}}
    BY <1>6 DEF IndexPage, PageFails, Todo
  <2>2. ~Unconfirmed
    BY <2>1 DEF IInv, SafeInv, HolderInv, Free, Holding
  <2>3. p \in Scope
    BY <1>0, <2>1, <2>2 DEF TypeOK, IInv, SafeInv, PagesInv, PagesAt, Unconfirmed, Scope
  <2>4. Started # {}
    BY <1>0, <2>1 DEF TypeOK, Locals, IInv, SafeInv, StageInv, StageAt, Opened, Started
  <2>5. CASE committed' = committed
    BY <2>1, <2>5, Stutter DEF Phase, Scope, Started
  <2>6. CASE committed' = committed \cup {p}
    BY <2>1, <2>3, <2>4, <2>6 DEF Confirmed!Next, Confirmed!Commit, Phase, Scope, Started
  <2> QED BY <2>1, <2>5, <2>6
<1>7. ASSUME NEW w \in Workers, MarkQueued(w) \/ Refuse(w) \/ Complete(w)
      PROVE  UNCHANGED Confirmed!vars
  <2>1. UNCHANGED <<kind, run, committed>>
    BY <1>7 DEF MarkQueued, Refuse, Complete
  <2>2. work[w].outcome \in Outcomes
    BY <1>0 DEF TypeOK, Locals
  <2>3. CASE ~Unconfirmed
    BY <1>0, <1>7, <2>1, <2>2, <2>3, Stutter, Taken
      DEF MarkQueued, Refuse, Complete, Started, Outcomes
  <2>4. CASE Unconfirmed
    <3>1. pc[w] \in Opened
      BY <1>7 DEF MarkQueued, Refuse, Complete, Opened
    <3> QED BY <1>0, <2>4, <3>1 DEF TypeOK, Locals, IInv, SafeInv, StageInv, StageAt
  <2> QED BY <2>3, <2>4
<1>8. ASSUME NEW w \in Workers, CloseRefused(w) \/ Succeed(w) \/ Fail(w)
      PROVE  UNCHANGED Confirmed!vars
  <2>1. UNCHANGED <<kind, session, committed>>
    BY <1>8 DEF CloseRefused, Succeed, Fail
  <2>2. \A r \in Runs : run'[r] = run[r] \/ (r \in work[w].runs /\ run'[r].status # "none")
    <3>1. SucceededRow(w).status # "none" /\ FailedRow(w).status # "none"
          /\ [NoRow EXCEPT !.status = "failed", !.by = "queue"].status # "none"
      BY DEF SucceededRow, FailedRow, NoRow
    <3> HIDE DEF SucceededRow, FailedRow, NoRow
    <3>2. run' = run \/ \E row : row.status # "none" /\ Close(w, row)
      BY <1>8, <3>1 DEF CloseRefused, Succeed, Fail
    <3> QED BY <3>2 DEF Close
  <2>3. Started' = Started
    BY <2>2 DEF IInv, SafeInv, StageInv, StageAt, Started
  <2> QED BY <2>1, <2>3, Stutter DEF Phase, Scope
<1>9. ASSUME NEW r \in Runs, WriteVerdict(r) PROVE UNCHANGED Confirmed!vars
  <2>1. PICK verdict \in Verdicts : run' = [run EXCEPT ![r] = verdict]
    BY <1>9 DEF WriteVerdict
  <2>2. verdict.status # "none" /\ run[r].status # "none"
    BY <1>9 DEF WriteVerdict, Verdicts, NoRow, IInv, SafeInv, StageInv
  <2>3. Started' = Started
    BY <1>0, <2>1, <2>2 DEF TypeOK, Started
  <2> QED BY <1>9, <2>3, Stutter DEF WriteVerdict, Phase, Scope
<1>10. ASSUME NEW w \in Workers, NEW b \in Buttons, Press(w, b) PROVE UNCHANGED Confirmed!vars
  BY <1>10, Stutter DEF Press, Phase, Scope, Started
<1>11. ASSUME NEW w \in Workers, NEW r \in Runs, StartJob(w, r) PROVE UNCHANGED Confirmed!vars
  BY <1>11, Stutter DEF StartJob, Phase, Scope, Started
<1>12. ASSUME NEW w \in Workers,
              Enqueue(w) \/ QueueRaises(w) \/ Discover(w) \/ ReadCounts(w) \/ Break(w)
       PROVE  UNCHANGED Confirmed!vars
  BY <1>12, Stutter
  DEF Enqueue, QueueRaises, Discover, ReadCounts, Break, Phase, Scope, Started
<1>13. ASSUME NEW r \in Runs, ReadStale(r) PROVE UNCHANGED Confirmed!vars
  BY <1>13, Stutter DEF ReadStale, Phase, Scope, Started
<1>14. ASSUME Expire \/ UNCHANGED vars PROVE UNCHANGED Confirmed!vars
  BY <1>14, Stutter DEF Expire, vars, Phase, Scope, Started
<1> QED
  BY <1>1, <1>2, <1>3, <1>4, <1>5, <1>6, <1>7, <1>8, <1>9, <1>10, <1>11, <1>12, <1>13, <1>14
  DEF Next, Advance, Confirmed!Next

\* However often and wherever it is pressed, a confirmation opens one run over
\* the pages it was given for, and a cancelled one opens none.
THEOREM SessionImplementsConfirmed == Spec => ImplementsConfirmed
BY Inductive, InitRefines, StepRefines, PTL DEF Spec, ImplementsConfirmed, Confirmed!Spec

=============================================================================
