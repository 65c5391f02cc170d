------------------------ MODULE ReviewPipelineProofs ------------------------
(***************************************************************************)
(* Proofs about ReviewPipeline, for any requests, pages and processes, and *)
(* about the blocks that its appends add to a page (NotionZone), for any   *)
(* page and texts.                                                         *)
(***************************************************************************)
EXTENDS ReviewPipeline, TLAPS, WellFoundedInduction, FiniteSetTheorems, SequenceTheorems

\* A call under way knows the request and the page it works on.
LocalsOK ==
    /\ \A w \in Reviewers : pc[w] # "idle" => req[w] \in Requests
    /\ \A w \in Procs : pc[w] \notin {"idle", "reject"} => page[w] \in Pages

TypeInv == TypeOK /\ LocalsOK

\* The transaction steps of a process are exactly those in which it holds the
\* lock of its request (of its page), and no lock is held otherwise.
RowSteps == {"persist", "commit", "retarget"}

LocksOK ==
    /\ \A r \in Requests : rowLock[r] # None =>
          pc[rowLock[r]] \in RowSteps /\ req[rowLock[r]] = r
    /\ \A w \in Reviewers : pc[w] \in RowSteps => rowLock[req[w]] = w
    /\ \A p \in Pages : pageLock[p] # None =>
          pc[pageLock[p]] = "commit" /\ page[pageLock[p]] = p
    /\ \A w \in Procs : pc[w] = "commit" => pageLock[page[w]] = w

LockInv == TypeInv /\ LocksOK /\ LockedRequestIsPending

-----------------------------------------------------------------------------
(* Type correctness. *)

LEMMA TypeInit == Init => TypeInv
  BY ConstantsAssumption DEF ConstantsAssumption, Init, TypeInv, TypeOK, LocalsOK, Procs,
       ReviewerSteps,
     IndexerSteps, AppendSteps, PrepareSteps, PersistSteps, NoSnap, Snapshots

LEMMA StampStepsInNat == StampSteps \subseteq Nat
  BY ConstantsAssumption DEF ConstantsAssumption

LEMMA EditType ==
  ASSUME NEW p \in Pages, version \in [Pages -> Nat], stamp \in [Pages -> Nat], Edit(p)
  PROVE  version' \in [Pages -> Nat] /\ stamp' \in [Pages -> Nat]
  BY StampStepsInNat DEF Edit

LEMMA TypeStep == ASSUME TypeInv, [Next]_vars PROVE TypeInv'
<1> USE ConstantsAssumption DEF ConstantsAssumption, TypeInv, TypeOK, LocalsOK, Procs,
     ReviewerSteps, IndexerSteps, AppendSteps, PrepareSteps, PersistSteps, NoSnap, Snapshots, 
     requestVars, lockVars, notionVars, procVars, vars,
     Goto, Return, EndTransaction
<1>1. ASSUME NEW p \in Pages, UserEdit(p) PROVE TypeInv'
  BY <1>1, EditType DEF UserEdit
<1>2. ASSUME NEW w \in Reviewers, NEW r \in Requests, StartAccept(w, r) PROVE TypeInv'
  BY <1>2 DEF StartAccept
<1>3. ASSUME NEW w \in Reviewers, NEW r \in Requests, StartReject(w, r) PROVE TypeInv'
  BY <1>3 DEF StartReject
<1>4. ASSUME NEW w \in Reviewers, NEW r \in Requests, EditLater(w, r) PROVE TypeInv'
  BY <1>4 DEF EditLater
<1>5. ASSUME NEW w \in Reviewers, NEW r \in Requests, NEW p \in Pages, LockTarget(w, r, p)
      PROVE TypeInv'
  BY <1>5 DEF LockTarget
<1>6. ASSUME NEW i \in Indexers, NEW p \in Pages, StartIndex(i, p) PROVE TypeInv'
  BY <1>6 DEF StartIndex
<1>7. ASSUME NEW w \in Procs, Step(w) PROVE TypeInv'
  <2>1. CASE FindIdentity(w)  BY <2>1 DEF FindIdentity
  <2>2. CASE CreateContainers(w)  BY <2>2, EditType DEF CreateContainers
  <2>3. CASE AppendSection(w)
    <3>1. w \in Reviewers /\ page[w] \in Pages /\ req[w] \in Requests
      BY <2>3 DEF AppendSection
    <3>2. version' \in [Pages -> Nat] /\ stamp' \in [Pages -> Nat]
      BY <2>3, <3>1, EditType DEF AppendSection
    <3>3. section' \in [Pages -> [Requests -> SUBSET Nat]]
      BY <2>3, <3>1 DEF AppendSection
    <3> QED BY <2>3, <3>1, <3>2, <3>3 DEF AppendSection
  <2>4. CASE VerifyAppend(w)  BY <2>4 DEF VerifyAppend
  <2>5. CASE ReadMeta(w)  BY <2>5 DEF ReadMeta
  <2>6. CASE ReadBlocks(w)  BY <2>6 DEF ReadBlocks
  <2>7. CASE LockRequest(w)  BY <2>7 DEF LockRequest
  <2>8. CASE RefuseAccept(w)  BY <2>8 DEF RefuseAccept
  <2>9. CASE LockPage(w)  BY <2>9 DEF LockPage, AtPageLock
  <2>10. CASE RefuseStale(w)  BY <2>10 DEF RefuseStale
  <2>11. CASE CommitIndex(w)  BY <2>11 DEF CommitIndex
  <2>12. CASE CommitAccept(w)  BY <2>12 DEF CommitAccept
  <2>13. CASE WriteReject(w)  BY <2>13 DEF WriteReject
  <2>14. CASE CommitTarget(w)  BY <2>14 DEF CommitTarget
  <2>15. CASE Abort(w)  BY <2>15 DEF Abort
  <2> QED BY <1>7, <2>1, <2>2, <2>3, <2>4, <2>5, <2>6, <2>7, <2>8, <2>9, <2>10,
             <2>11, <2>12, <2>13, <2>14, <2>15 DEF Step, Advance
<1>8. CASE UNCHANGED vars  BY <1>8
<1> QED BY <1>1, <1>2, <1>3, <1>4, <1>5, <1>6, <1>7, <1>8 DEF Next, Call

\* The state always has the shape TypeOK gives it.
THEOREM TypeCorrect == Spec => []TypeOK
<1>1. Spec => []TypeInv
  BY TypeInit, TypeStep, PTL DEF Spec
<1> QED BY <1>1, PTL DEF TypeInv

-----------------------------------------------------------------------------
(* Locks and decisions. *)

LEMMA LockInit == Init => LockInv
<1>1. SUFFICES ASSUME Init PROVE LockInv
  OBVIOUS
<1>2. TypeInv  BY <1>1, TypeInit
<1>3. LocksOK /\ LockedRequestIsPending
  BY <1>1 DEF Init, LocksOK, LockedRequestIsPending, RowSteps, Procs
<1> QED BY <1>2, <1>3 DEF LockInv

\* A call that ends its transaction and returns leaves the others' locks alone.
LEMMA EndTransactionKeepsLocks ==
  ASSUME TypeInv, LocksOK, NEW w \in Procs, EndTransaction(w), Return(w)
  PROVE  LocksOK'
<1>a. None \notin Procs /\ None \notin Requests
  BY ConstantsAssumption DEF ConstantsAssumption, Procs
<1>b. TypeOK /\ LocalsOK /\ RowSteps \subseteq (ReviewerSteps \ {"idle"})
  BY DEF TypeInv, RowSteps, ReviewerSteps, PersistSteps
<1>1. pc' = [pc EXCEPT ![w] = "idle"] /\ req' = [req EXCEPT ![w] = None]
      /\ page' = [page EXCEPT ![w] = None]
  BY DEF Return
<1>2. \A r \in Requests : rowLock'[r] # None => rowLock'[r] = rowLock[r] /\ rowLock[r] # w
  BY <1>a DEF EndTransaction
<1>3. \A p \in Pages : pageLock'[p] # None => pageLock'[p] = pageLock[p] /\ pageLock[p] # w
  BY <1>a DEF EndTransaction
<1>4. \A r \in Requests : rowLock'[r] # None =>
         pc'[rowLock'[r]] \in RowSteps /\ req'[rowLock'[r]] = r
  BY <1>a, <1>b, <1>1, <1>2 DEF TypeOK, LocksOK, Procs
<1>5. \A v \in Reviewers : pc'[v] \in RowSteps => rowLock'[req'[v]] = v
  <2> SUFFICES ASSUME NEW v \in Reviewers, pc'[v] \in RowSteps
               PROVE  rowLock'[req'[v]] = v
    OBVIOUS
  <2>1. v # w /\ pc[v] \in RowSteps /\ req'[v] = req[v]
    BY <1>b, <1>1 DEF TypeOK, Procs
  <2>2. req[v] \in Requests /\ rowLock[req[v]] = v
    BY <1>b, <2>1 DEF LocalsOK, LocksOK
  <2> QED BY <2>1, <2>2 DEF EndTransaction
<1>6. \A p \in Pages : pageLock'[p] # None =>
         pc'[pageLock'[p]] = "commit" /\ page'[pageLock'[p]] = p
  BY <1>a, <1>b, <1>1, <1>3 DEF TypeOK, LocksOK, Procs
<1>7. \A v \in Procs : pc'[v] = "commit" => pageLock'[page'[v]] = v
  <2> SUFFICES ASSUME NEW v \in Procs, pc'[v] = "commit"
               PROVE  pageLock'[page'[v]] = v
    OBVIOUS
  <2>1. v # w /\ pc[v] = "commit" /\ page'[v] = page[v]
    BY <1>b, <1>1 DEF TypeOK
  <2>2. page[v] \in Pages /\ pageLock[page[v]] = v
    BY <1>b, <2>1 DEF LocalsOK, LocksOK
  <2> QED BY <2>1, <2>2 DEF EndTransaction
<1> QED BY <1>4, <1>5, <1>6, <1>7 DEF LocksOK

LEMMA LockStep == ASSUME LockInv, [Next]_vars PROVE LockInv'
<1>a. TypeInv /\ LocksOK /\ LockedRequestIsPending  BY DEF LockInv
<1>b. TypeInv'  BY <1>a, TypeStep
<1>c. None \notin Procs /\ None \notin Requests /\ Reviewers \cap Indexers = {}
  BY ConstantsAssumption DEF ConstantsAssumption, Procs
<1>d. ASSUME NEW w \in Procs, CommitAccept(w) \/ CommitTarget(w) PROVE LocksOK'
  <2>1. EndTransaction(w) /\ Return(w)
    BY <1>d DEF CommitAccept, CommitTarget
  <2> QED BY <1>a, <2>1, EndTransactionKeepsLocks
<1> USE <1>a, <1>b, <1>c DEF TypeInv, TypeOK, LocalsOK, Procs, ReviewerSteps,
     IndexerSteps, AppendSteps, PrepareSteps, PersistSteps, RowSteps,
     requestVars, lockVars, notionVars, procVars, vars, Goto, Return, EndTransaction,
     LocksOK, LockedRequestIsPending
<1> SUFFICES LocksOK' /\ LockedRequestIsPending'
  BY DEF LockInv
<1>1. ASSUME NEW p \in Pages, UserEdit(p) PROVE LocksOK' /\ LockedRequestIsPending'
  BY <1>1 DEF UserEdit
<1>2. ASSUME NEW w \in Reviewers, NEW r \in Requests, StartAccept(w, r)
      PROVE  LocksOK' /\ LockedRequestIsPending'
  BY <1>2 DEF StartAccept
<1>3. ASSUME NEW w \in Reviewers, NEW r \in Requests, StartReject(w, r)
      PROVE  LocksOK' /\ LockedRequestIsPending'
  BY <1>3 DEF StartReject
<1>4. ASSUME NEW w \in Reviewers, NEW r \in Requests, EditLater(w, r)
      PROVE  LocksOK' /\ LockedRequestIsPending'
  BY <1>4 DEF EditLater
<1>5. ASSUME NEW w \in Reviewers, NEW r \in Requests, NEW p \in Pages, LockTarget(w, r, p)
      PROVE  LocksOK' /\ LockedRequestIsPending'
  BY <1>5 DEF LockTarget
<1>6. ASSUME NEW i \in Indexers, NEW p \in Pages, StartIndex(i, p)
      PROVE  LocksOK' /\ LockedRequestIsPending'
  BY <1>6 DEF StartIndex
<1>7. ASSUME NEW w \in Procs, Step(w) PROVE LocksOK' /\ LockedRequestIsPending'
  <2>1. CASE FindIdentity(w)  BY <2>1 DEF FindIdentity
  <2>2. CASE CreateContainers(w)  BY <2>2 DEF CreateContainers
  <2>3. CASE AppendSection(w)  BY <2>3 DEF AppendSection
  <2>4. CASE VerifyAppend(w)  BY <2>4 DEF VerifyAppend
  <2>5. CASE ReadMeta(w)  BY <2>5 DEF ReadMeta
  <2>6. CASE ReadBlocks(w)  BY <2>6 DEF ReadBlocks
  <2>7. CASE LockRequest(w)  BY <2>7 DEF LockRequest
  <2>8. CASE RefuseAccept(w)  BY <2>8 DEF RefuseAccept
  <2>9. CASE LockPage(w)  BY <2>9 DEF LockPage, AtPageLock
  <2>10. CASE RefuseStale(w)  BY <2>10 DEF RefuseStale, AtPageLock
  <2>11. CASE CommitIndex(w)  BY <2>11 DEF CommitIndex
  <2>12. CASE CommitAccept(w)
    <3>1. w \in Reviewers /\ req[w] \in Requests /\ rowLock[req[w]] = w
      BY <2>12 DEF CommitAccept
    <3>2. rowLock'[req[w]] = None
      BY <2>12, <3>1 DEF CommitAccept
    <3>3. LockedRequestIsPending'
      BY <2>12, <3>1, <3>2 DEF CommitAccept
    <3>4. LocksOK'
      BY <1>d, <2>12
    <3> QED BY <3>3, <3>4
  <2>13. CASE WriteReject(w)  BY <2>13 DEF WriteReject
  <2>14. CASE CommitTarget(w)
    <3>1. w \in Reviewers /\ req[w] \in Requests /\ rowLock[req[w]] = w
      BY <2>14 DEF CommitTarget
    <3>2. rowLock'[req[w]] = None
      BY <2>14, <3>1 DEF CommitTarget
    <3>3. LockedRequestIsPending'
      BY <2>14, <3>1, <3>2 DEF CommitTarget
    <3>4. LocksOK'
      BY <1>d, <2>14
    <3> QED BY <3>3, <3>4
  <2>15. CASE Abort(w)  BY <2>15 DEF Abort
  <2> QED BY <1>7, <2>1, <2>2, <2>3, <2>4, <2>5, <2>6, <2>7, <2>8, <2>9, <2>10,
             <2>11, <2>12, <2>13, <2>14, <2>15 DEF Step, Advance
<1>8. CASE UNCHANGED vars  BY <1>8
<1> QED BY <1>1, <1>2, <1>3, <1>4, <1>5, <1>6, <1>7, <1>8 DEF Next, Call

LEMMA LocksHold == Spec => []LockInv
  BY LockInit, LockStep, PTL DEF Spec

\* No transaction of another process, and no unlocked write, decides a request
\* between the revalidation and the commit of the process that locked it.
THEOREM LockedRequestStaysPending == Spec => []LockedRequestIsPending
  BY LocksHold, PTL DEF LockInv

\* Only three steps write a change request.
LEMMA OtherStepsDecideNothing ==
  ASSUME NEW w \in Procs, Step(w), ~CommitAccept(w), ~WriteReject(w), ~CommitTarget(w)
  PROVE  UNCHANGED <<status, target>>
  BY DEF Step, Advance, FindIdentity, CreateContainers, AppendSection, VerifyAppend,
     ReadMeta, ReadBlocks, LockRequest, RefuseAccept, LockPage, RefuseStale,
     CommitIndex, Abort, requestVars

LEMMA CallsDecideNothing ==
  ASSUME NEW w \in Procs, Call(w)
  PROVE  UNCHANGED <<status, target>>
  BY DEF Call, StartAccept, StartReject, EditLater, LockTarget, StartIndex,
     requestVars, vars

\* Only a pending request is accepted, a rejected one stays rejected, and only
\* the target of a pending request changes.
THEOREM DecisionsAlwaysHold == Spec => DecisionsHold
<1> DEFINE Decision ==
      \A r \in Requests :
          /\ status'[r] = "accepted" => status[r] \in {"pending", "accepted"}
          /\ status[r] = "rejected" => status'[r] = "rejected"
          /\ target'[r] # target[r] => status[r] = "pending" /\ status'[r] = "pending"
<1>1. ASSUME LockInv, [Next]_vars PROVE [Decision]_vars
  <2>a. TypeOK /\ LocalsOK /\ LocksOK /\ LockedRequestIsPending
    BY <1>1 DEF LockInv, TypeInv
  <2>b. None \notin Procs
    BY ConstantsAssumption DEF ConstantsAssumption, Procs
  <2>1. CASE UNCHANGED <<status, target>>
    BY <2>a, <2>1 DEF TypeOK
  <2>2. ASSUME NEW w \in Procs, CommitAccept(w) PROVE Decision
    <3>1. req[w] \in Requests /\ status[req[w]] = "pending"
      BY <2>2, <2>a, <2>b DEF CommitAccept, LocalsOK, LocksOK, RowSteps,
         LockedRequestIsPending, Procs
    <3> QED BY <2>2, <2>a, <3>1 DEF CommitAccept, TypeOK
  <2>3. ASSUME NEW w \in Procs, WriteReject(w) PROVE Decision
    BY <2>3, <2>a DEF WriteReject, TypeOK
  <2>4. ASSUME NEW w \in Procs, CommitTarget(w) PROVE Decision
    <3>1. w \in Reviewers
      BY <2>4, <2>a DEF CommitTarget, TypeOK, IndexerSteps, PrepareSteps, Procs
    <3>2. req[w] \in Requests /\ status[req[w]] = "pending"
      BY <2>4, <2>a, <2>b, <3>1 DEF CommitTarget, LocalsOK, LocksOK, RowSteps,
         LockedRequestIsPending, Procs
    <3> QED BY <2>4, <2>a, <3>2 DEF CommitTarget, TypeOK
  <2>5. ASSUME NEW w \in Procs, Step(w),
               ~CommitAccept(w), ~WriteReject(w), ~CommitTarget(w)
        PROVE  UNCHANGED <<status, target>>
    BY <2>5, OtherStepsDecideNothing
  <2>6. ASSUME NEW w \in Procs, Call(w) PROVE UNCHANGED <<status, target>>
    BY <2>6, CallsDecideNothing
  <2>7. ASSUME NEW p \in Pages, UserEdit(p) PROVE UNCHANGED <<status, target>>
    BY <2>7 DEF UserEdit, requestVars
  <2> HIDE DEF Decision
  <2> QED BY <1>1, <2>1, <2>2, <2>3, <2>4, <2>5, <2>6, <2>7 DEF Next, vars, requestVars
<1> QED BY <1>1, LocksHold, PTL DEF Spec, DecisionsHold

-----------------------------------------------------------------------------
(* The index.  When last_edited_time moves with every edit, the stamp of a *)
(* page counts its edits, so the stamp of a snapshot, read first, never    *)
(* promises more than its blocks hold.                                     *)

StampsCountEdits == StampSteps = {1}

SnapsOK ==
    /\ \A p \in Pages : stamp[p] = version[p]
    /\ \A p \in Pages : index[p].stamp <= index[p].version
    /\ \A w \in Procs : pc[w] = "blocks" => snap[w].stamp <= version[page[w]]
    /\ \A w \in Procs : pc[w] \in {"prepared", "persist", "commit"} =>
          snap[w].stamp <= snap[w].version
    /\ \A w \in Procs : pc[w] = "commit" => index[page[w]].stamp <= snap[w].stamp

\* An accept past its verification holds, and an accepted request has left in
\* an index, a stamp at which the section was on the page.
SectionsOK ==
    /\ \A w \in Reviewers : pc[w] = "meta" =>
          HasSection(page[w], req[w], stamp[page[w]])
    /\ \A w \in Reviewers : pc[w] \in {"blocks", "prepared", "persist", "commit"} =>
          HasSection(page[w], req[w], snap[w].stamp)
    /\ \A r \in Requests : status[r] = "accepted" =>
          \E p \in Pages : HasSection(p, r, index[p].stamp)

IndexInv == LockInv /\ SnapsOK /\ SectionsOK

LEMMA IndexInit == Init => IndexInv
<1>1. SUFFICES ASSUME Init PROVE IndexInv
  OBVIOUS
<1>2. LockInv  BY <1>1, LockInit
<1>3. SnapsOK /\ SectionsOK
  BY <1>1 DEF Init, SnapsOK, SectionsOK, NoSnap, Procs
<1> QED BY <1>2, <1>3 DEF IndexInv

LEMMA SnapsStep ==
  ASSUME StampsCountEdits, LockInv, SnapsOK, [Next]_vars
  PROVE  SnapsOK'
<1>a. TypeOK /\ LocalsOK /\ LocksOK
  BY DEF LockInv, TypeInv
<1>b. \A p \in Pages : stamp[p] \in Nat /\ version[p] \in Nat
      /\ index[p].stamp \in Nat /\ index[p].version \in Nat
  BY <1>a DEF TypeOK, Snapshots
<1>c. \A w \in Procs : snap[w].stamp \in Nat /\ snap[w].version \in Nat
  BY <1>a DEF TypeOK, Snapshots
<1> USE <1>a, <1>b, <1>c DEF TypeOK, LocalsOK, Procs, ReviewerSteps,
     IndexerSteps, AppendSteps, PrepareSteps, PersistSteps, Snapshots, NoSnap,
     requestVars, lockVars, notionVars, procVars, vars, Goto, Return, SnapsOK
<1>d. ASSUME NEW p \in Pages, Edit(p), UNCHANGED <<index, page, snap>>,
             \A v \in Procs : pc'[v] = pc[v]
                \/ pc'[v] \notin {"blocks", "prepared", "persist", "commit"}
      PROVE  SnapsOK'
  <2>1. /\ \A q \in Pages : stamp'[q] = version'[q]
        /\ \A q \in Pages : version[q] <= version'[q] /\ version'[q] \in Nat
    BY <1>d DEF Edit, StampsCountEdits
  <2>2. ASSUME NEW v \in Procs, pc'[v] = "blocks"
        PROVE  snap'[v].stamp <= version'[page'[v]]
    <3>1. pc[v] = "blocks" /\ page[v] \in Pages  BY <1>d, <2>2
    <3> QED BY <1>d, <2>1, <3>1
  <2> QED BY <1>d, <2>1, <2>2
<1>1. ASSUME NEW p \in Pages, UserEdit(p) PROVE SnapsOK'
  BY <1>1, <1>d DEF UserEdit
<1>2. ASSUME NEW w \in Procs, Call(w) PROVE SnapsOK'
  <2>1. ASSUME NEW r \in Requests, StartAccept(w, r) \/ StartReject(w, r) PROVE SnapsOK'
    BY <2>1 DEF StartAccept, StartReject
  <2>2. ASSUME NEW r \in Requests, EditLater(w, r) PROVE SnapsOK'
    BY <2>2 DEF EditLater
  <2>3. ASSUME NEW r \in Requests, NEW p \in Pages, LockTarget(w, r, p) PROVE SnapsOK'
    BY <2>3 DEF LockTarget
  <2>4. ASSUME NEW p \in Pages, StartIndex(w, p) PROVE SnapsOK'
    BY <2>4 DEF StartIndex
  <2> QED BY <1>2, <2>1, <2>2, <2>3, <2>4 DEF Call
<1>3. ASSUME NEW w \in Procs, Step(w) PROVE SnapsOK'
  <2>1. CASE FindIdentity(w)  BY <2>1 DEF FindIdentity
  <2>2. CASE CreateContainers(w)
    <3>1. page[w] \in Pages  BY <2>2 DEF CreateContainers
    <3> QED BY <2>2, <3>1, <1>d DEF CreateContainers
  <2>3. CASE AppendSection(w)
    <3>1. page[w] \in Pages  BY <2>3 DEF AppendSection
    <3> QED BY <2>3, <3>1, <1>d DEF AppendSection
  <2>4. CASE VerifyAppend(w)  BY <2>4 DEF VerifyAppend
  <2>5. CASE ReadMeta(w)
    <3>1. page[w] \in Pages /\ snap'[w].stamp = version[page[w]] /\ pc'[w] = "blocks"
      BY <2>5 DEF ReadMeta
    <3>2. \A v \in Procs \ {w} : pc'[v] = pc[v] /\ snap'[v] = snap[v]
      BY <2>5 DEF ReadMeta
    <3> QED BY <2>5, <3>1, <3>2 DEF ReadMeta
  <2>6. CASE ReadBlocks(w)  BY <2>6 DEF ReadBlocks
  <2>7. CASE LockRequest(w)  BY <2>7 DEF LockRequest
  <2>8. CASE RefuseAccept(w)  BY <2>8 DEF RefuseAccept
  <2>9. CASE LockPage(w)
    <3>1. index[page[w]].stamp <= snap[w].stamp
      <4>1. page[w] \in Pages  BY <2>9 DEF LockPage, AtPageLock
      <4> QED BY <2>9, <4>1 DEF LockPage, Stale
    <3>2. pc[w] \in {"prepared", "persist"} /\ pc'[w] = "commit"
      BY <2>9 DEF LockPage, AtPageLock
    <3>3. \A v \in Procs \ {w} : pc'[v] = pc[v]
      BY <2>9 DEF LockPage
    <3> QED BY <2>9, <3>1, <3>2, <3>3 DEF LockPage
  <2>10. CASE RefuseStale(w)  BY <2>10 DEF RefuseStale
  <2>11. CASE CommitIndex(w)  BY <2>11 DEF CommitIndex, LocksOK
  <2>12. CASE CommitAccept(w)  BY <2>12 DEF CommitAccept, LocksOK
  <2>13. CASE WriteReject(w)  BY <2>13 DEF WriteReject
  <2>14. CASE CommitTarget(w)  BY <2>14 DEF CommitTarget
  <2>15. CASE Abort(w)  BY <2>15 DEF Abort
  <2> QED BY <1>3, <2>1, <2>2, <2>3, <2>4, <2>5, <2>6, <2>7, <2>8, <2>9, <2>10,
             <2>11, <2>12, <2>13, <2>14, <2>15 DEF Step, Advance
<1>4. CASE UNCHANGED vars  BY <1>4
<1> QED BY <1>1, <1>2, <1>3, <1>4 DEF Next

\* A commit never lowers the stamp of an index, a section is never removed.
LEMMA NothingLost ==
  ASSUME LockInv, SnapsOK, [Next]_vars
  PROVE  /\ \A p \in Pages : index[p].stamp <= index'[p].stamp
         /\ \A p \in Pages, r \in Requests : section[p][r] \subseteq section'[p][r]
<1>a. TypeOK /\ LocalsOK
  BY DEF LockInv, TypeInv
<1>b. \A p \in Pages : index[p].stamp \in Nat
  BY <1>a DEF TypeOK, Snapshots
<1>1. \A p \in Pages : index[p].stamp <= index'[p].stamp
  <2>1. ASSUME NEW w \in Procs, pc[w] = "commit",
               index' = [index EXCEPT ![page[w]] = snap[w]]
        PROVE  \A p \in Pages : index[p].stamp <= index'[p].stamp
    BY <2>1, <1>a, <1>b DEF SnapsOK, TypeOK
  <2>2. CASE UNCHANGED index
    BY <2>2, <1>b
  <2>3. CASE \E w \in Procs : CommitIndex(w) \/ CommitAccept(w)
    BY <2>1, <2>3 DEF CommitIndex, CommitAccept
  <2> QED BY <2>2, <2>3 DEF Next, UserEdit, Call, Step, Advance, StartAccept, StartReject,
       EditLater, LockTarget, StartIndex, FindIdentity, CreateContainers, AppendSection,
       VerifyAppend, ReadMeta, ReadBlocks, LockRequest, RefuseAccept, LockPage,
       RefuseStale, WriteReject, CommitTarget, Abort, vars
<1>2. \A p \in Pages, r \in Requests : section[p][r] \subseteq section'[p][r]
  <2>1. ASSUME NEW w \in Procs, AppendSection(w)
        PROVE  \A p \in Pages, r \in Requests : section[p][r] \subseteq section'[p][r]
    BY <2>1, <1>a DEF AppendSection, TypeOK
  <2>2. CASE UNCHANGED section
    BY <2>2
  <2> QED BY <2>1, <2>2 DEF Next, UserEdit, Call, Step, Advance, StartAccept, StartReject,
       EditLater, LockTarget, StartIndex, FindIdentity, CreateContainers, VerifyAppend,
       ReadMeta, ReadBlocks, LockRequest, RefuseAccept, LockPage, RefuseStale,
       CommitIndex, CommitAccept, WriteReject, CommitTarget, Abort, vars, notionVars
<1> QED BY <1>1, <1>2

LEMMA StampsGrow ==
  ASSUME TypeOK, [Next]_vars
  PROVE  \A p \in Pages : stamp[p] <= stamp'[p]
<1>1. ASSUME NEW p \in Pages, Edit(p)
      PROVE  \A q \in Pages : stamp[q] <= stamp'[q]
  BY <1>1, StampStepsInNat DEF Edit, TypeOK
<1>2. CASE UNCHANGED stamp
  BY <1>2 DEF TypeOK
<1>3. CASE \E w \in Procs : (CreateContainers(w) \/ AppendSection(w)) /\ page[w] \in Pages
  BY <1>1, <1>3 DEF CreateContainers, AppendSection
<1>4. CASE \E w \in Procs : (CreateContainers(w) \/ AppendSection(w)) /\ page[w] \notin Pages
  BY <1>4 DEF CreateContainers, AppendSection, Edit, TypeOK
<1>5. CASE \E p \in Pages : UserEdit(p)
  BY <1>1, <1>5 DEF UserEdit
<1> QED BY <1>2, <1>3, <1>4, <1>5 DEF Next, Call, Step, Advance, StartAccept, StartReject,
     EditLater, LockTarget, StartIndex, FindIdentity, VerifyAppend, ReadMeta,
     ReadBlocks, LockRequest, RefuseAccept, LockPage, RefuseStale, CommitIndex,
     CommitAccept, WriteReject, CommitTarget, Abort, vars, notionVars

\* A step of one process leaves the locals of the others alone.
LEMMA LocalsFrame ==
  ASSUME TypeOK, NEW v \in Procs, Call(v) \/ Step(v), NEW u \in Procs, u # v
  PROVE  /\ pc'[u] = pc[u] /\ req'[u] = req[u]
         /\ page'[u] = page[u] /\ snap'[u] = snap[u]
  BY DEF Call, Step, Advance, StartAccept, StartReject, EditLater, LockTarget, StartIndex,
     FindIdentity, CreateContainers, AppendSection, VerifyAppend, ReadMeta, ReadBlocks,
     LockRequest, RefuseAccept, LockPage, RefuseStale, CommitIndex, CommitAccept,
     WriteReject, CommitTarget, Abort, Goto, Return, vars, procVars, TypeOK

\* How a reviewer gets to "meta", past it, and a request to "accepted".
AfterMeta == {"blocks", "prepared", "persist", "commit"}

LEMMA IntoMeta ==
  ASSUME TypeOK, [Next]_vars, NEW w \in Reviewers, pc'[w] = "meta"
  PROVE  /\ page'[w] = page[w] /\ req'[w] = req[w]
         /\ pc[w] = "meta" \/ VerifyAppend(w)
<1>1. CASE Call(w) \/ Step(w)
  BY <1>1, ConstantsAssumption DEF ConstantsAssumption, Call, Step, Advance, StartAccept,
     StartReject, EditLater, LockTarget, FindIdentity, CreateContainers, AppendSection,
     VerifyAppend, ReadMeta, ReadBlocks, LockRequest, RefuseAccept, LockPage,
     RefuseStale, CommitIndex, CommitAccept, WriteReject, CommitTarget, Abort, Goto,
     Return, vars, procVars, TypeOK, Procs
<1>2. CASE \E v \in Procs \ {w} : Call(v) \/ Step(v)
  BY <1>2, LocalsFrame DEF Procs
<1>3. CASE UNCHANGED procVars
  BY <1>3 DEF procVars
<1> QED BY <1>1, <1>2, <1>3 DEF Next, UserEdit, vars, Procs

LEMMA IntoAfterMeta ==
  ASSUME TypeOK, [Next]_vars, NEW w \in Reviewers, pc'[w] \in AfterMeta
  PROVE  /\ page'[w] = page[w] /\ req'[w] = req[w]
         /\ \/ pc[w] \in AfterMeta /\ snap'[w].stamp = snap[w].stamp
            \/ ReadMeta(w)
<1>a. w \in Procs /\ w \notin Indexers
  BY ConstantsAssumption DEF ConstantsAssumption, Procs
<1>1. CASE Call(w) \/ Step(w)
  <2> USE <1>a DEF Goto, Return, TypeOK, AfterMeta
  <2>1. CASE ReadMeta(w)
    BY <2>1 DEF ReadMeta
  <2>2. CASE ReadBlocks(w)
    BY <2>2 DEF ReadBlocks, Snapshots
  <2>3. CASE LockRequest(w) \/ LockPage(w)
    BY <2>3 DEF LockRequest, LockPage, AtPageLock
  <2>4. CASE \E r \in Requests : EditLater(w, r)
    BY <2>4 DEF EditLater, vars, procVars
  <2> QED BY <1>1, <2>1, <2>2, <2>3, <2>4 DEF Call, Step, Advance, StartAccept, StartReject,
       LockTarget, FindIdentity, CreateContainers, AppendSection, VerifyAppend,
       RefuseAccept, RefuseStale, CommitIndex, CommitAccept, WriteReject, CommitTarget,
       Abort
<1>2. CASE \E v \in Procs \ {w} : Call(v) \/ Step(v)
  BY <1>2, LocalsFrame DEF Procs
<1>3. CASE UNCHANGED procVars
  BY <1>3 DEF procVars
<1> QED BY <1>1, <1>2, <1>3 DEF Next, UserEdit, vars, Procs

LEMMA IntoAccepted ==
  ASSUME TypeOK, [Next]_vars, NEW r \in Requests, status'[r] = "accepted"
  PROVE  \/ status[r] = "accepted"
         \/ \E w \in Reviewers : CommitAccept(w) /\ r = req[w]
<1>1. CASE UNCHANGED status
  BY <1>1
<1>2. ASSUME NEW w \in Procs, CommitAccept(w) \/ WriteReject(w)
      PROVE  status[r] = "accepted" \/ (CommitAccept(w) /\ w \in Reviewers /\ r = req[w])
  BY <1>2 DEF CommitAccept, WriteReject, TypeOK
<1> QED BY <1>1, <1>2 DEF Next, UserEdit, Call, Step, Advance, StartAccept, StartReject,
     EditLater, LockTarget, StartIndex, FindIdentity, CreateContainers, AppendSection,
     VerifyAppend, ReadMeta, ReadBlocks, LockRequest, RefuseAccept, LockPage,
     RefuseStale, CommitIndex, CommitTarget, Abort, vars, requestVars

LEMMA SectionsStep ==
  ASSUME StampsCountEdits, LockInv, SnapsOK, SectionsOK, [Next]_vars
  PROVE  SectionsOK'
<1>a. TypeOK /\ LocalsOK
  BY DEF LockInv, TypeInv
<1>b. TypeOK' /\ LocalsOK' /\ SnapsOK'
  BY SnapsStep, LockStep DEF LockInv, TypeInv
<1>c. \A p \in Pages, r \in Requests : section[p][r] \subseteq Nat
  BY <1>a DEF TypeOK
<1>d. ASSUME NEW p \in Pages, NEW r \in Requests, NEW u \in Nat, NEW v \in Nat,
             HasSection(p, r, u), u <= v
      PROVE  HasSection(p, r, v)'
  BY <1>d, <1>c, NothingLost DEF HasSection
<1>e. \A p \in Pages : /\ stamp[p] \in Nat /\ stamp'[p] \in Nat /\ stamp[p] <= stamp'[p]
                       /\ index[p].stamp \in Nat /\ index'[p].stamp \in Nat
  BY <1>a, <1>b, StampsGrow DEF TypeOK, Snapshots
<1>f. \A w \in Procs : snap[w].stamp \in Nat
  BY <1>a DEF TypeOK, Snapshots
<1>1. ASSUME NEW w \in Reviewers, pc'[w] = "meta"
      PROVE  HasSection(page[w], req[w], stamp[page[w]])'
  <2>1. pc[w] # "idle" /\ page'[w] = page[w] /\ req'[w] = req[w]
        /\ HasSection(page[w], req[w], stamp[page[w]])
    <3>1. CASE pc[w] = "meta" /\ page'[w] = page[w] /\ req'[w] = req[w]
      BY <3>1 DEF SectionsOK
    <3>2. CASE VerifyAppend(w)
      <4>1. page[w] \in Pages  BY <3>2, <1>a DEF VerifyAppend, LocalsOK, Procs
      <4> QED BY <3>2, <4>1 DEF VerifyAppend, SnapsOK
    <3> QED BY <1>1, <1>a, <3>1, <3>2, IntoMeta
  <2>2. page[w] \in Pages /\ req[w] \in Requests
    BY <1>1, <2>1, <1>b DEF LocalsOK, Procs
  <2> QED BY <2>1, <2>2, <1>d, <1>e
<1>2. ASSUME NEW w \in Reviewers, pc'[w] \in AfterMeta
      PROVE  HasSection(page[w], req[w], snap[w].stamp)'
  <2>1. page[w] \in Pages /\ req[w] \in Requests /\ page'[w] = page[w] /\ req'[w] = req[w]
    BY <1>2, <1>a, IntoAfterMeta DEF LocalsOK, Procs, AfterMeta, ReadMeta
  <2>2. CASE pc[w] \in AfterMeta /\ snap'[w].stamp = snap[w].stamp
    <3>1. HasSection(page[w], req[w], snap[w].stamp)
      BY <2>2 DEF SectionsOK, AfterMeta
    <3> QED BY <2>1, <2>2, <3>1, <1>d, <1>f DEF Procs
  <2>3. CASE ReadMeta(w)
    <3>1. HasSection(page[w], req[w], stamp[page[w]])
      BY <2>3 DEF SectionsOK, ReadMeta
    <3>2. snap'[w].stamp = stamp[page[w]]
      BY <2>3, <1>a DEF ReadMeta, TypeOK, Procs
    <3> QED BY <2>1, <3>1, <3>2, <1>d, <1>e
  <2> QED BY <1>2, <1>a, <2>2, <2>3, IntoAfterMeta
<1>3. ASSUME NEW r \in Requests, status'[r] = "accepted"
      PROVE  \E p \in Pages : HasSection(p, r, index[p].stamp)'
  <2>1. CASE status[r] = "accepted"
    <3>1. PICK p \in Pages : HasSection(p, r, index[p].stamp)
      BY <2>1 DEF SectionsOK
    <3> QED BY <3>1, <1>d, <1>e, NothingLost
  <2>2. ASSUME NEW w \in Reviewers, CommitAccept(w), r = req[w]
        PROVE  \E p \in Pages : HasSection(p, r, index[p].stamp)'
    <3>1. page[w] \in Pages /\ pc[w] = "commit"
      BY <2>2, <1>a DEF CommitAccept, LocalsOK, Procs
    <3>2. HasSection(page[w], r, snap[w].stamp)
      BY <2>2, <3>1 DEF SectionsOK
    <3>3. index'[page[w]].stamp = snap[w].stamp
      BY <2>2, <3>1, <1>a DEF CommitAccept, TypeOK
    <3>4. ASSUME NEW p \in Pages, p = page[w]
          PROVE  HasSection(p, r, index[p].stamp)'
      BY <3>2, <3>3, <3>4, <1>d, <1>e, <1>f DEF Procs
    <3> QED BY <3>1, <3>4
  <2> QED BY <1>3, <1>a, <2>1, <2>2, IntoAccepted
<1> QED BY <1>1, <1>2, <1>3 DEF SectionsOK, AfterMeta

LEMMA IndexHolds == ASSUME StampsCountEdits PROVE Spec => []IndexInv
<1>1. IndexInv /\ [Next]_vars => IndexInv'
  BY LockStep, SnapsStep, SectionsStep DEF IndexInv
<1> QED BY <1>1, IndexInit, PTL DEF Spec

LEMMA IndexInvSuffices == IndexInv => AcceptedIndexed
<1> SUFFICES ASSUME IndexInv, NEW r \in Requests, status[r] = "accepted"
             PROVE  r \in Searchable
  BY DEF AcceptedIndexed
<1>1. PICK p \in Pages : HasSection(p, r, index[p].stamp)
  BY DEF IndexInv, SectionsOK
<1>2. PICK b \in section[p][r] : b <= index[p].stamp
  BY <1>1 DEF HasSection
<1>3. b \in Nat /\ index[p].stamp \in Nat /\ index[p].version \in Nat
      /\ index[p].stamp <= index[p].version
  BY DEF IndexInv, LockInv, TypeInv, TypeOK, SnapsOK, Snapshots
<1> QED BY <1>2, <1>3 DEF Searchable, HasSection

\* What has been accepted is, and stays, in the index of a page, as long as it
\* is not rejected and last_edited_time moves with every edit.
THEOREM AcceptedStaysIndexed ==
  ASSUME StampsCountEdits PROVE Spec => []AcceptedIndexed
  BY IndexInvSuffices, IndexHolds, PTL

-----------------------------------------------------------------------------
(* Refinement. *)

\* Every step of the pipeline is a step of the abstract review lifecycle, or
\* changes nothing that the lifecycle speaks of.
THEOREM PipelineImplementsLifecycle ==
  ASSUME StampsCountEdits PROVE Spec => LifecycleSpec
<1>1. Init => Lifecycle!Init
  BY DEF Init, Lifecycle!Init, Searchable, HasSection
<1>2. ASSUME IndexInv, AcceptedIndexed', [Next]_vars
      PROVE  Lifecycle!Next \/ UNCHANGED Lifecycle!vars
  <2>a. TypeOK /\ LocalsOK /\ LocksOK /\ LockedRequestIsPending
    BY <1>2 DEF IndexInv, LockInv, TypeInv
  <2>b. None \notin Procs
    BY ConstantsAssumption DEF ConstantsAssumption, Procs
  <2>c. AcceptedIndexed'
    BY <1>2
  <2>d. Searchable' \in SUBSET Requests
    BY DEF Searchable
  <2>1. CASE UNCHANGED <<status, target>>
    <3>1. Lifecycle!Reindex
      BY <2>1, <2>c, <2>d DEF Lifecycle!Reindex, Lifecycle!Accepted, AcceptedIndexed
    <3> QED BY <3>1 DEF Lifecycle!Next
  <2>2. ASSUME NEW w \in Procs, CommitAccept(w) PROVE Lifecycle!Next
    <3>1. w \in Reviewers /\ req[w] \in Requests /\ status[req[w]] = "pending"
      BY <2>2, <2>a, <2>b DEF CommitAccept, LocalsOK, LocksOK, RowSteps,
         LockedRequestIsPending, Procs
    <3>2. status' = [status EXCEPT ![req[w]] = "accepted"] /\ UNCHANGED target
      BY <2>2 DEF CommitAccept
    <3>3. Lifecycle!Accepted \cup {req[w]} \subseteq Searchable'
      BY <2>a, <2>c, <3>1, <3>2 DEF Lifecycle!Accepted, AcceptedIndexed, TypeOK
    <3>4. Lifecycle!Accept(req[w])
      BY <3>1, <3>2, <3>3, <2>d DEF Lifecycle!Accept
    <3> QED BY <3>1, <3>4 DEF Lifecycle!Next
  <2>3. ASSUME NEW w \in Procs, WriteReject(w)
        PROVE  Lifecycle!Next \/ UNCHANGED <<status, target>>
    <3>1. w \in Reviewers /\ req[w] \in Requests
      BY <2>3, <2>a DEF WriteReject, LocalsOK, TypeOK, IndexerSteps, PrepareSteps, Procs
    <3>2. status' = [status EXCEPT ![req[w]] = "rejected"] /\ UNCHANGED target
      BY <2>3 DEF WriteReject
    <3>3. Searchable' = Searchable
      BY <2>3 DEF WriteReject, notionVars, Searchable, HasSection
    <3>4. CASE status[req[w]] = "rejected"
      BY <2>a, <3>1, <3>2, <3>4 DEF TypeOK
    <3>5. CASE status[req[w]] \in {"pending", "accepted"}
      <4>1. Lifecycle!Reject(req[w])
        BY <3>2, <3>3, <3>5 DEF Lifecycle!Reject
      <4> QED BY <3>1, <4>1 DEF Lifecycle!Next
    <3> QED BY <2>a, <3>1, <3>4, <3>5 DEF TypeOK
  <2>4. ASSUME NEW w \in Procs, CommitTarget(w) PROVE Lifecycle!Next
    <3>1. w \in Reviewers
      BY <2>4, <2>a DEF CommitTarget, TypeOK, IndexerSteps, PrepareSteps, Procs
    <3>2. /\ req[w] \in Requests /\ status[req[w]] = "pending"
          /\ page[w] \in Pages
      BY <2>4, <2>a, <2>b, <3>1 DEF CommitTarget, LocalsOK, LocksOK, RowSteps,
         LockedRequestIsPending, Procs
    <3>3. target' = [target EXCEPT ![req[w]] = page[w]] /\ UNCHANGED status
      BY <2>4 DEF CommitTarget
    <3>4. Searchable' = Searchable
      BY <2>4 DEF CommitTarget, notionVars, Searchable, HasSection
    <3>5. Lifecycle!Retarget(req[w])
      BY <3>2, <3>3, <3>4 DEF Lifecycle!Retarget
    <3> QED BY <3>2, <3>5 DEF Lifecycle!Next
  <2>5. ASSUME NEW w \in Procs, Step(w),
               ~CommitAccept(w), ~WriteReject(w), ~CommitTarget(w)
        PROVE  UNCHANGED <<status, target>>
    BY <2>5, OtherStepsDecideNothing
  <2>6. ASSUME NEW w \in Procs, Call(w) PROVE UNCHANGED <<status, target>>
    BY <2>6, CallsDecideNothing
  <2>7. ASSUME NEW p \in Pages, UserEdit(p) PROVE UNCHANGED <<status, target>>
    BY <2>7 DEF UserEdit, requestVars
  <2>8. CASE UNCHANGED vars
    BY <2>8, <2>1 DEF vars, requestVars
  <2> QED BY <1>2, <2>1, <2>2, <2>3, <2>4, <2>5, <2>6, <2>7, <2>8 DEF Next
<1>3. Spec => []IndexInv /\ []AcceptedIndexed
  BY IndexHolds, AcceptedStaysIndexed
<1> QED BY <1>1, <1>2, <1>3, PTL DEF Spec, LifecycleSpec, Lifecycle!Spec

-----------------------------------------------------------------------------
(* Appends. *)

WriteSteps == {"containers", "section"}

\* No two accepts of a request are between their look at a page and their append.
OneAppender ==
    \A v, w \in Reviewers :
        /\ pc[v] \in WriteSteps /\ pc[w] \in WriteSteps
        /\ req[v] = req[w] /\ page[v] = page[w]
        => v = w

AppendInv ==
    /\ TypeInv
    /\ \A p \in Pages, r \in Requests : \A b, c \in section[p][r] : b <= version[p] /\ b = c
    /\ \A w \in Reviewers : pc[w] \in WriteSteps => section[page[w]][req[w]] = {}

LEMMA AppendInit == Init => AppendInv
<1>1. Init => TypeInv
  BY TypeInit
<1> QED BY <1>1 DEF Init, AppendInv, WriteSteps, Procs

\* A step that appends nothing, and at most starts a write where there is nothing.
LEMMA NothingAppended ==
  ASSUME AppendInv, TypeInv', UNCHANGED section,
         \A p \in Pages : version[p] <= version'[p],
         \A w \in Reviewers : pc'[w] \in WriteSteps =>
            /\ page'[w] = page[w] /\ req'[w] = req[w]
            /\ pc[w] \in WriteSteps \/ section[page[w]][req[w]] = {}
  PROVE  AppendInv'
<1>1. version \in [Pages -> Nat] /\ version' \in [Pages -> Nat]
      /\ section \in [Pages -> [Requests -> SUBSET Nat]]
  BY DEF AppendInv, TypeInv, TypeOK
<1>2. ASSUME NEW p \in Pages, NEW r \in Requests, NEW b \in section[p][r]
      PROVE  b <= version'[p]
  <2>1. b \in Nat /\ b <= version[p] /\ version[p] <= version'[p]
    BY <1>1 DEF AppendInv
  <2>2. version[p] \in Nat /\ version'[p] \in Nat
    BY <1>1
  <2> QED BY <2>1, <2>2
<1> QED BY <1>2 DEF AppendInv

LEMMA EditGrows ==
  ASSUME NEW p \in Pages, version \in [Pages -> Nat], Edit(p)
  PROVE  /\ version'[p] = version[p] + 1 /\ \A q \in Pages : version[q] <= version'[q]
BY DEF Edit

LEMMA AppendStep ==
  ASSUME AppendInv, OneAppender, [Next]_vars PROVE AppendInv'
<1>1. TypeInv /\ TypeInv'
  BY TypeStep DEF AppendInv
<1>2. /\ version \in [Pages -> Nat] /\ pc \in [Procs -> ReviewerSteps]
      /\ page \in [Procs -> Pages \cup {None}] /\ req \in [Procs -> Requests \cup {None}]
      /\ section \in [Pages -> [Requests -> SUBSET Nat]]
      /\ \A i \in Indexers : pc[i] \in IndexerSteps
  BY <1>1 DEF TypeInv, TypeOK
<1>3. \A w \in Procs : pc[w] \in {"find", "containers", "section"} =>
        w \in Reviewers /\ page[w] \in Pages /\ req[w] \in Requests
  BY <1>1, <1>2 DEF TypeInv, LocalsOK, Procs, IndexerSteps, PrepareSteps
<1>4. \A p \in Pages : version[p] <= version[p]
  BY <1>2
<1> USE DEF WriteSteps, Procs, requestVars, lockVars, notionVars, procVars, vars, Goto, Return,
            EndTransaction
<1>5. ASSUME NEW p \in Pages, UserEdit(p) PROVE AppendInv'
  <2>1. \A q \in Pages : version[q] <= version'[q]
    BY <1>2, <1>5, EditGrows DEF UserEdit
  <2> QED BY <1>1, <1>5, <2>1, NothingAppended DEF UserEdit
<1>6. ASSUME NEW w \in Procs, Call(w) PROVE AppendInv'
  <2>1. UNCHANGED <<section, version>>
    BY <1>6 DEF Call, StartAccept, StartReject, EditLater, LockTarget, StartIndex
  <2>2. \A x \in Reviewers : pc'[x] \in WriteSteps =>
           pc[x] \in WriteSteps /\ page'[x] = page[x] /\ req'[x] = req[x]
    BY <1>2, <1>6 DEF Call, StartAccept, StartReject, EditLater, LockTarget, StartIndex
  <2> QED BY <1>1, <1>4, <2>1, <2>2, NothingAppended
<1>7. ASSUME NEW w \in Procs, FindIdentity(w) PROVE AppendInv'
  <2>1. w \in Reviewers /\ page[w] \in Pages /\ req[w] \in Requests
    BY <1>3, <1>7 DEF FindIdentity
  <2>2. pc'[w] \in WriteSteps => section[page[w]][req[w]] = {}
    <3> SUFFICES ASSUME pc'[w] \in WriteSteps PROVE section[page[w]][req[w]] = {}
      OBVIOUS
    <3>1. ~ HasSection(page[w], req[w], version[page[w]])
      BY <1>2, <1>7 DEF FindIdentity
    <3> QED BY <2>1, <3>1 DEF HasSection, AppendInv
  <2>3. \A x \in Reviewers : x # w => pc'[x] = pc[x]
    BY <1>2, <1>7 DEF FindIdentity
  <2>4. UNCHANGED <<section, version, page, req>>
    BY <1>7 DEF FindIdentity
  <2> QED BY <1>1, <1>4, <2>2, <2>3, <2>4, NothingAppended
<1>8. ASSUME NEW w \in Procs, CreateContainers(w) PROVE AppendInv'
  <2>1. page[w] \in Pages
    BY <1>3, <1>8 DEF CreateContainers
  <2>2. \A q \in Pages : version[q] <= version'[q]
    BY <1>2, <1>8, <2>1, EditGrows DEF CreateContainers
  <2>3. \A x \in Reviewers : pc'[x] \in WriteSteps => pc[x] \in WriteSteps
    BY <1>2, <1>8 DEF CreateContainers
  <2>4. UNCHANGED <<section, page, req>>
    BY <1>8 DEF CreateContainers
  <2> QED BY <1>1, <2>2, <2>3, <2>4, NothingAppended
<1>9. ASSUME NEW w \in Procs, AppendSection(w) PROVE AppendInv'
  <2> DEFINE p == page[w]
             r == req[w]
             b == version[p] + 1
  <2>1. w \in Reviewers /\ p \in Pages /\ r \in Requests /\ pc[w] = "section"
    BY <1>3, <1>9 DEF AppendSection
  <2>2. section[p][r] = {}
    BY <2>1 DEF AppendInv
  <2>3. b \in Nat /\ version'[p] = b /\ \A q \in Pages : version[q] <= version'[q]
    BY <1>2, <1>9, <2>1, EditGrows DEF AppendSection
  <2>4. /\ section'[p][r] = {b}
        /\ \A q \in Pages, s \in Requests : q # p \/ s # r => section'[q][s] = section[q][s]
    BY <1>2, <1>9, <2>1, <2>2 DEF AppendSection
  <2>5. pc' = [pc EXCEPT ![w] = "verify"] /\ UNCHANGED <<page, req>>
    BY <1>9 DEF AppendSection
  <2>6. ASSUME NEW q \in Pages, NEW s \in Requests, NEW c \in section'[q][s], NEW d \in section'[q][s]
        PROVE  c <= version'[q] /\ c = d
    <3>1. CASE q = p /\ s = r
      BY <2>3, <2>4, <3>1
    <3>2. CASE q # p \/ s # r
      <4>1. c \in section[q][s] /\ d \in section[q][s]
        BY <2>4, <3>2
      <4>2. c <= version[q] /\ c = d /\ c \in Nat
        BY <1>2, <4>1 DEF AppendInv
      <4>3. version[q] \in Nat /\ version'[q] \in Nat /\ version[q] <= version'[q]
        BY <1>1, <1>2, <2>3 DEF TypeInv, TypeOK
      <4> QED BY <4>2, <4>3
    <3> QED BY <3>1, <3>2
  <2>7. ASSUME NEW x \in Reviewers, pc'[x] \in WriteSteps PROVE section'[page'[x]][req'[x]] = {}
    <3>1. x # w /\ pc[x] \in WriteSteps /\ page'[x] = page[x] /\ req'[x] = req[x]
      BY <1>2, <2>1, <2>5, <2>7
    <3>2. page[x] # p \/ req[x] # r
      BY <2>1, <3>1 DEF OneAppender
    <3>3. page[x] \in Pages /\ req[x] \in Requests /\ section[page[x]][req[x]] = {}
      BY <1>3, <3>1 DEF AppendInv
    <3> QED BY <2>4, <3>1, <3>2, <3>3
  <2> QED BY <1>1, <2>6, <2>7 DEF AppendInv
<1>10. ASSUME NEW w \in Procs,
              \/ VerifyAppend(w) \/ ReadMeta(w) \/ ReadBlocks(w) \/ LockRequest(w)
              \/ RefuseAccept(w) \/ LockPage(w) \/ RefuseStale(w) \/ CommitIndex(w)
              \/ CommitAccept(w) \/ WriteReject(w) \/ CommitTarget(w) \/ Abort(w)
       PROVE  AppendInv'
  <2>1. UNCHANGED <<section, version>>
    BY <1>10 DEF VerifyAppend, ReadMeta, ReadBlocks, LockRequest, RefuseAccept, LockPage,
                 RefuseStale, CommitIndex, CommitAccept, WriteReject, CommitTarget, Abort
  <2>2. \A x \in Reviewers : pc'[x] \in WriteSteps =>
           pc[x] \in WriteSteps /\ page'[x] = page[x] /\ req'[x] = req[x]
    BY <1>2, <1>10 DEF VerifyAppend, ReadMeta, ReadBlocks, LockRequest, RefuseAccept, LockPage,
                 RefuseStale, CommitIndex, CommitAccept, WriteReject, CommitTarget, Abort
  <2> QED BY <1>1, <1>4, <2>1, <2>2, NothingAppended
<1>11. CASE UNCHANGED vars
  BY <1>1, <1>4, <1>11, NothingAppended
<1> QED BY <1>5, <1>6, <1>7, <1>8, <1>9, <1>10, <1>11 DEF Next, Step, Advance

LEMMA AppendedOnce == AppendInv => RetryAppendsOnce
<1> SUFFICES ASSUME AppendInv, NEW p \in Pages, NEW r \in Requests
             PROVE  Cardinality(section[p][r]) <= 1
  BY DEF RetryAppendsOnce
<1>1. CASE section[p][r] = {}
  <2>1. Cardinality({}) = 0
    BY FS_EmptySet
  <2> QED BY <1>1, <2>1
<1>2. CASE section[p][r] # {}
  <2>1. PICK b : section[p][r] = {b}
    BY <1>2 DEF AppendInv
  <2>2. Cardinality({b}) = 1
    BY FS_Singleton
  <2> QED BY <2>1, <2>2
<1> QED BY <1>1, <1>2

\* However often accepts break off and are repeated, the section of a request is on
\* a page twice only when two accepts of it were, at once, between their look for its
\* identity and their append (append_to_ai_supplement_zone).
THEOREM OnlyOverlapAppendsTwice == Spec /\ []OneAppender => []RetryAppendsOnce
BY AppendInit, AppendStep, AppendedOnce, PTL DEF Spec

\* Hence one reviewer, whatever aborts, times out or is edited meanwhile, never
\* appends a section twice.
THEOREM OneReviewerAppendsOnce ==
  ASSUME \A v, w \in Reviewers : v = w
  PROVE  Spec => []RetryAppendsOnce
<1>1. OneAppender
  BY DEF OneAppender
<1>2. []OneAppender
  BY <1>1, PTL
<1> QED BY <1>2, OnlyOverlapAppendsTwice, PTL

-----------------------------------------------------------------------------
(* The blocks of a page, as NotionZone has them. *)

CONSTANTS
    Zone, Identity(_), NotFound,
    Kinds,       \* what a block may be
    Texts        \* what a block may say

Z == INSTANCE NotionZone

Blocks == [parent : Nat, kind : Kinds, text : Texts]

\* A block was created below one that was there.
Formed == {p \in Seq(Blocks) : \A b \in 1 .. Len(p) : p[b].parent < b}

LEMMA LeastNumber ==
  ASSUME NEW S \in SUBSET Nat, S # {}
  PROVE  \E n \in S : \A m \in S : n <= m
<1> DEFINE R == OpToRel(<, Nat)
<1>1. IsWellFoundedOn(R, Nat)
  BY NatLessThanWellFounded
<1>2. \A m, n \in Nat : m < n => <<m, n>> \in R
  BY DEF OpToRel
<1> HIDE DEF R
<1>3. PICK n \in S : \A m \in S : ~ (<<m, n>> \in R)
  BY <1>1, WFMin
<1>4. ASSUME NEW m \in S PROVE n <= m
  <2>1. m \in Nat /\ n \in Nat
    OBVIOUS
  <2>2. ~ (m < n)
    BY <1>2, <1>3, <2>1
  <2> QED BY <2>1, <2>2
<1> QED BY <1>4

LEMMA SetInduction ==
  ASSUME NEW S \in SUBSET Nat, 0 \in S, \A n \in S : n + 1 \in S
  PROVE  S = Nat
<1> SUFFICES ASSUME Nat \ S # {} PROVE FALSE
  OBVIOUS
<1>1. PICK n \in Nat \ S : \A m \in Nat \ S : n <= m
  BY LeastNumber
<1>2. n - 1 \in Nat /\ n - 1 \notin Nat \ S
  BY <1>1
<1> QED BY <1>1, <1>2

LEMMA FormedType ==
  ASSUME NEW p \in Formed
  PROVE  /\ p \in Seq(Blocks) /\ Len(p) \in Nat /\ DOMAIN p = 1 .. Len(p)
         /\ \A b \in 1 .. Len(p) : p[b] \in Blocks /\ p[b].parent \in 0 .. b - 1
<1>1. p \in Seq(Blocks) /\ \A b \in 1 .. Len(p) : p[b].parent < b
  BY DEF Formed
<1>2. \A b \in 1 .. Len(p) : p[b] \in Blocks
  BY <1>1
<1>3. \A x \in Blocks : x.parent \in Nat
  BY DEF Blocks
<1>4. \A b \in 1 .. Len(p) : p[b].parent \in 0 .. b - 1
  <2> SUFFICES ASSUME NEW b \in 1 .. Len(p) PROVE p[b].parent \in 0 .. b - 1
    OBVIOUS
  <2>1. p[b].parent \in Nat /\ p[b].parent < b /\ b \in Nat
    BY <1>1, <1>2, <1>3
  <2> QED BY <2>1
<1> QED BY <1>1, <1>2, <1>4

\* The way to a block is the way to its parent, and the block.
LeadsDown(p, way) == 
    /\ way[0] = <<>> 
    /\ \A c \in 1 .. Len(p) : way[c] = Append(way[p[c].parent], c)

LEMMA WayExists ==
  ASSUME NEW p \in Formed
  PROVE  \E way \in [0 .. Len(p) -> Seq(Nat)] : LeadsDown(p, way)
<1> DEFINE Down(way, m) == /\ way[0] = <<>>
                           /\ \A c \in 1 .. m : way[c] = Append(way[p[c].parent], c)
           S == {m \in Nat : m <= Len(p) => \E way \in [0 .. m -> Seq(Nat)] : Down(way, m)}
<1>1. 0 \in S
  <2>1. Down([c \in 0 .. 0 |-> <<>>], 0) /\ [c \in 0 .. 0 |-> <<>>] \in [0 .. 0 -> Seq(Nat)]
    OBVIOUS
  <2> HIDE DEF Down
  <2> QED BY <2>1
<1>2. ASSUME NEW m \in Nat, m + 1 <= Len(p), NEW h \in [0 .. m -> Seq(Nat)], Down(h, m)
      PROVE  \E way \in [0 .. m + 1 -> Seq(Nat)] : Down(way, m + 1)
  <2> DEFINE g == [c \in 0 .. m + 1 |-> IF c = m + 1 THEN Append(h[p[m + 1].parent], m + 1) ELSE h[c]]
  <2>1. \A c \in 1 .. m + 1 : p[c].parent \in 0 .. c - 1
    BY <1>2, FormedType
  <2>2. p[m + 1].parent \in 0 .. m /\ h[p[m + 1].parent] \in Seq(Nat)
    BY <2>1
  <2>3. Append(h[p[m + 1].parent], m + 1) \in Seq(Nat)
    BY <2>2
  <2>4. g \in [0 .. m + 1 -> Seq(Nat)]
    BY <2>3
  <2>5. /\ g[m + 1] = Append(h[p[m + 1].parent], m + 1)
        /\ \A c \in 0 .. m : g[c] = h[c]
    <3>1. m + 1 \in 0 .. m + 1 /\ \A c \in 0 .. m : c \in 0 .. m + 1 /\ c # m + 1
      OBVIOUS
    <3> QED BY <3>1
  <2>6. h[0] = <<>> /\ \A c \in 1 .. m : h[c] = Append(h[p[c].parent], c)
    BY <1>2
  <2> HIDE DEF g, Down
  <2>7. ASSUME NEW c \in 1 .. m + 1 PROVE g[c] = Append(g[p[c].parent], c)
    <3>1. p[c].parent \in 0 .. m /\ g[p[c].parent] = h[p[c].parent]
      BY <2>1, <2>5
    <3>2. CASE c = m + 1
      BY <2>5, <3>1, <3>2
    <3>3. CASE c \in 1 .. m
      <4>1. g[c] = h[c]
        BY <2>5, <3>3
      <4> QED BY <2>6, <3>1, <3>3, <4>1
    <3> QED BY <3>2, <3>3
  <2>8. Down(g, m + 1)
    <3>1. g[0] = <<>>
      BY <2>5, <2>6
    <3> QED BY <2>7, <3>1 DEF Down
  <2> QED BY <2>4, <2>8
<1>3. \A m \in S : m + 1 \in S
  <2> HIDE DEF Down
  <2> SUFFICES ASSUME NEW m \in S PROVE m + 1 \in S
    OBVIOUS
  <2> SUFFICES ASSUME m + 1 <= Len(p)
               PROVE  \E way \in [0 .. m + 1 -> Seq(Nat)] : Down(way, m + 1)
    OBVIOUS
  <2>1. m \in Nat /\ m <= Len(p)
    BY FormedType
  <2>2. PICK h \in [0 .. m -> Seq(Nat)] : Down(h, m)
    BY <2>1
  <2> QED BY <1>2, <2>1, <2>2
<1>4. Len(p) \in S
  <2>1. S \in SUBSET Nat
    OBVIOUS
  <2> HIDE DEF S
  <2> QED BY <1>1, <1>3, <2>1, SetInduction, FormedType
<1> HIDE DEF Down
<1>5. PICK way \in [0 .. Len(p) -> Seq(Nat)] : Down(way, Len(p))
  BY <1>4, FormedType
<1> QED BY <1>5 DEF LeadsDown, Down

LEMMA WayIs ==
  ASSUME NEW p \in Formed
  PROVE  /\ Z!Way(p, 0) = <<>>
         /\ \A b \in 0 .. Len(p) : Z!Way(p, b) \in Seq(Nat)
         /\ \A b \in 1 .. Len(p) : Z!Way(p, b) = Append(Z!Way(p, p[b].parent), b)
<1> DEFINE D == {0} \cup DOMAIN p
           Good(w) == w = [c \in D |-> IF c = 0 THEN <<>> ELSE Append(w[p[c].parent], c)]
           f == CHOOSE w : Good(w)
<1>1. D = 0 .. Len(p) /\ \A b \in 1 .. Len(p) : p[b].parent \in 0 .. Len(p)
  BY FormedType
<1>2. \A b : Z!Way(p, b) = f[b]
  BY DEF Z!Way, Z!ThePage
<1>3. PICK h \in [0 .. Len(p) -> Seq(Nat)] : LeadsDown(p, h)
  BY WayExists
<1>4. Good(h)
  <2>1. h[0] = <<>> /\ \A c \in 1 .. Len(p) : h[c] = Append(h[p[c].parent], c)
    BY <1>3 DEF LeadsDown
  <2>2. \A c \in 0 .. Len(p) : c = 0 \/ c \in 1 .. Len(p)
    BY FormedType
  <2>3. \A c \in D : h[c] = IF c = 0 THEN <<>> ELSE Append(h[p[c].parent], c)
    <3> HIDE DEF D
    <3> QED BY <1>1, <2>1, <2>2
  <2> QED BY <1>1, <1>3, <2>3
<1>5. Good(f)
  <2> HIDE DEF Good
  <2> QED BY <1>4
<1> HIDE DEF f
<1>6. f[0] = <<>> /\ \A c \in 1 .. Len(p) : f[c] = Append(f[p[c].parent], c)
  <2>1. \A c \in 1 .. Len(p) : c \in D /\ c # 0
    BY <1>1, FormedType
  <2>2. \A c \in D : f[c] = IF c = 0 THEN <<>> ELSE Append(f[p[c].parent], c)
    <3> HIDE DEF D
    <3> QED BY <1>5
  <2> QED BY <2>1, <2>2
<1> DEFINE S == {m \in Nat : \A b \in 0 .. Len(p) : b <= m => f[b] \in Seq(Nat)}
<1>7. 0 \in S
  BY <1>6
<1>8. \A m \in S : m + 1 \in S
  <2> SUFFICES ASSUME NEW m \in S PROVE m + 1 \in S
    OBVIOUS
  <2> SUFFICES ASSUME NEW b \in 0 .. Len(p), b = m + 1 PROVE f[b] \in Seq(Nat)
    BY FormedType
  <2>0. \A c \in 0 .. Len(p) : c <= m => f[c] \in Seq(Nat)
    OBVIOUS
  <2> HIDE DEF S
  <2>1. b \in 1 .. Len(p) /\ b \in Nat /\ m \in Nat
    BY FormedType DEF S
  <2>2. p[b].parent \in 0 .. b - 1
    BY <2>1, FormedType
  <2>3. p[b].parent \in 0 .. Len(p) /\ p[b].parent <= m
    BY <2>1, <2>2, FormedType
  <2>4. f[p[b].parent] \in Seq(Nat)
    BY <2>0, <2>3
  <2>5. f[b] = Append(f[p[b].parent], b)
    BY <1>6, <2>1
  <2> QED BY <2>1, <2>4, <2>5
<1>9. S = Nat
  <2>1. S \in SUBSET Nat
    OBVIOUS
  <2> HIDE DEF S
  <2> QED BY <1>7, <1>8, <2>1, SetInduction
<1>10. \A b \in 0 .. Len(p) : f[b] \in Seq(Nat)
  <2>1. Len(p) \in S
    BY <1>9, FormedType
  <2> QED BY <2>1, FormedType
<1> QED BY <1>2, <1>6, <1>10
\* Paths are ordered as words in a dictionary are.
Before(v, w) ==
    \/ Z!IsPrefix(v, w)
    \/ \E i \in DOMAIN v \cap DOMAIN w : v[i] < w[i] /\ \A j \in 1 .. i - 1 : v[j] = w[j]

LEMMA PrefixIs ==
  ASSUME NEW v \in Seq(Nat), NEW w \in Seq(Nat)
  PROVE  Z!IsPrefix(v, w) <=> Len(v) <= Len(w) /\ \A i \in 1 .. Len(v) : v[i] = w[i]
<1>1. SubSeq(v, 1, Len(v)) = [i \in 1 .. Len(v) |-> v[i]]
  OBVIOUS
<1>2. ASSUME Len(v) <= Len(w) PROVE SubSeq(w, 1, Len(v)) = [i \in 1 .. Len(v) |-> w[i]]
  BY <1>2
<1>3. ASSUME Len(v) <= Len(w)
      PROVE  SubSeq(v, 1, Len(v)) = SubSeq(w, 1, Len(v)) <=> \A i \in 1 .. Len(v) : v[i] = w[i]
  BY <1>1, <1>2, <1>3
<1> QED BY <1>3 DEF Z!IsPrefix

LEMMA BeforeTotal ==
  ASSUME NEW v \in Seq(Nat), NEW w \in Seq(Nat) PROVE Before(v, w) \/ Before(w, v)
<1> DEFINE D == {i \in (1 .. Len(v)) \cap (1 .. Len(w)) : v[i] # w[i]}
<1>0. Len(v) \in Nat /\ Len(w) \in Nat /\ DOMAIN v = 1 .. Len(v) /\ DOMAIN w = 1 .. Len(w)
  OBVIOUS
<1>1. CASE D = {}
  <2>1. CASE Len(v) <= Len(w)
    <3>1. \A i \in 1 .. Len(v) : i \in 1 .. Len(w) /\ v[i] = w[i]
      BY <1>0, <1>1, <2>1
    <3> QED BY <2>1, <3>1, PrefixIs DEF Before
  <2>2. CASE Len(w) <= Len(v)
    <3>1. \A i \in 1 .. Len(w) : i \in 1 .. Len(v) /\ w[i] = v[i]
      BY <1>0, <1>1, <2>2
    <3> QED BY <2>2, <3>1, PrefixIs DEF Before
  <2> QED BY <1>0, <2>1, <2>2
<1>2. CASE D # {}
  <2>1. D \in SUBSET Nat
    BY <1>0
  <2>2. PICK i \in D : \A j \in D : i <= j
    <3> HIDE DEF D
    <3> QED BY <1>2, <2>1, LeastNumber
  <2>3. i \in 1 .. Len(v) /\ i \in 1 .. Len(w) /\ v[i] # w[i] /\ v[i] \in Nat /\ w[i] \in Nat /\ i \in Nat
    OBVIOUS
  <2>4. ASSUME NEW j \in 1 .. i - 1 PROVE v[j] = w[j]
    <3>1. j \in 1 .. Len(v) /\ j \in 1 .. Len(w) /\ ~ (i <= j)
      BY <1>0, <2>3
    <3>2. j \notin D
      <4> HIDE DEF D
      <4> QED BY <2>2, <3>1
    <3> QED BY <3>1, <3>2
  <2>5. v[i] < w[i] \/ w[i] < v[i]
    BY <2>3
  <2> HIDE DEF D
  <2> QED BY <1>0, <2>3, <2>4, <2>5 DEF Before
<1> QED BY <1>1, <1>2

LEMMA BeforeTransitive ==
  ASSUME NEW u \in Seq(Nat), NEW v \in Seq(Nat), NEW w \in Seq(Nat), Before(u, v), Before(v, w)
  PROVE  Before(u, w)
<1> DEFINE Less(x, y, i) == /\ i \in 1 .. Len(x) /\ i \in 1 .. Len(y)
                            /\ x[i] < y[i] /\ \A j \in 1 .. i - 1 : x[j] = y[j]
           Pre(x, y) == Len(x) <= Len(y) /\ \A i \in 1 .. Len(x) : x[i] = y[i]
<1>1. ASSUME NEW x \in Seq(Nat), NEW y \in Seq(Nat)
      PROVE  Before(x, y) <=> Pre(x, y) \/ \E i : Less(x, y, i)
  <2>1. DOMAIN x = 1 .. Len(x) /\ DOMAIN y = 1 .. Len(y)
    OBVIOUS
  <2>2. Z!IsPrefix(x, y) <=> Pre(x, y)
    BY PrefixIs
  <2> QED BY <2>1, <2>2 DEF Before
<1>2. /\ Len(u) \in Nat /\ Len(v) \in Nat /\ Len(w) \in Nat
      /\ \A i \in 1 .. Len(u) : u[i] \in Nat
      /\ \A i \in 1 .. Len(v) : v[i] \in Nat
      /\ \A i \in 1 .. Len(w) : w[i] \in Nat
  OBVIOUS
<1>3. ASSUME Pre(u, v), Pre(v, w) PROVE Pre(u, w)
  BY <1>2, <1>3
<1>4. ASSUME Pre(u, v), NEW i, Less(v, w, i) PROVE Pre(u, w) \/ Less(u, w, i)
  <2>1. CASE i \in 1 .. Len(u)
    <3>1. \A j \in 1 .. i - 1 : j \in 1 .. Len(u)
      BY <1>2, <2>1
    <3> QED BY <1>2, <1>4, <2>1, <3>1
  <2>2. CASE i \notin 1 .. Len(u)
    <3>1. i \in Nat /\ Len(u) < i /\ Len(u) <= Len(w)
      BY <1>2, <1>4, <2>2
    <3>2. \A j \in 1 .. Len(u) : j \in 1 .. i - 1
      BY <1>2, <3>1
    <3> QED BY <1>4, <3>1, <3>2
  <2> QED BY <2>1, <2>2
<1>5. ASSUME NEW i, Less(u, v, i), Pre(v, w) PROVE Less(u, w, i)
  <2>1. i \in 1 .. Len(w) /\ v[i] = w[i]
    BY <1>2, <1>5
  <2>2. \A j \in 1 .. i - 1 : j \in 1 .. Len(v)
    BY <1>2, <1>5
  <2> QED BY <1>5, <2>1, <2>2
<1>6. ASSUME NEW i, Less(u, v, i), NEW k, Less(v, w, k)
      PROVE  Less(u, w, i) \/ Less(u, w, k)
  <2>0. i \in Nat /\ k \in Nat /\ 1 <= i /\ 1 <= k
    BY <1>2, <1>6
  <2>1. CASE i < k
    <3>0. i \in 1 .. k - 1 /\ \A j \in 1 .. i - 1 : j \in 1 .. k - 1
      BY <2>0, <2>1
    <3>1. i \in 1 .. Len(w) /\ v[i] = w[i] /\ \A j \in 1 .. i - 1 : j \in 1 .. k - 1
      <4>1. i \in 1 .. Len(w)
        BY <1>2, <1>6, <2>0, <2>1
      <4> QED BY <1>6, <3>0, <4>1
    <3>2. u[i] < w[i]
      BY <1>6, <3>1
    <3>3. \A j \in 1 .. i - 1 : u[j] = w[j]
      BY <1>6, <3>1
    <3> QED BY <1>6, <3>1, <3>2, <3>3
  <2>2. CASE k < i
    <3>0. k \in 1 .. i - 1 /\ \A j \in 1 .. k - 1 : j \in 1 .. i - 1
      BY <2>0, <2>2
    <3>1. k \in 1 .. Len(u) /\ u[k] = v[k] /\ \A j \in 1 .. k - 1 : j \in 1 .. i - 1
      <4>1. k \in 1 .. Len(u)
        BY <1>2, <1>6, <2>0, <2>2
      <4> QED BY <1>6, <3>0, <4>1
    <3>2. u[k] < w[k]
      BY <1>6, <3>1
    <3>3. \A j \in 1 .. k - 1 : u[j] = w[j]
      BY <1>6, <3>1
    <3> QED BY <1>6, <3>1, <3>2, <3>3
  <2>3. CASE i = k
    <3>1. u[i] < w[i]
      BY <1>2, <1>6, <2>3
    <3>2. \A j \in 1 .. i - 1 : u[j] = w[j]
      BY <1>6, <2>3
    <3> QED BY <1>6, <2>3, <3>1, <3>2
  <2> QED BY <2>0, <2>1, <2>2, <2>3
<1> HIDE DEF Less, Pre
<1>7. Before(u, w) <=> Pre(u, w) \/ \E i : Less(u, w, i)
  BY <1>1
<1>8. Pre(u, v) \/ \E i : Less(u, v, i)
  BY <1>1
<1>9. Pre(v, w) \/ \E i : Less(v, w, i)
  BY <1>1
<1> QED BY <1>3, <1>4, <1>5, <1>6, <1>7, <1>8, <1>9

LEMMA PrecedesIs ==
  ASSUME NEW p, NEW a, NEW b
  PROVE  Z!Precedes(p, a, b) <=> Before(Z!Way(p, a), Z!Way(p, b))
BY DEF Z!Precedes, Before

\* Of some blocks of a page one is the first.
LEMMA FirstExists ==
  ASSUME NEW p \in Formed, NEW S \in SUBSET DOMAIN p, S # {}
  PROVE  Z!First(p, S) \in S /\ \A c \in S : Z!Precedes(p, Z!First(p, S), c)
<1> DEFINE Least(T, b) == b \in T /\ \A c \in T : Z!Precedes(p, b, c)
           M == {m \in Nat : LET T == {b \in S : b <= m} IN T # {} => \E b : Least(T, b)}
<1>0. Len(p) \in Nat /\ DOMAIN p = 1 .. Len(p) /\ \A b \in S : b \in 1 .. Len(p) /\ b \in Nat
  BY FormedType
<1>1. \A b, c \in S : Z!Precedes(p, b, c) \/ Z!Precedes(p, c, b)
  <2>1. \A b \in S : Z!Way(p, b) \in Seq(Nat)
    BY <1>0, WayIs
  <2> QED BY <2>1, BeforeTotal, PrecedesIs
<1>2. \A b, c, d \in S : Z!Precedes(p, b, c) /\ Z!Precedes(p, c, d) => Z!Precedes(p, b, d)
  <2>1. \A b \in S : Z!Way(p, b) \in Seq(Nat)
    BY <1>0, WayIs
  <2> QED BY <2>1, BeforeTransitive, PrecedesIs
<1>3. 0 \in M
  <2>1. {b \in S : b <= 0} = {}
    BY <1>0
  <2> QED BY <2>1
<1>4. ASSUME NEW m \in Nat, NEW T, T = {b \in S : b <= m}, T # {} => \E b : Least(T, b),
             NEW U, U = {b \in S : b <= m + 1}, U # {}
      PROVE  \E b : Least(U, b)
  <2>1. CASE m + 1 \notin S
    <3>1. \A b \in S : b <= m + 1 <=> b <= m
      BY <1>0, <2>1
    <3>2. U = T
      BY <1>4, <3>1
    <3> QED BY <1>4, <3>2
  <2>2. CASE m + 1 \in S /\ T = {}
    <3>1. \A b \in S : b <= m + 1 => b = m + 1
      BY <1>0, <1>4, <2>2
    <3>2. U = {m + 1}
      BY <1>4, <2>2, <3>1
    <3>3. Least(U, m + 1)
      BY <1>1, <2>2, <3>2
    <3> QED BY <3>3
  <2>3. CASE m + 1 \in S /\ T # {}
    <3>1. PICK b : Least(T, b)
      BY <1>4, <2>3
    <3>2. U = T \cup {m + 1} /\ T \subseteq S /\ b \in S
      <4>1. \A c \in S : c <= m + 1 <=> c <= m \/ c = m + 1
        BY <1>0
      <4> QED BY <1>4, <2>3, <3>1, <4>1
    <3>3. CASE Z!Precedes(p, b, m + 1)
      <4>1. Least(U, b)
        BY <3>1, <3>2, <3>3
      <4> QED BY <4>1
    <3>4. CASE Z!Precedes(p, m + 1, b)
      <4>1. Z!Precedes(p, m + 1, m + 1)
        BY <1>1, <2>3
      <4>2. \A c \in T : Z!Precedes(p, m + 1, c)
        BY <1>2, <2>3, <3>1, <3>2, <3>4
      <4>3. Least(U, m + 1)
        BY <3>2, <4>1, <4>2
      <4> QED BY <4>3
    <3> QED BY <1>1, <2>3, <3>2, <3>3, <3>4
  <2> QED BY <2>1, <2>2, <2>3
<1> HIDE DEF Least
<1>5. \A m \in M : m + 1 \in M
  <2> SUFFICES ASSUME NEW m \in M PROVE m + 1 \in M
    OBVIOUS
  <2> SUFFICES ASSUME {c \in S : c <= m + 1} # {}
               PROVE  \E b : Least({c \in S : c <= m + 1}, b)
    OBVIOUS
  <2>1. m \in Nat /\ ({c \in S : c <= m} # {} => \E b : Least({c \in S : c <= m}, b))
    OBVIOUS
  <2> HIDE DEF M
  <2> QED BY <1>4, <2>1
<1>6. Len(p) \in M
  <2>1. M \in SUBSET Nat
    OBVIOUS
  <2> HIDE DEF M
  <2> QED BY <1>0, <1>3, <1>5, <2>1, SetInduction
<1>7. {b \in S : b <= Len(p)} = S
  BY <1>0
<1>8. \E b : Least(S, b)
  BY <1>6, <1>7
<1>9. Z!First(p, S) = CHOOSE b \in S : \A c \in S : Z!Precedes(p, b, c)
  BY DEF Z!First
<1> QED BY <1>8, <1>9 DEF Least

LEMMA SiblingsPrecede ==
  ASSUME NEW p \in Formed, NEW a \in DOMAIN p, NEW b \in DOMAIN p,
         p[a].parent = p[b].parent, Z!Precedes(p, a, b)
  PROVE  a <= b
<1> DEFINE W == Z!Way(p, p[a].parent)
<1>1. a \in 1 .. Len(p) /\ b \in 1 .. Len(p) /\ a \in Nat /\ b \in Nat /\ p[a].parent \in 0 .. Len(p)
  BY FormedType
<1>2. W \in Seq(Nat) /\ Z!Way(p, a) = Append(W, a) /\ Z!Way(p, b) = Append(W, b)
  BY <1>1, WayIs
<1> HIDE DEF W
<1> DEFINE v == Append(W, a)
           w == Append(W, b)
<1>3. /\ Len(W) \in Nat /\ Len(v) = Len(W) + 1 /\ Len(w) = Len(W) + 1
      /\ v \in Seq(Nat) /\ w \in Seq(Nat)
      /\ DOMAIN v = 1 .. Len(W) + 1 /\ DOMAIN w = 1 .. Len(W) + 1
      /\ v[Len(W) + 1] = a /\ w[Len(W) + 1] = b
  BY <1>1, <1>2
<1>4. \A i \in 1 .. Len(W) : v[i] = W[i] /\ w[i] = W[i] /\ W[i] \in Nat
  BY <1>1, <1>2
<1>5. Before(v, w)
  BY <1>2, PrecedesIs
<1> HIDE DEF v, w
<1>6. CASE Z!IsPrefix(v, w)
  <2>1. Len(W) + 1 \in 1 .. Len(v)
    BY <1>3
  <2>2. v[Len(W) + 1] = w[Len(W) + 1]
    BY <1>3, <1>6, <2>1, PrefixIs
  <2> QED BY <1>1, <1>3, <2>2
<1>7. ASSUME NEW i \in DOMAIN v \cap DOMAIN w, v[i] < w[i] PROVE a <= b
  <2>1. CASE i = Len(W) + 1
    BY <1>1, <1>3, <1>7, <2>1
  <2>2. CASE i \in 1 .. Len(W)
    BY <1>4, <1>7, <2>2
  <2> QED BY <1>3, <2>1, <2>2
<1> QED BY <1>5, <1>6, <1>7 DEF Before

-----------------------------------------------------------------------------
(* Containers. *)

ZoneAssumption ==
    /\ NotFound \notin Nat
    /\ {"toggle", "paragraph"} \subseteq Kinds
    /\ Zone \in Texts /\ \A r \in Requests : Identity(r) \in Texts

\* The toggle with that title right below parent that was made first.
Held(p, parent, title, b) ==
    /\ b \in DOMAIN p /\ p[b] = Z!Block(parent, "toggle", title)
    /\ \A c \in DOMAIN p : p[c] = Z!Block(parent, "toggle", title) => b <= c

LEMMA ContainerIs ==
  ASSUME NEW p \in Formed, NEW parent, NEW title
  PROVE  LET b == Z!DirectContainer(p, parent, title) IN
         \/ /\ b = NotFound
            /\ \A c \in DOMAIN p : p[c] # Z!Block(parent, "toggle", title)
         \/ Held(p, parent, title, b)
<1> DEFINE S == {b \in DOMAIN p : p[b] = Z!Block(parent, "toggle", title)}
           b == Z!First(p, S)
<1>1. Z!DirectContainer(p, parent, title) = b
  BY DEF Z!DirectContainer
<1>2. CASE S = {}
  BY <1>1, <1>2 DEF Z!First
<1>3. CASE S # {}
  <2>1. b \in S /\ \A c \in S : Z!Precedes(p, b, c)
    <3>1. S \in SUBSET DOMAIN p
      OBVIOUS
    <3> HIDE DEF S
    <3> QED BY <1>3, <3>1, FirstExists
  <2>2. \A c \in S : c \in DOMAIN p /\ p[c].parent = parent
    BY DEF Z!Block
  <2>3. \A c \in S : b <= c
    BY <2>1, <2>2, SiblingsPrecede
  <2> QED BY <1>1, <2>1, <2>3 DEF Held
<1> QED BY <1>2, <1>3

LEMMA HeldIsFound ==
  ASSUME NEW p \in Formed, NEW parent, NEW title, NEW b, Held(p, parent, title, b)
  PROVE  Z!DirectContainer(p, parent, title) = b
<1> DEFINE d == Z!DirectContainer(p, parent, title)
<1>1. Held(p, parent, title, d)
  BY ContainerIs DEF Held
<1> HIDE DEF d
<1>2. b <= d /\ d <= b /\ b \in Nat /\ d \in Nat
  BY <1>1, FormedType DEF Held
<1>3. b = d
  BY <1>2
<1> QED BY <1>3 DEF d

\* q is p with some blocks that are younger.
Extends(p, q) == Len(p) <= Len(q) /\ \A b \in DOMAIN p : q[b] = p[b]

LEMMA ExtendsTrans ==
  ASSUME NEW p \in Formed, NEW q \in Formed, NEW s \in Formed, Extends(p, q), Extends(q, s)
  PROVE  Extends(p, s)
<1>1. Len(p) <= Len(s) /\ \A b \in DOMAIN p : b \in DOMAIN q
  BY FormedType DEF Extends
<1> QED BY <1>1 DEF Extends

LEMMA HeldStays ==
  ASSUME NEW p \in Formed, NEW q \in Formed, Extends(p, q),
         NEW parent, NEW title, NEW b, Held(p, parent, title, b)
  PROVE  Held(q, parent, title, b)
<1>1. b \in DOMAIN p /\ b \in DOMAIN q /\ q[b] = p[b] /\ b \in Nat
  BY FormedType DEF Held, Extends
<1>2. ASSUME NEW c \in DOMAIN q, q[c] = Z!Block(parent, "toggle", title) PROVE b <= c
  <2>1. CASE c \in DOMAIN p
    BY <1>2, <2>1 DEF Held, Extends
  <2>2. CASE c \notin DOMAIN p
    BY <1>1, <2>2, FormedType
  <2> QED BY <2>1, <2>2
<1> QED BY <1>1, <1>2 DEF Held

Appended(p, q, parent, kind, texts) ==
    /\ Extends(p, q)
    /\ Len(q) = Len(p) + Len(texts)
    /\ \A k \in 1 .. Len(texts) : q[Len(p) + k] = Z!Block(parent, kind, texts[k])

LEMMA ChildrenAppended ==
  ASSUME NEW p \in Formed, NEW parent \in 0 .. Len(p), NEW kind \in Kinds,
         NEW texts \in Seq(Texts)
  PROVE  /\ Z!AppendChildren(p, parent, kind, texts) \in Formed
         /\ Appended(p, Z!AppendChildren(p, parent, kind, texts), parent, kind, texts)
<1> DEFINE new == [i \in DOMAIN texts |-> Z!Block(parent, kind, texts[i])]
           q == p \o new
<1>1. Z!AppendChildren(p, parent, kind, texts) = q
  BY DEF Z!AppendChildren
<1>2. p \in Seq(Blocks) /\ Len(p) \in Nat /\ DOMAIN p = 1 .. Len(p)
      /\ Len(texts) \in Nat /\ DOMAIN texts = 1 .. Len(texts) /\ parent \in Nat
  BY FormedType
<1>3. new \in Seq(Blocks) /\ Len(new) = Len(texts)
  <2>1. \A i \in 1 .. Len(texts) : Z!Block(parent, kind, texts[i]) \in Blocks
    BY <1>2 DEF Z!Block, Blocks
  <2>2. new \in [1 .. Len(texts) -> Blocks]
    BY <1>2, <2>1
  <2> HIDE DEF new
  <2> QED BY <1>2, <2>2
<1>4. \A k \in 1 .. Len(texts) : new[k] = Z!Block(parent, kind, texts[k])
  BY <1>2
<1> HIDE DEF new
<1>5. /\ q \in Seq(Blocks) /\ Len(q) = Len(p) + Len(texts)
      /\ \A b \in 1 .. Len(p) : q[b] = p[b]
      /\ \A k \in 1 .. Len(texts) : q[Len(p) + k] = new[k]
  <2>1. /\ q \in Seq(Blocks) /\ Len(q) = Len(p) + Len(new)
    BY <1>2, <1>3
  <2>2. \A b \in 1 .. Len(p) + Len(new) : q[b] = IF b <= Len(p) THEN p[b] ELSE new[b - Len(p)]
    BY <1>2, <1>3
  <2>3. ASSUME NEW b \in 1 .. Len(p) PROVE q[b] = p[b]
    BY <1>2, <1>3, <2>2
  <2>4. ASSUME NEW k \in 1 .. Len(texts) PROVE q[Len(p) + k] = new[k]
    <3>1. Len(p) + k \in 1 .. Len(p) + Len(new) /\ ~ (Len(p) + k <= Len(p)) /\ (Len(p) + k) - Len(p) = k
      BY <1>2, <1>3
    <3> QED BY <2>2, <3>1
  <2> QED BY <1>3, <2>1, <2>3, <2>4
<1> HIDE DEF q
<1>6. \A b \in 1 .. Len(q) : q[b].parent < b
  <2> SUFFICES ASSUME NEW b \in 1 .. Len(q) PROVE q[b].parent < b
    OBVIOUS
  <2>1. CASE b \in 1 .. Len(p)
    BY <1>5, <2>1, FormedType
  <2>2. CASE b \notin 1 .. Len(p)
    <3>1. b - Len(p) \in 1 .. Len(texts) /\ Len(p) + (b - Len(p)) = b
      BY <1>2, <1>5, <2>2
    <3>2. q[b] = Z!Block(parent, kind, texts[b - Len(p)])
      BY <1>4, <1>5, <3>1
    <3>3. q[b].parent = parent
      BY <3>2 DEF Z!Block
    <3> QED BY <1>2, <2>2, <3>3
  <2> QED BY <2>1, <2>2
<1>7. q \in Formed
  BY <1>5, <1>6 DEF Formed
<1>8. Appended(p, q, parent, kind, texts)
  <2>1. Len(p) <= Len(q)
    BY <1>2, <1>5
  <2>2. \A b \in DOMAIN p : q[b] = p[b]
    BY <1>2, <1>5
  <2>3. \A k \in 1 .. Len(texts) : q[Len(p) + k] = Z!Block(parent, kind, texts[k])
    BY <1>4, <1>5
  <2> QED BY <1>5, <2>1, <2>2, <2>3 DEF Appended, Extends
<1> QED BY <1>1, <1>7, <1>8

\* q is p, or p with the container it lacked.
Completed(p, q, parent, title) ==
    \/ q = p
    \/ /\ Appended(p, q, parent, "toggle", <<title>>)
       /\ \A c \in DOMAIN p : p[c] # Z!Block(parent, "toggle", title)

LEMMA ContainerMade ==
  ASSUME ZoneAssumption, NEW p \in Formed, NEW parent \in 0 .. Len(p), NEW title \in Texts
  PROVE  LET q == Z!WithContainer(p, parent, title) IN
         /\ q \in Formed
         /\ Held(q, parent, title, Z!DirectContainer(q, parent, title))
         /\ Completed(p, q, parent, title)
<1> DEFINE q == Z!WithContainer(p, parent, title)
           b == Z!DirectContainer(p, parent, title)
<1> SUFFICES /\ q \in Formed
             /\ Held(q, parent, title, Z!DirectContainer(q, parent, title))
             /\ Completed(p, q, parent, title)
  OBVIOUS
<1>1. CASE b # NotFound
  <2>1. q = p
    BY <1>1 DEF Z!WithContainer
  <2>2. Held(p, parent, title, b)
    BY <1>1, ContainerIs
  <2> HIDE DEF q
  <2> QED BY <2>1, <2>2 DEF Completed
<1>2. CASE b = NotFound
  <2>1. q = Z!AppendChildren(p, parent, "toggle", <<title>>)
    BY <1>2 DEF Z!WithContainer
  <2>2. \A c \in DOMAIN p : p[c] # Z!Block(parent, "toggle", title)
    <3>1. ~ Held(p, parent, title, b)
      BY <1>2, FormedType DEF Held, ZoneAssumption
    <3> QED BY <3>1, ContainerIs
  <2>3. "toggle" \in Kinds /\ <<title>> \in Seq(Texts) /\ Len(<<title>>) = 1 /\ <<title>>[1] = title
    BY DEF ZoneAssumption
  <2> HIDE DEF q
  <2>4. q \in Formed /\ Appended(p, q, parent, "toggle", <<title>>)
    BY <2>1, <2>3, ChildrenAppended
  <2>5. Held(q, parent, title, Len(p) + 1)
    <3>1. Len(p) \in Nat /\ Len(q) = Len(p) + 1 /\ DOMAIN p = 1 .. Len(p) /\ DOMAIN q = 1 .. Len(p) + 1
      BY <2>3, <2>4, FormedType DEF Appended
    <3>2. q[Len(p) + 1] = Z!Block(parent, "toggle", title)
      BY <2>3, <2>4 DEF Appended
    <3>3. ASSUME NEW c \in DOMAIN q, q[c] = Z!Block(parent, "toggle", title) PROVE Len(p) + 1 <= c
      <4>1. c \notin DOMAIN p
        BY <2>2, <2>4, <3>3 DEF Appended, Extends
      <4> QED BY <3>1, <4>1
    <3> QED BY <3>1, <3>2, <3>3 DEF Held
  <2>6. Held(q, parent, title, Z!DirectContainer(q, parent, title))
    BY <2>4, <2>5, HeldIsFound
  <2> QED BY <2>2, <2>4, <2>6 DEF Completed
<1> QED BY <1>1, <1>2

Accepted == [key : Requests, date : Texts, topic : Texts, lines : Seq(Texts)]
Holders(p, r) == {b \in DOMAIN p : p[b].text = Identity(r.key)}
ZoneOf(p) == Z!DirectContainer(p, Z!ThePage, Zone)

\* The pages that an append leaves behind, with the zone and the date it used.
Progress(p, r, zoned, zone, dated, date, titled, written) ==
    /\ p \in Formed /\ zoned \in Formed /\ dated \in Formed /\ titled \in Formed /\ written \in Formed
    /\ Completed(p, zoned, Z!ThePage, Zone) /\ Held(zoned, Z!ThePage, Zone, zone)
    /\ Completed(zoned, dated, zone, r.date) /\ Held(dated, zone, r.date, date)
    /\ Appended(dated, titled, date, "toggle", <<r.topic>>)
    /\ Appended(titled, written, Len(titled), "paragraph", Z!SectionLines(r))

LEMMA StagesAre ==
  ASSUME ZoneAssumption, NEW p \in Formed, NEW r \in Accepted
  PROVE  /\ Holders(p, r) # {} => Z!Stages(p, r) = <<p>>
         /\ Holders(p, r) = {} =>
              \E zoned, zone, dated, date, titled, written :
                 /\ Progress(p, r, zoned, zone, dated, date, titled, written)
                 /\ Z!Stages(p, r) = <<p, zoned, dated, titled, written>>
<1> DEFINE zoned == Z!WithContainer(p, Z!ThePage, Zone)
           zone == Z!DirectContainer(zoned, Z!ThePage, Zone)
           dated == Z!WithContainer(zoned, zone, r.date)
           date == Z!DirectContainer(dated, zone, r.date)
           titled == Z!AppendChildren(dated, date, "toggle", <<r.topic>>)
           written == Z!AppendChildren(titled, Len(titled), "paragraph", Z!SectionLines(r))
<1>1. Z!Stages(p, r) = IF Z!BlockWithIdentity(p, r.key) # NotFound THEN <<p>>
                       ELSE <<p, zoned, dated, titled, written>>
  BY DEF Z!Stages
<1>2. Holders(p, r) # {} => Z!BlockWithIdentity(p, r.key) # NotFound
  <2> SUFFICES ASSUME Holders(p, r) # {} PROVE Z!BlockWithIdentity(p, r.key) # NotFound
    OBVIOUS
  <2>1. Z!BlockWithIdentity(p, r.key) = Z!First(p, Holders(p, r))
    BY DEF Z!BlockWithIdentity, Holders
  <2>2. Holders(p, r) \in SUBSET DOMAIN p
    BY DEF Holders
  <2>3. Z!First(p, Holders(p, r)) \in DOMAIN p
    BY <2>2, FirstExists
  <2> QED BY <2>1, <2>3, FormedType DEF ZoneAssumption
<1>3. Holders(p, r) = {} => Z!BlockWithIdentity(p, r.key) = NotFound
  BY DEF Z!BlockWithIdentity, Holders, Z!First
<1>4. /\ r.date \in Texts /\ r.topic \in Texts /\ <<r.topic>> \in Seq(Texts)
      /\ Z!SectionLines(r) \in Seq(Texts)
  <2>1. r.lines \in Seq(Texts) /\ r.key \in Requests /\ r.date \in Texts /\ r.topic \in Texts
    BY DEF Accepted
  <2>2. Identity(r.key) \in Texts
    BY <2>1 DEF ZoneAssumption
  <2> QED BY <2>1, <2>2 DEF Z!SectionLines
<1>5. /\ zoned \in Formed /\ Held(zoned, Z!ThePage, Zone, zone)
      /\ Completed(p, zoned, Z!ThePage, Zone)
  <2>1. Z!ThePage \in 0 .. Len(p) /\ Zone \in Texts
    BY FormedType DEF Z!ThePage, ZoneAssumption
  <2> QED BY <2>1, ContainerMade
<1> HIDE DEF zoned, zone
<1>6. /\ dated \in Formed /\ Held(dated, zone, r.date, date)
      /\ Completed(zoned, dated, zone, r.date)
  <2>1. zone \in 0 .. Len(zoned)
    BY <1>5, FormedType DEF Held
  <2> QED BY <1>4, <1>5, <2>1, ContainerMade
<1> HIDE DEF dated, date
<1>7. titled \in Formed /\ Appended(dated, titled, date, "toggle", <<r.topic>>)
  <2>1. date \in 0 .. Len(dated) /\ "toggle" \in Kinds
    BY <1>6, FormedType DEF Held, ZoneAssumption
  <2> QED BY <1>4, <1>6, <2>1, ChildrenAppended
<1> HIDE DEF titled
<1>8. written \in Formed /\ Appended(titled, written, Len(titled), "paragraph", Z!SectionLines(r))
  <2>1. Len(titled) \in 0 .. Len(titled) /\ "paragraph" \in Kinds
    BY <1>7, FormedType DEF ZoneAssumption
  <2> QED BY <1>4, <1>7, <2>1, ChildrenAppended
<1> HIDE DEF written
<1>9. Progress(p, r, zoned, zone, dated, date, titled, written)
  BY <1>5, <1>6, <1>7, <1>8 DEF Progress
<1>10. ASSUME Holders(p, r) = {}
       PROVE  /\ Progress(p, r, zoned, zone, dated, date, titled, written)
              /\ Z!Stages(p, r) = <<p, zoned, dated, titled, written>>
  BY <1>1, <1>3, <1>9, <1>10
<1> QED BY <1>1, <1>2, <1>10

\* What is on the page that an append completes: topic is the number of its topic.
Completion(r, zone, date, topic, written) ==
    /\ zone \in Nat \ {0} /\ date \in Nat /\ topic \in Nat /\ zone < date /\ date < topic
    /\ Held(written, Z!ThePage, Zone, zone) /\ Held(written, zone, r.date, date)
    /\ written[topic] = Z!Block(date, "toggle", r.topic)
    /\ Len(written) = topic + Len(Z!SectionLines(r)) /\ Len(Z!SectionLines(r)) \in Nat
    /\ \A k \in 1 .. Len(Z!SectionLines(r)) :
         written[topic + k] = Z!Block(topic, "paragraph", Z!SectionLines(r)[k])

LEMMA CompletionFields ==
  ASSUME NEW r, NEW zone, NEW date, NEW topic, NEW written,
         Completion(r, zone, date, topic, written)
  PROVE  /\ written[zone].parent = 0 /\ written[zone].text = Zone
         /\ written[date].parent = zone /\ written[date].text = r.date
         /\ written[topic].parent = date /\ written[topic].text = r.topic
         /\ \A k \in 1 .. Len(Z!SectionLines(r)) :
              /\ written[topic + k].parent = topic /\ written[topic + k].kind = "paragraph"
              /\ written[topic + k].text = Z!SectionLines(r)[k]
<1>1. \A parent, kind, text :
        /\ Z!Block(parent, kind, text).parent = parent /\ Z!Block(parent, kind, text).kind = kind
        /\ Z!Block(parent, kind, text).text = text
  BY DEF Z!Block
<1>2. /\ written[zone] = Z!Block(Z!ThePage, "toggle", Zone)
      /\ written[date] = Z!Block(zone, "toggle", r.date)
      /\ written[topic] = Z!Block(date, "toggle", r.topic)
  BY DEF Completion, Held
<1>3. ASSUME NEW k \in 1 .. Len(Z!SectionLines(r))
      PROVE  written[topic + k] = Z!Block(topic, "paragraph", Z!SectionLines(r)[k])
  BY DEF Completion
<1> QED BY <1>1, <1>2, <1>3 DEF Z!ThePage

\* A block that is new was needed: p had no such container.
Needed(p, zoned, r, zone, date, topic, b) ==
    \/ /\ b = zone
       /\ \A c \in DOMAIN p : p[c] # Z!Block(Z!ThePage, "toggle", Zone)
    \/ /\ b = date /\ b \notin DOMAIN zoned
       /\ \A c \in DOMAIN zoned : zoned[c] # Z!Block(zone, "toggle", r.date)
    \/ b = topic
    \/ \E k \in 1 .. Len(Z!SectionLines(r)) : b = topic + k

LEMMA CompletedExtends ==
  ASSUME NEW p \in Formed, NEW q \in Formed, NEW parent, NEW title,
         Completed(p, q, parent, title), NEW c, Held(q, parent, title, c)
  PROVE  /\ Extends(p, q)
         /\ \A b \in DOMAIN q \ DOMAIN p :
              b = c /\ \A d \in DOMAIN p : p[d] # Z!Block(parent, "toggle", title)
<1>1. CASE q = p
  BY <1>1, FormedType DEF Extends
<1>2. CASE /\ Appended(p, q, parent, "toggle", <<title>>)
           /\ \A d \in DOMAIN p : p[d] # Z!Block(parent, "toggle", title)
  <2>1. Extends(p, q) /\ Len(q) = Len(p) + 1
    BY <1>2 DEF Appended
  <2>2. c \in DOMAIN q /\ c \notin DOMAIN p
    BY <1>2, <2>1 DEF Held, Extends
  <2>3. \A b \in DOMAIN q \ DOMAIN p : b = c
    BY <2>1, <2>2, FormedType
  <2> QED BY <1>2, <2>1, <2>3
<1> QED BY <1>1, <1>2 DEF Completed

LEMMA ProgressIs ==
  ASSUME NEW p, NEW r \in Accepted, NEW zoned, NEW zone, NEW dated, NEW date, NEW titled, NEW written,
         Progress(p, r, zoned, zone, dated, date, titled, written)
  PROVE  /\ Extends(p, zoned) /\ Extends(zoned, dated) /\ Extends(dated, titled) /\ Extends(titled, written)
         /\ Extends(p, written) /\ Extends(zoned, written) /\ Extends(dated, written)
         /\ Len(titled) = Len(dated) + 1 /\ zone \in DOMAIN zoned /\ date \in DOMAIN dated
         /\ Completion(r, zone, date, Len(titled), written)
         /\ \A b \in DOMAIN written \ DOMAIN p : Needed(p, zoned, r, zone, date, Len(titled), b)
<1> DEFINE n == Len(Z!SectionLines(r))
           t == Len(titled)
<1>0. /\ p \in Formed /\ zoned \in Formed /\ dated \in Formed /\ titled \in Formed /\ written \in Formed
      /\ Completed(p, zoned, Z!ThePage, Zone) /\ Held(zoned, Z!ThePage, Zone, zone)
      /\ Completed(zoned, dated, zone, r.date) /\ Held(dated, zone, r.date, date)
      /\ Appended(dated, titled, date, "toggle", <<r.topic>>)
      /\ Appended(titled, written, t, "paragraph", Z!SectionLines(r))
  BY DEF Progress
<1>1. Extends(p, zoned) /\ Extends(zoned, dated)
  BY <1>0, CompletedExtends
<1>2. Extends(dated, titled) /\ Extends(titled, written)
  BY <1>0 DEF Appended
<1>3. Extends(dated, written)
  BY <1>0, <1>2, ExtendsTrans
<1>4. Extends(zoned, written)
  BY <1>0, <1>1, <1>3, ExtendsTrans
<1>5. Extends(p, written)
  BY <1>0, <1>1, <1>4, ExtendsTrans
<1>6. /\ Len(p) \in Nat /\ Len(zoned) \in Nat /\ Len(dated) \in Nat /\ t \in Nat
      /\ DOMAIN p = 1 .. Len(p) /\ DOMAIN zoned = 1 .. Len(zoned) /\ DOMAIN dated = 1 .. Len(dated)
      /\ DOMAIN titled = 1 .. t /\ DOMAIN written = 1 .. Len(written)
      /\ \A b \in 1 .. Len(dated) : dated[b].parent < b
  BY <1>0, FormedType DEF Formed
<1>7. n \in Nat
  <2>1. r.lines \in Seq(Texts)
    BY DEF Accepted
  <2> QED BY <2>1 DEF Z!SectionLines
<1>8. t = Len(dated) + 1 /\ titled[t] = Z!Block(date, "toggle", r.topic)
  <2>1. Len(<<r.topic>>) = 1 /\ <<r.topic>>[1] = r.topic
    OBVIOUS
  <2>2. t = Len(dated) + 1 /\ titled[Len(dated) + 1] = Z!Block(date, "toggle", r.topic)
    BY <1>0, <2>1 DEF Appended
  <2> QED BY <2>2
<1>9. Len(written) = t + n /\ \A k \in 1 .. n : written[t + k] = Z!Block(t, "paragraph", Z!SectionLines(r)[k])
  BY <1>0 DEF Appended
<1> HIDE DEF n, t
<1>10. zone \in 1 .. Len(zoned) /\ date \in 1 .. Len(dated) /\ dated[date].parent = zone
  BY <1>0, <1>6 DEF Held, Z!Block
<1>11. zone \in Nat \ {0} /\ date \in Nat /\ zone < date /\ date < t
  BY <1>6, <1>8, <1>10
<1>12. Held(written, Z!ThePage, Zone, zone) /\ Held(written, zone, r.date, date)
  BY <1>0, <1>3, <1>4, HeldStays
<1>13. written[t] = Z!Block(date, "toggle", r.topic)
  BY <1>2, <1>6, <1>8 DEF Extends
<1>14. Completion(r, zone, date, t, written)
  BY <1>6, <1>7, <1>9, <1>11, <1>12, <1>13 DEF Completion, n
<1>15. ASSUME NEW b \in DOMAIN written \ DOMAIN p PROVE Needed(p, zoned, r, zone, date, t, b)
  <2>1. CASE b \in DOMAIN zoned
    BY <1>0, <2>1, CompletedExtends DEF Needed
  <2>2. CASE b \in DOMAIN dated \ DOMAIN zoned
    BY <1>0, <2>2, CompletedExtends DEF Needed
  <2>3. CASE b = t
    BY <2>3 DEF Needed
  <2>4. CASE b \notin DOMAIN titled
    <3>1. b \in Nat /\ t < b /\ b <= t + n
      BY <1>6, <1>7, <1>9, <2>4
    <3>2. b - t \in 1 .. n /\ b = t + (b - t)
      BY <1>6, <1>7, <3>1
    <3> QED BY <3>2 DEF Needed, n
  <2>5. b \in DOMAIN titled => b \in DOMAIN dated \/ b = t
    BY <1>6, <1>8
  <2> QED BY <2>1, <2>2, <2>3, <2>4, <2>5
<1> QED BY <1>1, <1>2, <1>3, <1>4, <1>5, <1>8, <1>10, <1>6, <1>14, <1>15 DEF t

\* Every stage is between p and the page that is completed.
LEMMA StageIs ==
  ASSUME NEW p, NEW r \in Accepted, NEW zoned, NEW zone, NEW dated, NEW date, NEW titled, NEW written,
         Progress(p, r, zoned, zone, dated, date, titled, written),
         NEW i \in DOMAIN <<p, zoned, dated, titled, written>>
  PROVE  LET q == <<p, zoned, dated, titled, written>>[i] IN
         /\ q \in Formed /\ Extends(p, q) /\ Extends(q, written)
         /\ \/ i = 1 /\ q = p
            \/ i \in 2 .. 4 /\ Extends(zoned, q) /\ Extends(q, titled)
            \/ i = 5 /\ q = written
<1>0. /\ p \in Formed /\ zoned \in Formed /\ dated \in Formed /\ titled \in Formed /\ written \in Formed
  BY DEF Progress
<1>1. /\ Extends(p, zoned) /\ Extends(zoned, dated) /\ Extends(dated, titled) /\ Extends(titled, written)
      /\ Extends(p, written) /\ Extends(zoned, written) /\ Extends(dated, written)
  BY ProgressIs
<1>2. /\ Extends(p, dated) /\ Extends(p, titled) /\ Extends(zoned, titled)
  BY <1>0, <1>1, ExtendsTrans
<1>3. \A q \in Formed : Extends(q, q)
  BY FormedType DEF Extends
<1>4. i \in 1 .. 5
  OBVIOUS
<1>5. CASE i = 1
  BY <1>0, <1>1, <1>3, <1>5
<1>6. CASE i = 2
  BY <1>0, <1>1, <1>2, <1>3, <1>6
<1>7. CASE i = 3
  BY <1>0, <1>1, <1>2, <1>3, <1>7
<1>8. CASE i = 4
  BY <1>0, <1>1, <1>2, <1>3, <1>8
<1>9. CASE i = 5
  BY <1>0, <1>1, <1>2, <1>3, <1>9
<1> QED BY <1>4, <1>5, <1>6, <1>7, <1>8, <1>9

LEMMA BelowStep ==
  ASSUME NEW q \in Formed, NEW z \in DOMAIN q, NEW c \in DOMAIN q,
         q[c].parent = z \/ q[c].parent \in Z!Below(q, z), z # c
  PROVE  c \in Z!Below(q, z)
<1> DEFINE x == q[c].parent
<1>1. /\ x \in 1 .. Len(q) /\ z \in 1 .. Len(q) /\ c \in 1 .. Len(q)
      /\ q[z].parent \in 0 .. Len(q)
  BY FormedType DEF Z!Below
<1>2. /\ Z!Way(q, x) \in Seq(Nat) /\ Z!Way(q, c) = Append(Z!Way(q, x), c)
      /\ Z!Way(q, q[z].parent) \in Seq(Nat)
      /\ Z!Way(q, z) = Append(Z!Way(q, q[z].parent), z)
  <2>1. \A b \in 0 .. Len(q) : Z!Way(q, b) \in Seq(Nat)
    BY WayIs
  <2>2. \A b \in 1 .. Len(q) : Z!Way(q, b) = Append(Z!Way(q, q[b].parent), b)
    BY WayIs
  <2>3. x \in 0 .. Len(q)
    BY <1>1
  <2> QED BY <1>1, <2>1, <2>2, <2>3
<1>3. \A v \in Seq(Nat), a \in Nat : DOMAIN Append(v, a) = 1 .. Len(v) + 1
                             /\ Append(v, a)[Len(v) + 1] = a /\ Len(v) \in Nat
                             /\ \A i \in DOMAIN v : i \in DOMAIN Append(v, a) /\ Append(v, a)[i] = v[i]
  OBVIOUS
<1>4. z \in Z!ToSet(Z!Way(q, x))
  <2>1. CASE x = z
    <3> DEFINE v == Z!Way(q, q[z].parent)
    <3>1. Len(v) + 1 \in DOMAIN Append(v, z) /\ Append(v, z)[Len(v) + 1] = z
      BY <1>2, <1>3
    <3> QED BY <1>2, <2>1, <3>1 DEF Z!ToSet
  <2>2. CASE x \in Z!Below(q, z)
    BY <2>2 DEF Z!Below
  <2> QED BY <2>1, <2>2
<1>5. z \in Z!ToSet(Z!Way(q, c))
  <2>1. PICK i \in DOMAIN Z!Way(q, x) : Z!Way(q, x)[i] = z
    BY <1>4 DEF Z!ToSet
  <2>2. i \in DOMAIN Z!Way(q, c) /\ Z!Way(q, c)[i] = z
    BY <1>2, <1>3, <2>1
  <2> QED BY <2>2 DEF Z!ToSet
<1> QED BY <1>5 DEF Z!Below

\* A stage that has a block more than p has the zone, which is the zone of it.
LEMMA StageHasZone ==
  ASSUME NEW p, NEW r \in Accepted, NEW zoned, NEW zone, NEW dated, NEW date, NEW titled, NEW written,
         Progress(p, r, zoned, zone, dated, date, titled, written),
         NEW i \in DOMAIN <<p, zoned, dated, titled, written>>, i # 1
  PROVE  LET q == <<p, zoned, dated, titled, written>>[i] IN
         zone \in DOMAIN q /\ ZoneOf(q) = zone
<1> DEFINE q == <<p, zoned, dated, titled, written>>[i]
<1> SUFFICES zone \in DOMAIN q /\ ZoneOf(q) = zone
  OBVIOUS
<1>1. q \in Formed /\ (q = written \/ Extends(zoned, q))
  BY StageIs
<1>2. zoned \in Formed /\ written \in Formed /\ Extends(zoned, written) /\ Held(zoned, Z!ThePage, Zone, zone)
  BY ProgressIs DEF Progress
<1> HIDE DEF q
<1>3. Extends(zoned, q)
  BY <1>1, <1>2
<1>4. Held(q, Z!ThePage, Zone, zone)
  BY <1>1, <1>2, <1>3, HeldStays
<1> QED BY <1>1, <1>4, HeldIsFound DEF Held, ZoneOf

\* An accept that breaks off between two requests to Notion, at any of them, or does
\* not, leaves the blocks of a page as they were, and what it adds is the zone or below it.
THEOREM AppendsStayBelowZone ==
  ASSUME ZoneAssumption, NEW p \in Formed, NEW r \in Accepted, NEW i \in DOMAIN Z!Stages(p, r)
  PROVE  LET q == Z!Stages(p, r)[i] IN
         /\ q \in Formed /\ Extends(p, q)
         /\ \A b \in DOMAIN q \ DOMAIN p : b = ZoneOf(q) \/ b \in Z!Below(q, ZoneOf(q))
<1> DEFINE q == Z!Stages(p, r)[i]
<1> SUFFICES /\ q \in Formed /\ Extends(p, q)
             /\ \A b \in DOMAIN q \ DOMAIN p : b = ZoneOf(q) \/ b \in Z!Below(q, ZoneOf(q))
  OBVIOUS
<1>0. Extends(p, p)
  BY FormedType DEF Extends
<1>1. CASE Holders(p, r) # {}
  <2>1. q = p
    BY <1>1, StagesAre
  <2> HIDE DEF q
  <2> QED BY <1>0, <2>1
<1>2. CASE Holders(p, r) = {}
  <2>1. PICK zoned, zone, dated, date, titled, written :
           /\ Progress(p, r, zoned, zone, dated, date, titled, written)
           /\ Z!Stages(p, r) = <<p, zoned, dated, titled, written>>
    BY <1>2, StagesAre
  <2>2. q \in Formed /\ Extends(p, q) /\ Extends(q, written) /\ (i = 1 => q = p)
    BY <2>1, StageIs
  <2>3. i # 1 => zone \in DOMAIN q /\ ZoneOf(q) = zone
    BY <2>1, StageHasZone
  <2>4. written \in Formed /\ Completion(r, zone, date, Len(titled), written)
    BY <2>1, ProgressIs DEF Progress
  <2>5. \A b \in DOMAIN written \ DOMAIN p : Needed(p, zoned, r, zone, date, Len(titled), b)
    BY <2>1, ProgressIs
  <2> HIDE DEF q
  <2>6. ASSUME NEW b \in DOMAIN q \ DOMAIN p
        PROVE  b = ZoneOf(q) \/ b \in Z!Below(q, ZoneOf(q))
    <3> DEFINE t == Len(titled)
    <3>1. i # 1 /\ zone \in DOMAIN q /\ ZoneOf(q) = zone
      BY <2>2, <2>3, <2>6
    <3>2. /\ zone \in Nat /\ date \in Nat /\ t \in Nat /\ zone < date /\ date < t
          /\ written[date] = Z!Block(zone, "toggle", r.date)
          /\ written[t] = Z!Block(date, "toggle", r.topic)
          /\ \A k \in 1 .. Len(Z!SectionLines(r)) :
               written[t + k] = Z!Block(t, "paragraph", Z!SectionLines(r)[k])
      BY <2>4 DEF Completion, Held
    <3>3. b \in DOMAIN written /\ \A c \in DOMAIN q : q[c] = written[c] /\ c \in DOMAIN written
      BY <2>2, <2>4, FormedType DEF Extends
    <3>4. \A c \in Nat : c <= b /\ c # 0 => c \in DOMAIN q
      BY <2>2, FormedType
    <3>5. b \in Nat /\ Needed(p, zoned, r, zone, date, t, b)
      BY <2>2, <2>5, <3>3, FormedType
    <3> HIDE DEF t
    <3>6. date <= b => date \in Z!Below(q, zone)
      <4> SUFFICES ASSUME date <= b PROVE date \in Z!Below(q, zone)
        OBVIOUS
      <4>1. date \in DOMAIN q /\ date # zone
        BY <3>2, <3>4
      <4>2. q[date].parent = zone
        BY <3>2, <3>3, <4>1 DEF Z!Block
      <4> QED BY <2>2, <3>1, <4>1, <4>2, BelowStep
    <3>7. t <= b => t \in Z!Below(q, zone)
      <4> SUFFICES ASSUME t <= b PROVE t \in Z!Below(q, zone)
        OBVIOUS
      <4>1. t \in DOMAIN q /\ t # zone /\ date <= b
        BY <3>2, <3>4, <3>5
      <4>2. q[t].parent = date
        BY <3>2, <3>3, <4>1 DEF Z!Block
      <4> QED BY <2>2, <3>1, <3>6, <4>1, <4>2, BelowStep
    <3>8. ASSUME NEW k \in 1 .. Len(Z!SectionLines(r)), b = t + k PROVE b \in Z!Below(q, zone)
      <4>1. t <= b /\ b # zone /\ b \in DOMAIN q
        BY <2>4, <2>6, <3>2, <3>8 DEF Completion
      <4>2. q[b].parent = t
        BY <2>4, <3>3, <3>8, <4>1, CompletionFields DEF t
      <4> QED BY <2>2, <3>1, <3>7, <4>1, <4>2, BelowStep
    <3>9. b = zone \/ b = date \/ b = t \/ \E k \in 1 .. Len(Z!SectionLines(r)) : b = t + k
      BY <3>5 DEF Needed
    <3>10. b = date => date <= b
      BY <3>2
    <3>11. b = t => t <= b
      BY <3>2
    <3> QED BY <3>1, <3>6, <3>7, <3>8, <3>9, <3>10, <3>11
  <2> QED BY <2>2, <2>6
<1> QED BY <1>1, <1>2

\* However often accepts break off, a page has one zone and the zone one toggle for a date,
\* unless its owner made another: of two that are the same none was added by an append.
THEOREM ContainersAreShared ==
  ASSUME ZoneAssumption, NEW p \in Formed, NEW r \in Accepted, NEW i \in DOMAIN Z!Stages(p, r)
  PROVE  LET q == Z!Stages(p, r)[i] IN
         \A a, b \in DOMAIN q :
           q[a] = q[b] /\ q[a].kind = "toggle" /\ q[a].parent \in {Z!ThePage, ZoneOf(q)}
             => a = b \/ {a, b} \subseteq DOMAIN p
<1> DEFINE q == Z!Stages(p, r)[i]
           Same(a, b) == q[a] = q[b] /\ q[a].kind = "toggle" /\ q[a].parent \in {Z!ThePage, ZoneOf(q)}
<1> SUFFICES \A a, b \in DOMAIN q : Same(a, b) => a = b \/ {a, b} \subseteq DOMAIN p
  OBVIOUS
<1>1. CASE Holders(p, r) # {}
  <2>1. q = p
    BY <1>1, StagesAre
  <2> HIDE DEF q
  <2> QED BY <2>1
<1>2. CASE Holders(p, r) = {}
  <2>1. PICK zoned, zone, dated, date, titled, written :
           /\ Progress(p, r, zoned, zone, dated, date, titled, written)
           /\ Z!Stages(p, r) = <<p, zoned, dated, titled, written>>
    BY <1>2, StagesAre
  <2>2. q \in Formed /\ Extends(p, q) /\ Extends(q, written) /\ (i = 1 => q = p)
    BY <2>1, StageIs
  <2>3. i # 1 => zone \in DOMAIN q /\ ZoneOf(q) = zone
    BY <2>1, StageHasZone
  <2>4. /\ written \in Formed /\ zoned \in Formed /\ Completion(r, zone, date, Len(titled), written)
        /\ Extends(zoned, written) /\ zone \in DOMAIN zoned
    BY <2>1, ProgressIs DEF Progress
  <2>5. \A b \in DOMAIN written \ DOMAIN p : Needed(p, zoned, r, zone, date, Len(titled), b)
    BY <2>1, ProgressIs
  <2> DEFINE t == Len(titled)
  <2>6. /\ zone \in Nat \ {0} /\ date \in Nat /\ t \in Nat /\ zone < date /\ date < t
        /\ written[zone] = Z!Block(Z!ThePage, "toggle", Zone)
        /\ written[date] = Z!Block(zone, "toggle", r.date)
        /\ written[t] = Z!Block(date, "toggle", r.topic)
        /\ \A k \in 1 .. Len(Z!SectionLines(r)) :
             written[t + k] = Z!Block(t, "paragraph", Z!SectionLines(r)[k])
    BY <2>4 DEF Completion, Held
  <2> HIDE DEF t, q
  <2>7. ASSUME NEW a \in DOMAIN q, NEW b \in DOMAIN q \ DOMAIN p, Same(a, b) PROVE a = b
    <3>1. i # 1 /\ ZoneOf(q) = zone
      BY <2>2, <2>3, <2>7
    <3>2. a \in DOMAIN written /\ b \in DOMAIN written /\ q[a] = written[a] /\ q[b] = written[b]
      BY <2>2, <2>4, FormedType DEF Extends
    <3>3. written[a] = written[b] /\ written[b].kind = "toggle" /\ written[b].parent \in {0, zone}
      BY <2>7, <3>1, <3>2 DEF Z!ThePage
    <3>4. b # t /\ ~ \E k \in 1 .. Len(Z!SectionLines(r)) : b = t + k
      <4>1. written[t].parent = date /\ date \notin {0, zone}
        BY <2>4, <2>6, CompletionFields DEF t
      <4>2. \A k \in 1 .. Len(Z!SectionLines(r)) : written[t + k].kind = "paragraph"
        BY <2>4, CompletionFields DEF t
      <4> QED BY <3>3, <4>1, <4>2
    <3>5. Needed(p, zoned, r, zone, date, t, b)
      BY <2>5, <2>7, <3>2 DEF t
    <3>6. \A c : c \in DOMAIN p \/ a \notin DOMAIN p \/ c # a
      OBVIOUS
    <3>7. a \in DOMAIN p => p[a] = written[a]
      BY <2>2, <3>2 DEF Extends
    <3>8. a \in DOMAIN zoned => zoned[a] = written[a]
      BY <2>4, <3>2 DEF Extends
    <3>9. CASE a \in DOMAIN zoned
      <4>1. b # date \/ b \in DOMAIN zoned
        BY <2>6, <3>3, <3>4, <3>5, <3>8, <3>9 DEF Needed
      <4>2. CASE b = zone /\ a \in DOMAIN p
        BY <2>6, <3>3, <3>5, <3>7, <4>1, <4>2 DEF Needed
      <4>3. CASE b = zone /\ a \notin DOMAIN p
        <5>1. Needed(p, zoned, r, zone, date, t, a)
          BY <2>5, <3>2, <4>3 DEF t
        <5>2. written[a] = Z!Block(Z!ThePage, "toggle", Zone)
          BY <2>6, <3>3, <4>3
        <5>3. a # date /\ a # t /\ ~ \E k \in 1 .. Len(Z!SectionLines(r)) : a = t + k
          <6>1. written[a].parent = 0
            BY <5>2 DEF Z!Block, Z!ThePage
          <6>2. /\ written[date].parent = zone /\ written[t].parent = date
                /\ \A k \in 1 .. Len(Z!SectionLines(r)) : written[t + k].parent = t
            BY <2>4, CompletionFields DEF t
          <6> QED BY <2>6, <6>1, <6>2
        <5> QED BY <4>3, <5>1, <5>3 DEF Needed
      <4> QED BY <3>4, <3>5, <4>1, <4>2, <4>3 DEF Needed
    <3>10. CASE a \notin DOMAIN zoned
      <4>1. a \notin DOMAIN p
        <5>1. zoned \in Formed /\ Extends(p, zoned)
          BY <2>1, ProgressIs DEF Progress
        <5> QED BY <3>10, <5>1, FormedType DEF Extends
      <4>2. Needed(p, zoned, r, zone, date, t, a)
        BY <2>5, <3>2, <4>1 DEF t
      <4>3. a # t /\ ~ \E k \in 1 .. Len(Z!SectionLines(r)) : a = t + k
        <5>1. written[t].parent = date /\ date \notin {0, zone}
          BY <2>4, <2>6, CompletionFields DEF t
        <5>2. \A k \in 1 .. Len(Z!SectionLines(r)) : written[t + k].kind = "paragraph"
          BY <2>4, CompletionFields DEF t
        <5> QED BY <3>3, <5>1, <5>2
      <4>4. a = date
        BY <2>4, <3>10, <4>2, <4>3 DEF Needed
      <4>5. b # zone
        BY <2>6, <3>3, <4>4 DEF Z!Block, Z!ThePage
      <4> QED BY <3>4, <3>5, <4>4, <4>5 DEF Needed
    <3> QED BY <3>9, <3>10
  <2>8. \A a, b : Same(a, b) => Same(b, a)
    OBVIOUS
  <2> HIDE DEF Same
  <2> QED BY <2>7, <2>8
<1> QED BY <1>1, <1>2

\* The section of r is on q, below the toggle t of its topic, below its date, below the zone.
SectionAt(q, r, t) ==
    /\ t \in DOMAIN q /\ ZoneOf(q) \in DOMAIN q
    /\ \E date \in DOMAIN q : /\ q[date] = Z!Block(ZoneOf(q), "toggle", r.date)
                              /\ q[t] = Z!Block(date, "toggle", r.topic)
    /\ {b \in DOMAIN q : q[b].parent = t} = t + 1 .. t + Len(Z!SectionLines(r))
    /\ \A k \in 1 .. Len(Z!SectionLines(r)) :
         q[t + k] = Z!Block(t, "paragraph", Z!SectionLines(r)[k])

\* The line that identifies a request is said nowhere else in what is appended of it.
OwnIdentity(r) ==
    /\ Identity(r.key) \notin {Zone, r.date, r.topic}
    /\ \A k \in DOMAIN r.lines : r.lines[k] # Identity(r.key)

LEMMA LinesOf ==
  ASSUME NEW r \in Accepted
  PROVE  /\ Len(Z!SectionLines(r)) = Len(r.lines) + 1 /\ Len(r.lines) \in Nat
         /\ Z!SectionLines(r)[Len(r.lines) + 1] = Identity(r.key)
         /\ \A k \in 1 .. Len(r.lines) : Z!SectionLines(r)[k] = r.lines[k] /\ k \in DOMAIN r.lines
<1> DEFINE v == r.lines
<1>1. v \in Seq(Texts)
  BY DEF Accepted
<1>2. Z!SectionLines(r) = Append(v, Identity(r.key))
  BY DEF Z!SectionLines
<1> HIDE DEF v
<1>3. /\ Len(Append(v, Identity(r.key))) = Len(v) + 1 /\ Len(v) \in Nat
      /\ Append(v, Identity(r.key))[Len(v) + 1] = Identity(r.key)
      /\ \A k \in 1 .. Len(v) : Append(v, Identity(r.key))[k] = v[k] /\ k \in DOMAIN v
  BY <1>1
<1> QED BY <1>2, <1>3 DEF v

\* A request that is on a page in any way is not appended again.  Another is on the page
\* only when the last of the requests to Notion has been answered, and then as a whole,
\* below its date and topic, with its identity as the one last line.
THEOREM SectionsAreWhole ==
  ASSUME ZoneAssumption, NEW p \in Formed, NEW r \in Accepted, OwnIdentity(r),
         NEW i \in DOMAIN Z!Stages(p, r)
  PROVE  LET q == Z!Stages(p, r)[i] IN
         /\ Holders(p, r) # {} => q = p
         /\ Holders(p, r) = {} =>
              IF i < Len(Z!Stages(p, r)) THEN Holders(q, r) = {}
              ELSE \E t \in DOMAIN q : SectionAt(q, r, t) /\ Holders(q, r) = {Len(q)}
<1> DEFINE q == Z!Stages(p, r)[i]
<1> SUFFICES ASSUME Holders(p, r) = {}
             PROVE  IF i < Len(Z!Stages(p, r)) THEN Holders(q, r) = {}
                    ELSE \E t \in DOMAIN q : SectionAt(q, r, t) /\ Holders(q, r) = {Len(q)}
  <2>1. Holders(p, r) # {} => q = p
    BY StagesAre
  <2> QED BY <2>1
<1>1. PICK zoned, zone, dated, date, titled, written :
           /\ Progress(p, r, zoned, zone, dated, date, titled, written)
           /\ Z!Stages(p, r) = <<p, zoned, dated, titled, written>>
  BY StagesAre
<1> DEFINE t == Len(titled)
           n == Len(Z!SectionLines(r))
<1>2. q \in Formed /\ Extends(p, q) /\ Extends(q, written) /\ (i = 1 => q = p)
      /\ (i = 5 => q = written) /\ (i \in 2 .. 4 => Extends(q, titled)) /\ i \in 1 .. 5
  BY <1>1, StageIs
<1>3. /\ written \in Formed /\ titled \in Formed /\ Completion(r, zone, date, t, written)
      /\ Extends(titled, written)
  BY <1>1, ProgressIs DEF Progress
<1>4. \A b \in DOMAIN written \ DOMAIN p : Needed(p, zoned, r, zone, date, t, b)
  BY <1>1, ProgressIs
<1>5. Len(Z!Stages(p, r)) = 5
  BY <1>1
<1>6. /\ written[zone].parent = 0 /\ written[zone].text = Zone
      /\ written[date].parent = zone /\ written[date].text = r.date
      /\ written[t].parent = date /\ written[t].text = r.topic
      /\ \A k \in 1 .. n :
              /\ written[t + k].parent = t /\ written[t + k].kind = "paragraph"
              /\ written[t + k].text = Z!SectionLines(r)[k]
  BY <1>3, CompletionFields
<1>7. /\ zone \in Nat \ {0} /\ date \in Nat /\ t \in Nat /\ zone < date /\ date < t
      /\ n \in Nat /\ Len(written) = t + n /\ DOMAIN written = 1 .. t + n
      /\ DOMAIN titled = 1 .. t
      /\ zone \in DOMAIN written /\ date \in DOMAIN written /\ t \in DOMAIN written
  BY <1>3, FormedType DEF Completion
<1>8. n = Len(r.lines) + 1 /\ Len(r.lines) \in Nat /\ Z!SectionLines(r)[n] = Identity(r.key)
      /\ \A k \in 1 .. Len(r.lines) : Z!SectionLines(r)[k] # Identity(r.key)
  BY LinesOf DEF OwnIdentity
<1> HIDE DEF q, t, n
\* The identity is the text of the last block only.
<1>9. ASSUME NEW b \in DOMAIN written, written[b].text = Identity(r.key) PROVE b = t + n
  <2>1. b \notin DOMAIN p
    <3> SUFFICES ASSUME b \in DOMAIN p PROVE FALSE
      OBVIOUS
    <3>1. p[b] = written[b]
      BY <1>1, ProgressIs DEF Extends
    <3> QED BY <1>9, <3>1 DEF Holders
  <2>2. b # zone /\ b # date /\ b # t
    BY <1>6, <1>9 DEF OwnIdentity
  <2>3. PICK k \in 1 .. n : b = t + k
    BY <1>4, <2>1, <2>2 DEF Needed, n
  <2>4. Z!SectionLines(r)[k] = Identity(r.key)
    BY <1>6, <1>9, <2>3
  <2>5. k = n
    BY <1>8, <2>4
  <2> QED BY <2>3, <2>5
<1>10. CASE i < 5
  <2>1. \A b \in DOMAIN q : b \in DOMAIN titled /\ q[b] = titled[b] /\ b \in DOMAIN written /\ titled[b] = written[b]
    <3>1. Extends(q, titled)
      <4>1. CASE i = 1
        <5>1. q = p /\ p \in Formed /\ titled \in Formed /\ Extends(p, zoned) /\ zoned \in Formed
              /\ Extends(zoned, dated) /\ dated \in Formed /\ Extends(dated, titled)
          BY <1>1, <1>2, <4>1, ProgressIs DEF Progress
        <5>2. Extends(zoned, titled)
          BY <5>1, ExtendsTrans
        <5> QED BY <5>1, <5>2, ExtendsTrans
      <4> QED BY <1>2, <1>10, <4>1
    <3> QED BY <1>2, <1>3, <3>1, FormedType DEF Extends
  <2>2. ASSUME NEW b \in DOMAIN q, q[b].text = Identity(r.key) PROVE FALSE
    <3>1. b \in DOMAIN written /\ written[b].text = Identity(r.key) /\ b \in 1 .. t
      BY <1>7, <2>1, <2>2
    <3>2. b = t + n
      BY <1>9, <3>1
    <3> QED BY <1>7, <1>8, <3>1, <3>2
  <2> QED BY <1>5, <1>10, <2>2 DEF Holders, q
<1>11. CASE i = 5
  <2>1. q = written
    BY <1>2, <1>11
  <2>2. ZoneOf(written) = zone
    BY <1>3, HeldIsFound DEF ZoneOf, Completion
  <2>3. /\ written[date] = Z!Block(zone, "toggle", r.date)
        /\ written[t] = Z!Block(date, "toggle", r.topic)
        /\ \A k \in 1 .. n : written[t + k] = Z!Block(t, "paragraph", Z!SectionLines(r)[k])
    BY <1>3 DEF Completion, Held, n
  <2>4. ASSUME NEW b \in DOMAIN written PROVE written[b].parent = t <=> b \in t + 1 .. t + n
    <3>1. ASSUME b \in t + 1 .. t + n PROVE written[b].parent = t
      <4>1. b - t \in 1 .. n /\ b = t + (b - t)
        BY <1>7, <3>1
      <4> QED BY <1>6, <4>1
    <3>2. ASSUME written[b].parent = t PROVE b \in t + 1 .. t + n
      <4>1. b \in 1 .. t + n /\ t < b /\ b \in Nat
        BY <1>3, <1>7, <3>2 DEF Formed
      <4> QED BY <1>7, <4>1
    <3> QED BY <3>1, <3>2
  <2>5. {b \in DOMAIN written : written[b].parent = t} = t + 1 .. t + n
    <3>1. \A b \in t + 1 .. t + n : b \in DOMAIN written
      BY <1>7
    <3> QED BY <2>4, <3>1
  <2>6. SectionAt(written, r, t)
    BY <1>7, <2>2, <2>3, <2>5 DEF SectionAt, n
  <2>7. Holders(written, r) = {t + n}
    <3>1. n \in 1 .. n /\ t + n \in DOMAIN written
      BY <1>7, <1>8
    <3>2. written[t + n].text = Identity(r.key)
      BY <1>6, <1>8, <3>1
    <3> QED BY <1>9, <3>1, <3>2 DEF Holders
  <2> QED BY <1>5, <1>7, <1>11, <2>1, <2>6, <2>7 DEF q
<1> QED BY <1>2, <1>10, <1>11

\* Appends of other requests, today or on another day, and repeated ones of the same,
\* leave a section as it is: nothing is put below its topic.
THEOREM SectionsAreKept ==
  ASSUME ZoneAssumption, NEW p \in Formed, NEW r \in Accepted, NEW i \in DOMAIN Z!Stages(p, r),
         NEW other \in Accepted, NEW s, SectionAt(p, other, s)
  PROVE  SectionAt(Z!Stages(p, r)[i], other, s)
<1> DEFINE q == Z!Stages(p, r)[i]
           m == Len(Z!SectionLines(other))
<1>1. CASE Holders(p, r) # {}
  <2>1. q = p
    BY <1>1, StagesAre
  <2> QED BY <2>1
<1>2. CASE Holders(p, r) = {}
  <2>1. PICK zoned, zone, dated, date, titled, written :
           /\ Progress(p, r, zoned, zone, dated, date, titled, written)
           /\ Z!Stages(p, r) = <<p, zoned, dated, titled, written>>
    BY <1>2, StagesAre
  <2> DEFINE t == Len(titled)
             n == Len(Z!SectionLines(r))
  <2>2. q \in Formed /\ Extends(p, q) /\ Extends(q, written)
    BY <2>1, StageIs
  <2>3. /\ written \in Formed /\ Completion(r, zone, date, t, written)
    BY <2>1, ProgressIs DEF Progress
  <2>4. \A b \in DOMAIN written \ DOMAIN p : Needed(p, zoned, r, zone, date, t, b)
    BY <2>1, ProgressIs
  <2>5. /\ written[zone].parent = 0 /\ written[date].parent = zone /\ written[t].parent = date
        /\ \A k \in 1 .. n : written[t + k].parent = t
    BY <2>3, CompletionFields
  <2>6. p \in Formed /\ dated \in Formed /\ Extends(p, dated) /\ t = Len(dated) + 1 /\ date \in DOMAIN dated
    <3>1. p \in Formed /\ zoned \in Formed /\ dated \in Formed
      BY <2>1 DEF Progress
    <3>2. Extends(p, zoned) /\ Extends(zoned, dated)
      BY <2>1, ProgressIs
    <3>3. Len(titled) = Len(dated) + 1
      <4>1. Appended(dated, titled, date, "toggle", <<r.topic>>)
        BY <2>1 DEF Progress
      <4>2. Len(titled) = Len(dated) + Len(<<r.topic>>)
        BY <4>1 DEF Appended
      <4> QED BY <4>2
    <3>4. date \in DOMAIN dated
      BY <2>1, ProgressIs
    <3> QED BY <3>1, <3>2, <3>3, <3>4, ExtendsTrans
  <2> HIDE DEF q, t, n
  <2> DEFINE z == ZoneOf(p)
  <2>7. Held(p, Z!ThePage, Zone, z)
    <3>1. z \in DOMAIN p
      BY DEF SectionAt
    <3>2. z # NotFound
      BY <2>6, <3>1, FormedType DEF ZoneAssumption
    <3> QED BY <3>2, ContainerIs DEF ZoneOf
  <2>8. ZoneOf(q) = z /\ Held(written, Z!ThePage, Zone, z)
    <3>1. Held(q, Z!ThePage, Zone, z)
      BY <2>2, <2>7, HeldStays
    <3>2. Held(written, Z!ThePage, Zone, z)
      BY <2>2, <2>3, <3>1, HeldStays
    <3> QED BY <2>2, <3>1, <3>2, HeldIsFound DEF ZoneOf
  <2>9. zone = z
    BY <2>3, <2>8, HeldIsFound DEF Completion
  <2>10. PICK d \in DOMAIN p : /\ p[d] = Z!Block(z, "toggle", other.date)
                               /\ p[s] = Z!Block(d, "toggle", other.topic)
    BY DEF SectionAt
  <2>11. /\ s \in DOMAIN p /\ z \in DOMAIN p
         /\ {b \in DOMAIN p : p[b].parent = s} = s + 1 .. s + m
         /\ \A k \in 1 .. m : p[s + k] = Z!Block(s, "paragraph", Z!SectionLines(other)[k])
    BY DEF SectionAt
  <2> HIDE DEF z, m
  <2>12. p[s].parent = d /\ p[d].parent = z /\ z \in Nat /\ d \in Nat /\ s \in Nat /\ z < d /\ d < s /\ z # 0
    <3>1. p[s].parent = d /\ p[d].parent = z
      BY <2>10 DEF Z!Block
    <3>2. DOMAIN p = 1 .. Len(p) /\ Len(p) \in Nat /\ \A b \in DOMAIN p : p[b].parent < b
      BY <2>6, FormedType DEF Formed
    <3> QED BY <2>10, <2>11, <3>1, <3>2
  <2>13. /\ DOMAIN p = 1 .. Len(p) /\ Len(p) \in Nat /\ DOMAIN q = 1 .. Len(q) /\ Len(q) \in Nat
         /\ Len(p) <= Len(q) /\ \A b \in DOMAIN p : b \in DOMAIN q /\ q[b] = p[b]
         /\ \A b \in DOMAIN q : b \in DOMAIN written /\ written[b] = q[b]
         /\ Len(p) < t
    BY <2>2, <2>3, <2>6, FormedType DEF Extends
  \* No new block is below s.
  <2>14. ASSUME NEW b \in DOMAIN q, b \notin DOMAIN p PROVE q[b].parent # s
    <3>1. b \in DOMAIN written /\ written[b] = q[b] /\ Needed(p, zoned, r, zone, date, t, b)
      BY <2>4, <2>13, <2>14
    <3>2. CASE b = zone
      BY <2>5, <2>12, <3>1, <3>2
    <3>3. CASE b = date
      BY <2>5, <2>9, <2>12, <3>1, <3>3
    <3>4. CASE b = t
      <4>1. s # date
        <5>1. s \in DOMAIN q /\ q[s] = p[s] /\ written[s] = q[s]
          BY <2>11, <2>13
        <5>2. written[s].parent = d /\ d # zone
          BY <2>9, <2>12, <5>1
        <5> QED BY <2>5, <5>2
      <4> QED BY <2>5, <3>1, <3>4, <4>1
    <3>5. ASSUME NEW k \in 1 .. n, b = t + k PROVE q[b].parent # s
      <4>1. q[b].parent = t
        BY <2>5, <3>1, <3>5
      <4>2. s < t
        BY <2>11, <2>13, <2>12, <2>3 DEF Completion
      <4> QED BY <2>12, <4>1, <4>2
    <3> QED BY <3>1, <3>2, <3>3, <3>4, <3>5 DEF Needed, n
  <2>15. {b \in DOMAIN q : q[b].parent = s} = {b \in DOMAIN p : p[b].parent = s}
    BY <2>13, <2>14
  <2>16. q[d] = p[d] /\ q[s] = p[s] /\ d \in DOMAIN q /\ s \in DOMAIN q /\ z \in DOMAIN q
    BY <2>10, <2>11, <2>13
  <2>17. \A k \in 1 .. m : q[s + k] = Z!Block(s, "paragraph", Z!SectionLines(other)[k])
    <3> SUFFICES ASSUME NEW k \in 1 .. m
                 PROVE  q[s + k] = Z!Block(s, "paragraph", Z!SectionLines(other)[k])
      OBVIOUS
    <3>1. m \in Nat
      BY LinesOf DEF m
    <3>2. s + k \in s + 1 .. s + m
      BY <2>12, <3>1
    <3>3. s + k \in DOMAIN p
      BY <2>11, <3>2
    <3> QED BY <2>11, <2>13, <3>3
  <2> QED BY <2>8, <2>10, <2>11, <2>15, <2>16, <2>17 DEF SectionAt, q, m
<1> QED BY <1>1, <1>2

\* The client reports one block more than it has appended, whatever it appends.
THEOREM ClientCountsOneMore ==
  ASSUME ZoneAssumption, NEW p \in Formed, NEW r \in Accepted, Holders(p, r) = {}
  PROVE  LET stages == Z!Stages(p, r) IN
         Z!AppendedCount(p, r) = Len(stages[Len(stages)]) - Len(p) + 1
<1>1. PICK zoned, zone, dated, date, titled, written :
           /\ Progress(p, r, zoned, zone, dated, date, titled, written)
           /\ Z!Stages(p, r) = <<p, zoned, dated, titled, written>>
  BY StagesAre
<1>2. /\ Len(titled) = Len(dated) + 1
      /\ Len(written) = Len(titled) + Len(Z!SectionLines(r)) /\ Len(Z!SectionLines(r)) \in Nat
  <2>1. Len(titled) = Len(dated) + 1 /\ Completion(r, zone, date, Len(titled), written)
    BY <1>1, ProgressIs
  <2> QED BY <2>1 DEF Completion
<1>3. Len(dated) \in Nat /\ Len(p) \in Nat
  BY <1>1, FormedType DEF Progress
<1>4. Len(Z!Stages(p, r)) = 5 /\ Z!Stages(p, r)[3] = dated /\ Z!Stages(p, r)[5] = written
  BY <1>1
<1> QED BY <1>2, <1>3, <1>4 DEF Z!AppendedCount
=============================================================================
