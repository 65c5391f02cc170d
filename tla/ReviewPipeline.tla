--------------------------- MODULE ReviewPipeline ---------------------------
(***************************************************************************)
(* The human review of supplement proposals, from the reviewer's decision  *)
(* to what production retrieval can see.  Three stores that share no       *)
(* transaction take part:                                                  *)
(*                                                                         *)
(*   - Notion, where an accepted supplement is appended to a page;         *)
(*   - the change_requests rows of PostgreSQL (status, target page);       *)
(*   - the index of a page (its row, blocks, chunks, vectors), replaced as *)
(*     a whole by a prepared snapshot.                                     *)
(*                                                                         *)
(* A process is one operating-system process (the API server or an RQ      *)
(* worker) running one call at a time.  Reviewers run accept, reject,      *)
(* edit later and change target (supplement_review_orchestrator.py);       *)
(* indexers run the indexing of one page (notion_page_index_orchestrator   *)
(* .py) for a manual, incremental or full sync.  A step of a process is    *)
(* the code between two interactions with Notion or PostgreSQL.            *)
(*                                                                         *)
(* The content of a page is its version: the number of edits made to it.   *)
(* section[p][r] is the set of versions at which an edit appended the      *)
(* section of request r to p, so the content of p at version v has the     *)
(* section of r iff some b in section[p][r] is at most v.                  *)
(***************************************************************************)
EXTENDS Naturals, FiniteSets

CONSTANTS
    Requests,    \* change requests (rows of change_requests)
    Pages,       \* Notion pages that have been indexed once
    Reviewers,   \* processes that run review actions
    Indexers,    \* processes that index pages
    None,        \* no page, no process, no request
    StampSteps,  \* how far one edit can move a page's last_edited_time
    MaxVersion   \* bound: the edits made to one page

ASSUME ConstantsAssumption ==
    /\ None \notin Requests \cup Pages \cup Reviewers \cup Indexers
    /\ Reviewers \cap Indexers = {}
    /\ StampSteps \in (SUBSET {0, 1}) \ {{}}
    /\ MaxVersion \in Nat

VARIABLES
    status,      \* change_requests.status of each request
    target,      \* change_requests.target_notion_page_id of each request
    rowLock,     \* the process whose transaction holds the request's row lock
    version,     \* the edits made to each page in Notion
    stamp,       \* last_edited_time of each page in Notion
    section,     \* the edits that appended a request's section to a page
    index,       \* committed index of each page: stamp and version it was read at
    pageLock,    \* the process that holds the page's advisory lock
    pc,          \* what each process does next
    req,         \* the request a reviewer works on
    page,        \* the page a process works on
    snap         \* the snapshot a process has read of its page

requestVars == <<status, target>>
lockVars    == <<rowLock, pageLock>>
notionVars  == <<version, stamp, section>>
procVars    == <<pc, req, page, snap>>
vars == <<requestVars, lockVars, notionVars, index, procVars>>

-----------------------------------------------------------------------------
Procs == Reviewers \cup Indexers

Snapshots == [stamp : Nat, version : Nat]
NoSnap == [stamp |-> 0, version |-> 0]

\* Steps of the append tool, of snapshot preparation, and of the final
\* transaction; "reject" and "retarget" are the second half of those calls.
AppendSteps   == {"find", "containers", "section", "verify"}
PrepareSteps  == {"meta", "blocks", "prepared"}
PersistSteps  == {"persist", "commit"}
ReviewerSteps == {"idle", "reject", "retarget"}
                 \cup AppendSteps \cup PrepareSteps \cup PersistSteps
IndexerSteps  == {"idle", "commit"} \cup PrepareSteps

TypeOK ==
    /\ status \in [Requests -> {"pending", "accepted", "rejected"}]
    /\ target \in [Requests -> Pages \cup {None}]
    /\ rowLock \in [Requests -> Reviewers \cup {None}]
    /\ version \in [Pages -> Nat]
    /\ stamp \in [Pages -> Nat]
    /\ section \in [Pages -> [Requests -> SUBSET Nat]]
    /\ index \in [Pages -> Snapshots]
    /\ pageLock \in [Pages -> Procs \cup {None}]
    /\ pc \in [Procs -> ReviewerSteps]
    /\ \A i \in Indexers : pc[i] \in IndexerSteps
    /\ req \in [Procs -> Requests \cup {None}]
    /\ page \in [Procs -> Pages \cup {None}]
    /\ snap \in [Procs -> Snapshots]

Init ==
    /\ status = [r \in Requests |-> "pending"]
    /\ target \in [Requests -> Pages \cup {None}]
    /\ rowLock = [r \in Requests |-> None]
    /\ version = [p \in Pages |-> 0]
    /\ stamp = [p \in Pages |-> 0]
    /\ section = [p \in Pages |-> [r \in Requests |-> {}]]
    /\ index = [p \in Pages |-> NoSnap]
    /\ pageLock = [p \in Pages |-> None]
    /\ pc = [w \in Procs |-> "idle"]
    /\ req = [w \in Procs |-> None]
    /\ page = [w \in Procs |-> None]
    /\ snap = [w \in Procs |-> NoSnap]

-----------------------------------------------------------------------------
(* What the steps are made of. *)

Goto(w, step) == pc' = [pc EXCEPT ![w] = step]

\* The call of w ends; its locals are gone.
Return(w) ==
    /\ pc' = [pc EXCEPT ![w] = "idle"]
    /\ req' = [req EXCEPT ![w] = None]
    /\ page' = [page EXCEPT ![w] = None]
    /\ snap' = [snap EXCEPT ![w] = NoSnap]

\* Mutant: the page lock outlives its transaction.
EndTransactionKeepingPage(w) ==
    /\ rowLock' = [r \in Requests |-> IF rowLock[r] = w THEN None ELSE rowLock[r]]
    /\ UNCHANGED pageLock

\* The end of a transaction, by commit or by rollback, frees both locks.
EndTransaction(w) ==
    /\ rowLock' = [r \in Requests |-> IF rowLock[r] = w THEN None ELSE rowLock[r]]
    /\ pageLock' = [p \in Pages |-> IF pageLock[p] = w THEN None ELSE pageLock[p]]

\* One PATCH applied by Notion, or one edit by a user.  A user may edit the
\* page at any time, but leaves the appended sections in place.
Edit(p) ==
    /\ version[p] < MaxVersion
    /\ version' = [version EXCEPT ![p] = @ + 1]
    /\ \E d \in StampSteps : stamp' = [stamp EXCEPT ![p] = @ + d]

\* Does the content of p at version v have a section of r?
HasSection(p, r, v) == \E b \in section[p][r] : b <= v

UserEdit(p) ==
    /\ Edit(p)
    /\ UNCHANGED <<requestVars, lockVars, section, index, procVars>>

-----------------------------------------------------------------------------
(* Accept, first part: the append.  The status is read without a lock and  *)
(* the target is captured before anything is written to Notion.            *)

StartAccept(w, r) ==
    /\ pc[w] = "idle"
    /\ status[r] = "pending"
    /\ target[r] # None
    /\ req' = [req EXCEPT ![w] = r]
    /\ page' = [page EXCEPT ![w] = target[r]]
    /\ Goto(w, "find")
    /\ UNCHANGED <<requestVars, lockVars, notionVars, index, snap>>

\* Mutant: the append does not look for the identity first.
FindNothing(w) ==
    /\ pc[w] = "find"
    /\ Goto(w, "containers")
    /\ UNCHANGED <<requestVars, lockVars, notionVars, index, req, page, snap>>

\* A section with the identity of the request makes the append a replay.
FindIdentity(w) ==
    /\ pc[w] = "find"
    /\ Goto(w, IF HasSection(page[w], req[w], version[page[w]])
               THEN "verify" ELSE "containers")
    /\ UNCHANGED <<requestVars, lockVars, notionVars, index, req, page, snap>>

\* The PATCHes that create the zone and date toggles when they are missing,
\* and the topic toggle: none of them carries the identity.
CreateContainers(w) ==
    /\ pc[w] = "containers"
    /\ Edit(page[w])
    /\ Goto(w, "section")
    /\ UNCHANGED <<requestVars, lockVars, section, index, req, page, snap>>

\* The PATCH that appends every line of the section, the identity included.
AppendSection(w) ==
    /\ pc[w] = "section"
    /\ Edit(page[w])
    /\ section' = [section EXCEPT ![page[w]][req[w]] = @ \cup {version[page[w]] + 1}]
    /\ Goto(w, "verify")
    /\ UNCHANGED <<requestVars, lockVars, index, req, page, snap>>

\* Read-after-write: the identity is visible on the page.
VerifyAppend(w) ==
    /\ pc[w] = "verify"
    /\ HasSection(page[w], req[w], version[page[w]])
    /\ Goto(w, "meta")
    /\ UNCHANGED <<requestVars, lockVars, notionVars, index, req, page, snap>>

-----------------------------------------------------------------------------
(* Snapshot preparation, of an accept and of an indexer: the reader takes  *)
(* last_edited_time from the page object, then reads the block tree in     *)
(* later requests; chunking and embedding happen outside any transaction.  *)

StartIndex(i, p) ==
    /\ pc[i] = "idle"
    /\ page' = [page EXCEPT ![i] = p]
    /\ Goto(i, "meta")
    /\ UNCHANGED <<requestVars, lockVars, notionVars, index, req, snap>>

ReadMeta(w) ==
    /\ pc[w] = "meta"
    /\ snap' = [snap EXCEPT ![w].stamp = stamp[page[w]]]
    /\ Goto(w, "blocks")
    /\ UNCHANGED <<requestVars, lockVars, notionVars, index, req, page>>

ReadBlocks(w) ==
    /\ pc[w] = "blocks"
    /\ snap' = [snap EXCEPT ![w].version = version[page[w]]]
    /\ Goto(w, "prepared")
    /\ UNCHANGED <<requestVars, lockVars, notionVars, index, req, page>>

-----------------------------------------------------------------------------
(* The final transaction.  Accept locks its row and revalidates the status *)
(* (not the target) before it replaces the index of the captured page; an  *)
(* indexer starts at the page lock.                                        *)

\* Mutant: the row is locked, the status is not revalidated.
LockAnyRequest(w) ==
    /\ w \in Reviewers /\ pc[w] = "prepared"
    /\ rowLock[req[w]] = None
    /\ rowLock' = [rowLock EXCEPT ![req[w]] = w]
    /\ Goto(w, "persist")
    /\ UNCHANGED <<requestVars, pageLock, notionVars, index, req, page, snap>>

LockRequest(w) ==
    /\ w \in Reviewers /\ pc[w] = "prepared"
    /\ rowLock[req[w]] = None
    /\ status[req[w]] = "pending"
    /\ rowLock' = [rowLock EXCEPT ![req[w]] = w]
    /\ Goto(w, "persist")
    /\ UNCHANGED <<requestVars, pageLock, notionVars, index, req, page, snap>>

\* Decided meanwhile: INVALID_STATE_TRANSITION, after the append.
RefuseAccept(w) ==
    /\ w \in Reviewers /\ pc[w] = "prepared"
    /\ rowLock[req[w]] = None
    /\ status[req[w]] # "pending"
    /\ Return(w)
    /\ UNCHANGED <<requestVars, lockVars, notionVars, index>>

AtPageLock(w) ==
    /\ pc[w] = IF w \in Reviewers THEN "persist" ELSE "prepared"
    /\ pageLock[page[w]] = None

\* Mutant: the stamps are not compared.
NeverStale(w) == FALSE

Stale(w) == snap[w].stamp < index[page[w]].stamp

LockPage(w) ==
    /\ AtPageLock(w)
    /\ ~Stale(w)
    /\ pageLock' = [pageLock EXCEPT ![page[w]] = w]
    /\ Goto(w, "commit")
    /\ UNCHANGED <<requestVars, rowLock, notionVars, index, req, page, snap>>

\* STALE_PAGE_SNAPSHOT: the transaction rolls back, an accept stays pending.
RefuseStale(w) ==
    /\ AtPageLock(w)
    /\ Stale(w)
    /\ EndTransaction(w)
    /\ Return(w)
    /\ UNCHANGED <<requestVars, notionVars, index>>

CommitIndex(i) ==
    /\ i \in Indexers /\ pc[i] = "commit"
    /\ index' = [index EXCEPT ![page[i]] = snap[i]]
    /\ EndTransaction(i)
    /\ Return(i)
    /\ UNCHANGED <<requestVars, notionVars>>

\* Mutant: the accept does not persist the snapshot it prepared.
CommitStatusOnly(w) ==
    /\ w \in Reviewers /\ pc[w] = "commit"
    /\ status' = [status EXCEPT ![req[w]] = "accepted"]
    /\ EndTransaction(w)
    /\ Return(w)
    /\ UNCHANGED <<target, notionVars, index>>

CommitAccept(w) ==
    /\ w \in Reviewers /\ pc[w] = "commit"
    /\ index' = [index EXCEPT ![page[w]] = snap[w]]
    /\ status' = [status EXCEPT ![req[w]] = "accepted"]
    /\ EndTransaction(w)
    /\ Return(w)
    /\ UNCHANGED <<target, notionVars>>

-----------------------------------------------------------------------------
(* Reject and edit later read the row without a lock.  The UPDATE of a     *)
(* reject waits for the row's lock and then writes by primary key, whatever*)
(* the status has become.  Edit later assigns the status it has just read, *)
(* for which the ORM emits no UPDATE.                                      *)

StartReject(w, r) ==
    /\ pc[w] = "idle"
    /\ status[r] = "pending"
    /\ req' = [req EXCEPT ![w] = r]
    /\ Goto(w, "reject")
    /\ UNCHANGED <<requestVars, lockVars, notionVars, index, page, snap>>

\* Mutant: the write does not wait for the row's lock.
WriteRejectAtOnce(w) ==
    /\ pc[w] = "reject"
    /\ status' = [status EXCEPT ![req[w]] = "rejected"]
    /\ Return(w)
    /\ UNCHANGED <<target, lockVars, notionVars, index>>

WriteReject(w) ==
    /\ pc[w] = "reject"
    /\ rowLock[req[w]] = None
    /\ status' = [status EXCEPT ![req[w]] = "rejected"]
    /\ Return(w)
    /\ UNCHANGED <<target, lockVars, notionVars, index>>

\* Mutant: edit later writes a status of its own.
EditLaterStatus(w, r) ==
    /\ pc[w] = "idle"
    /\ status[r] = "pending"
    /\ status' = [status EXCEPT ![r] = "edit_later"]
    /\ UNCHANGED <<target, lockVars, notionVars, index, procVars>>

EditLater(w, r) ==
    /\ pc[w] = "idle"
    /\ status[r] = "pending"
    /\ UNCHANGED vars

\* Change target locks the row and writes only if the request is pending.
LockTarget(w, r, p) ==
    /\ pc[w] = "idle"
    /\ rowLock[r] = None
    /\ status[r] = "pending"
    /\ rowLock' = [rowLock EXCEPT ![r] = w]
    /\ req' = [req EXCEPT ![w] = r]
    /\ page' = [page EXCEPT ![w] = p]
    /\ Goto(w, "retarget")
    /\ UNCHANGED <<requestVars, pageLock, notionVars, index, snap>>

CommitTarget(w) ==
    /\ pc[w] = "retarget"
    /\ target' = [target EXCEPT ![req[w]] = page[w]]
    /\ EndTransaction(w)
    /\ Return(w)
    /\ UNCHANGED <<status, notionVars, index>>

-----------------------------------------------------------------------------
(* A call ends early: a Notion read or PATCH fails or times out, whether   *)
(* or not the PATCH before it took effect; the identity is not visible; a  *)
(* chunk cannot be embedded; a statement fails; the process dies.  The     *)
(* transaction is rolled back and nothing done to Notion is undone.        *)
Abort(w) ==
    /\ pc[w] # "idle"
    /\ EndTransaction(w)
    /\ Return(w)
    /\ UNCHANGED <<requestVars, notionVars, index>>

\* A call that is under way goes on.
Advance(w) ==
    \/ FindIdentity(w) \/ CreateContainers(w) \/ AppendSection(w) \/ VerifyAppend(w)
    \/ ReadMeta(w) \/ ReadBlocks(w)
    \/ LockRequest(w) \/ RefuseAccept(w)
    \/ LockPage(w) \/ RefuseStale(w) \/ CommitIndex(w) \/ CommitAccept(w)
    \/ WriteReject(w) \/ CommitTarget(w)

Step(w) == Advance(w) \/ Abort(w)

\* A new call.
Call(w) ==
    \/ /\ w \in Reviewers
       /\ \E r \in Requests :
             \/ StartAccept(w, r) \/ StartReject(w, r) \/ EditLater(w, r)
             \/ \E p \in Pages : LockTarget(w, r, p)
    \/ w \in Indexers /\ \E p \in Pages : StartIndex(w, p)

Next ==
    \/ \E p \in Pages : UserEdit(p)
    \/ \E w \in Procs : Call(w) \/ Step(w)

Spec == Init /\ [][Next]_vars

\* Notion refuses the PATCH that would exceed the bound on edits.
PatchRefused(w) ==
    /\ pc[w] \in {"containers", "section"}
    /\ version[page[w]] = MaxVersion
    /\ Abort(w)

\* Every Notion request is bounded by a transport timeout and every job by a
\* job timeout, and PostgreSQL grants a lock in the order it was requested:
\* a call that could go on again and again does go on.  No call has to abort
\* otherwise, and a call that waits for a lock waits as long as it is held.
Fairness == \A w \in Procs : SF_vars(Advance(w) \/ PatchRefused(w))

FairSpec == Spec /\ Fairness

-----------------------------------------------------------------------------
(* Properties. *)

\* The requests whose content production retrieval can return.
Searchable == {r \in Requests : \E p \in Pages : HasSection(p, r, index[p].version)}

\* While a transaction holds the row of a request, between its revalidation
\* and its commit, nobody decides the request: neither the UPDATE of a reject
\* that read "pending" earlier nor another accept.
LockedRequestIsPending ==
    \A r \in Requests : rowLock[r] # None => status[r] = "pending"

\* Content a reviewer has been told is accepted is in the index of a page,
\* and no snapshot read before the append ever replaces that index.  Needs a
\* last_edited_time that moves with every edit.
AcceptedIndexed ==
    \A r \in Requests : status[r] = "accepted" => r \in Searchable

\* However often an accept is aborted and retried, by one reviewer at a time,
\* the section of a request is appended to a page at most once.
RetryAppendsOnce ==
    \A p \in Pages, r \in Requests : Cardinality(section[p][r]) <= 1

\* A request is accepted only from pending, rejected is final, and the target
\* of a decided request never changes, whatever races with what.
DecisionsHold ==
    [][\A r \in Requests :
          /\ status'[r] = "accepted" => status[r] \in {"pending", "accepted"}
          /\ status[r] = "rejected" => status'[r] = "rejected"
          /\ target'[r] # target[r] => status[r] = "pending" /\ status'[r] = "pending"]_vars

\* Every call returns: no two transactions wait for each other's locks, and no
\* call leaves a lock behind.
EveryCallReturns ==
    \A w \in Procs : pc[w] # "idle" ~> pc[w] = "idle"

\* The pipeline implements the abstract review lifecycle.
Lifecycle == INSTANCE ReviewLifecycle WITH searchable <- Searchable
LifecycleSpec == Lifecycle!Spec

-----------------------------------------------------------------------------
(* What the documentation says and the code does not keep. *)

\* docs/02-workflows.md, review transitions: the only ways to leave a status
\* start at pending, so a request that has been accepted stays accepted.
AcceptedIsFinal ==
    [][\A r \in Requests : status[r] = "accepted" => status'[r] = "accepted"]_vars
=============================================================================
