----------------------------- MODULE Knowledge ------------------------------
(***************************************************************************)
(* Questions answered from the index while it is replaced: a question is   *)
(* embedded, matched with the chunks by vector or by words, and given to   *)
(* the model with the chunks found (qa_orchestrator, rag/retriever,        *)
(* repositories/chunk_repository).  A call reads the chunks in the one     *)
(* transaction of its session; its run is a row of its own session.        *)
(***************************************************************************)
EXTENDS PageIndex

CONSTANTS
    Askers,    \* the processes that answer questions, one each
    TopK,      \* chunks given to the model
    MaxLost    \* bound: audit writes that raise

ASSUME AskersAssumption == TopK \in Nat \ {0} /\ MaxLost \in Nat

VARIABLES
    postgres,   \* is the database PostgreSQL, with vectors?
    ask,        \* what each call knows
    step,       \* what it does next
    run,        \* its row of workflow_runs
    reply,      \* what was answered
    lost        \* audit writes that raised

askVars == <<ask, step, run, reply, lost>>
vars == <<indexVars, postgres, askVars>>

-----------------------------------------------------------------------------
\* A provider that fails and one that returns no usable vector are one reason.
Reasons == {"none", "not configured", "provider error", "query failed", "no vectors"}

\* "aborted" is the state of the transaction; "indexed" the pages whose chunks
\* were in the index when the vectors were compared (history).
Asks ==
    [scope : SUBSET Pages, vector : BOOLEAN, mode : {"lexical", "vector"}, reason : Reasons,
     aborted : BOOLEAN, indexed : SUBSET Pages, found : SUBSET (Pages \X Chunks)]

NoAsk == [scope |-> {}, vector |-> FALSE, mode |-> "lexical", reason |-> "none",
          aborted |-> FALSE, indexed |-> {}, found |-> {}]

AskSteps == {"idle", "embed", "compare", "match", "answer", "succeed", "fail", "done"}
Replies == {"none", "answer", "no information", "retrieval error", "model error", "audit error"}

TypeOK ==
    /\ IndexTypeOK
    /\ postgres \in BOOLEAN
    /\ ask \in [Askers -> Asks]
    /\ step \in [Askers -> AskSteps]
    /\ run \in [Askers -> {"none", "running", "succeeded", "failed"}]
    /\ reply \in [Askers -> Replies]
    /\ lost \in Nat

Init ==
    /\ IndexInit
    /\ postgres \in BOOLEAN
    /\ ask = [a \in Askers |-> NoAsk]
    /\ step = [a \in Askers |-> "idle"]
    /\ run = [a \in Askers |-> "none"]
    /\ reply = [a \in Askers |-> "none"]
    /\ lost = 0

Continue(a, next) == step' = [step EXCEPT ![a] = next]

\* The row, whose metadata is what the call then knows of itself.
Close(a, status) == run' = [run EXCEPT ![a] = status]

-----------------------------------------------------------------------------
(* A question. *)

\* The pages a question is about; none named is all.
Scopes == SUBSET Pages \ {{}}

Ask(a) ==
    /\ step[a] = "idle"
    /\ \E scope \in Scopes : ask' = [ask EXCEPT ![a].scope = scope]
    /\ run' = [run EXCEPT ![a] = "running"]
    /\ Continue(a, "embed")
    /\ UNCHANGED <<indexVars, postgres, reply, lost>>

\* Without a vector the question is matched by its words.
EmbedQuestion(a) ==
    /\ step[a] = "embed"
    /\ \/ configured /\ ask' = [ask EXCEPT ![a].vector = TRUE]
       \/ ask' = [ask EXCEPT
            ![a].reason = IF configured THEN "provider error" ELSE "not configured"]
    /\ Continue(a, "compare")
    /\ UNCHANGED <<indexVars, postgres, run, reply, lost>>

\* Mutant: the chunks are not filtered by page.
CandidatesAnywhere(a) ==
    {m \in Pages \X UNION {index[p].chunks : p \in Pages} : m[2] \in index[m[1]].chunks}

InScope(a, p) == p \in ask[a].scope

Candidates(a) ==
    {m \in Pages \X UNION {index[p].chunks : p \in Pages} :
        InScope(a, m[1]) /\ m[2] \in index[m[1]].chunks}

Embedded(a) == {m \in Candidates(a) : m[2].vector # {}}

\* The TopK nearest chunks of the scope.
Nearest(a) ==
    LET all == Embedded(a)
        n == IF Cardinality(all) < TopK THEN Cardinality(all) ELSE TopK
    IN {found \in SUBSET all : Cardinality(found) = n}

Compare(a) ==
    /\ step[a] = "compare"
    /\ IF ask[a].vector /\ postgres
       THEN \E found \in Nearest(a) :
              /\ ask' = [ask EXCEPT ![a].found = found,
                                    ![a].mode = IF found = {} THEN "lexical" ELSE "vector",
                                    ![a].indexed = {m[1] : m \in Candidates(a)}]
              /\ Continue(a, IF found = {} THEN "match" ELSE "answer")
       ELSE Continue(a, "match") /\ UNCHANGED ask
    /\ UNCHANGED <<indexVars, postgres, run, reply, lost>>

\* An error of the query aborts the transaction.
CompareFails(a) ==
    /\ step[a] = "compare"
    /\ ask[a].vector /\ postgres
    /\ ask' = [ask EXCEPT ![a].aborted = TRUE, ![a].reason = "query failed"]
    /\ Continue(a, "match")
    /\ UNCHANGED <<indexVars, postgres, run, reply, lost>>

\* The chunks that share words with the question, at most TopK of them.  In an
\* aborted transaction PostgreSQL refuses the statement.
Match(a) ==
    /\ step[a] = "match"
    /\ IF ask[a].aborted
       THEN reply' = [reply EXCEPT ![a] = "retrieval error"] /\ Continue(a, "fail") /\ UNCHANGED ask
       ELSE /\ \E found \in SUBSET Candidates(a) :
                 /\ Cardinality(found) <= TopK
                 /\ ask' = [ask EXCEPT ![a].found = found,
                      ![a].reason = IF ask[a].vector /\ postgres /\ Candidates(a) # {}
                                    THEN "no vectors" ELSE @]
            /\ Continue(a, "answer") /\ UNCHANGED reply
    /\ UNCHANGED <<indexVars, postgres, run, lost>>

\* The model is asked only when something was found.
Answer(a) ==
    /\ step[a] = "answer"
    /\ IF ask[a].found = {}
       THEN reply' = [reply EXCEPT ![a] = "no information"] /\ Continue(a, "succeed")
       ELSE \/ reply' = [reply EXCEPT ![a] = "answer"] /\ Continue(a, "succeed")
            \/ reply' = [reply EXCEPT ![a] = "model error"] /\ Continue(a, "fail")
    /\ UNCHANGED <<indexVars, postgres, ask, run, lost>>

\* The run is closed before the answer leaves: a write that raises, applied or
\* not, takes its place.
Succeed(a) ==
    /\ step[a] = "succeed"
    /\ \/ Close(a, "succeeded") /\ UNCHANGED <<reply, lost>>
       \/ /\ lost < MaxLost /\ lost' = lost + 1
          /\ reply' = [reply EXCEPT ![a] = "audit error"]
          /\ Close(a, "succeeded") \/ UNCHANGED run
    /\ Continue(a, "done")
    /\ UNCHANGED <<indexVars, postgres, ask>>

\* Mutant: a failed question is closed as the owner reads it.
FailAsAnswered(a) ==
    /\ step[a] = "fail"
    /\ Close(a, reply[a])
    /\ Continue(a, "done")
    /\ UNCHANGED <<indexVars, postgres, ask, reply, lost>>

\* A write that raises here is swallowed.
Fail(a) ==
    /\ step[a] = "fail"
    /\ \/ Close(a, "failed") /\ UNCHANGED lost
       \/ lost < MaxLost /\ lost' = lost + 1 /\ UNCHANGED run
    /\ Continue(a, "done")
    /\ UNCHANGED <<indexVars, postgres, ask, reply>>

Question(a) ==
    \/ Ask(a) \/ EmbedQuestion(a) \/ Compare(a) \/ CompareFails(a) \/ Match(a)
    \/ Answer(a) \/ Succeed(a) \/ Fail(a)

Next ==
    \/ IndexNext /\ UNCHANGED <<postgres, askVars>>
    \/ \E a \in Askers : Question(a)

Spec == Init /\ [][Next]_vars

-----------------------------------------------------------------------------
(* Properties. *)

\* The index of a page is not older than its stamp says, in no part: no block
\* is older than when the page got the stamp, and a block that was not changed
\* since is where it was (fetch_page_tree reads the stamp first; the guard of
\* upsert_page_snapshot and every "is this page current?" rest on it).
StampCoversContent ==
    \A p \in Pages : index[p].stamp > 0 =>
        LET then == began[p][index[p].stamp] IN
        /\ \A r \in index[p].blocks : r.version >= then[r.block]
        /\ \A b \in Blocks : version[b] = then[b] /\ place[b] \in SectionsOf(p) =>
             [section |-> place[b], block |-> b, version |-> version[b]] \in index[p].blocks

\* The index of a page is of one reading: a chunk for each section, of the
\* blocks stored with it, found by its own vector; and a block is in the index
\* of one page only, below one section.
IndexIsWhole ==
    /\ \A p \in Pages : index[p].stamp > 0 =>
         /\ {c.section : c \in index[p].chunks} = SectionsOf(p)
         /\ \A c \in index[p].chunks :
              /\ c.text = {r \in index[p].blocks : r.section = c.section}
              /\ c.vector = {c.text}
    /\ \A p, q \in Pages : \A r \in index[p].blocks, s \in index[q].blocks :
         r.block = s.block => r = s

\* An answer rests on chunks of the pages asked about, and the run says how it
\* came about: "no information" only when nothing was found, an error never in
\* a run that succeeded, and "no vectors" only of pages indexed meanwhile.
AnswersTellTruth ==
    \A a \in Askers :
        /\ reply[a] = "answer" => ask[a].found # {} /\ \A m \in ask[a].found : m[1] \in ask[a].scope
        /\ reply[a] = "no information" => ask[a].found = {}
        /\ step[a] = "done" /\ reply[a] \in {"answer", "no information"} => run[a] = "succeeded"
        /\ reply[a] \in {"retrieval error", "model error"} => run[a] # "succeeded"
        /\ ask[a].mode = "vector" => ask[a].reason = "none" /\ ask[a].vector
        /\ ask[a].reason = "no vectors" => ask[a].indexed \cap ask[a].scope = {}

\* docs/05-rag-design.md: when the vector query is unavailable, the retriever
\* uses lexical ranking; "Fallback is a safe QA result".
FallbackAnswers == \A a \in Askers : reply[a] # "retrieval error"
=============================================================================
