----------------------------- MODULE PageIndex ------------------------------
(***************************************************************************)
(* From the pages of Notion, which people edit, to the index of each page. *)
(*                                                                         *)
(*   - A page is an outline of sections; a section is a toggle or heading  *)
(*     whose children are read with one request.  A block is the child of  *)
(*     one section, and may be edited or moved to another, of any page.    *)
(*   - An indexer reads the metadata of a page, then its sections one      *)
(*     after the other, makes a chunk of each, has the chunks embedded     *)
(*     batch by batch, and replaces the index of the page in one           *)
(*     transaction (ReviewPipeline takes that transaction apart).          *)
(*                                                                         *)
(* A text is the set of the blocks below a section, each with the number   *)
(* of changes made to it.                                                  *)
(***************************************************************************)
EXTENDS EmbeddingBatches

CONSTANTS
    Pages, Sections, Blocks,
    Outline,       \* the sections of each page, in their order
    Indexers,      \* the processes that index pages
    MaxAttempts,   \* requests made for one batch
    MaxEdits       \* bound: changes to one block

ASSUME PagesAssumption ==
    /\ Pages # {} /\ IsFiniteSet(Pages)
    /\ Outline \in [Pages -> Seq(Sections)]
    /\ \A p, q \in Pages : \A i \in DOMAIN Outline[p], j \in DOMAIN Outline[q] :
         Outline[p][i] = Outline[q][j] => p = q /\ i = j
    /\ \A p \in Pages : Len(Outline[p]) > 0
    /\ MaxAttempts \in Nat \ {0} /\ MaxEdits \in Nat

VARIABLES
    configured,   \* is there an embedding provider?
    place,        \* the section each block is a child of
    version,      \* the changes made to each block
    began,        \* the versions of all blocks when a page got each of its stamps
    index,        \* the row, blocks and chunks of each page
    pc,           \* what each indexer does next
    job           \* its page, and what it has read and made of it

notion == <<place, version, began>>
indexVars == <<configured, notion, index, pc, job>>

-----------------------------------------------------------------------------
NoRow == [stamp |-> 0, blocks |-> {}, chunks |-> {}]
SectionsOf(p) == {Outline[p][i] : i \in DOMAIN Outline[p]}

\* last_edited_time: it may stay as it is when a block changes.
Stamp(p) == Len(began[p])

Reads == [section : Sections, block : Blocks, version : Nat]

\* A chunk: the text it was cut from, and the text its vector is of, if any.
Chunks == [section : Sections, text : SUBSET Reads, vector : SUBSET SUBSET Reads]
Rows == [stamp : Nat, blocks : SUBSET Reads, chunks : SUBSET Chunks]

\* The batches are of ordinals, and a vector is of the text of an ordinal.
Jobs ==
    [page : Pages, stamp : Nat, blocks : SUBSET Reads, next : Nat,
     batches : Seq(Seq(Nat)), vectors : SUBSET (Nat \X SUBSET Reads), attempts : Nat]

NoJob ==
    [page |-> CHOOSE p \in Pages : TRUE, stamp |-> 0, blocks |-> {}, next |-> 0,
     batches |-> <<>>, vectors |-> {}, attempts |-> 0]

Steps == {"idle", "metadata", "sections", "prepare", "embed", "persist"}

IndexTypeOK ==
    /\ configured \in BOOLEAN
    /\ place \in [Blocks -> Sections]
    /\ version \in [Blocks -> Nat]
    /\ began \in [Pages -> Seq([Blocks -> Nat])]
    /\ index \in [Pages -> Rows]
    /\ pc \in [Indexers -> Steps]
    /\ job \in [Indexers -> Jobs]

IndexInit ==
    /\ configured \in BOOLEAN
    /\ place \in [Blocks -> Sections]
    /\ version = [b \in Blocks |-> 0]
    /\ began = [p \in Pages |-> <<version>>]
    /\ index = [p \in Pages |-> NoRow]
    /\ pc = [w \in Indexers |-> "idle"]
    /\ job = [w \in Indexers |-> NoJob]

Goto(w, step) == pc' = [pc EXCEPT ![w] = step]
Return(w) == Goto(w, "idle") /\ job' = [job EXCEPT ![w] = NoJob]

-----------------------------------------------------------------------------
(* The people who write the notes. *)

\* A block is edited, or moved as well; the pages it leaves or joins get a new
\* stamp, or keep the one of the same minute.
Change(b, s) ==
    /\ version[b] < MaxEdits
    /\ version' = [version EXCEPT ![b] = @ + 1]
    /\ place' = [place EXCEPT ![b] = s]
    /\ \E new \in SUBSET {p \in Pages : {place[b], s} \cap SectionsOf(p) # {}} :
         began' = [p \in Pages |-> IF p \in new THEN Append(began[p], version') ELSE began[p]]
    /\ UNCHANGED <<configured, index, pc, job>>

-----------------------------------------------------------------------------
(* Reading a page. *)

StartIndex(w, p) ==
    /\ pc[w] = "idle"
    /\ job' = [job EXCEPT ![w] = [NoJob EXCEPT !.page = p]]
    /\ Goto(w, "metadata")
    /\ UNCHANGED <<configured, notion, index>>

ReadMetadata(w) ==
    /\ pc[w] = "metadata"
    /\ job' = [job EXCEPT ![w].stamp = Stamp(job[w].page), ![w].next = 1]
    /\ Goto(w, "sections")
    /\ UNCHANGED <<configured, notion, index>>

Children(s) ==
    {[section |-> s, block |-> b, version |-> version[b]] : b \in {c \in Blocks : place[c] = s}}

\* Mutant: the metadata is taken once more when all has been read.
ReadSectionThenStamp(w) ==
    /\ pc[w] = "sections"
    /\ LET p == job[w].page  i == job[w].next IN
         /\ job' = [job EXCEPT ![w].blocks = @ \cup Children(Outline[p][i]), ![w].next = i + 1,
                               ![w].stamp = Stamp(p)]
         /\ Goto(w, IF i = Len(Outline[p]) THEN "prepare" ELSE "sections")
    /\ UNCHANGED <<configured, notion, index>>

\* One request per section: what it lists is what is there by then.
ReadSection(w) ==
    /\ pc[w] = "sections"
    /\ LET p == job[w].page  i == job[w].next IN
         /\ job' = [job EXCEPT ![w].blocks = @ \cup Children(Outline[p][i]), ![w].next = i + 1]
         /\ Goto(w, IF i = Len(Outline[p]) THEN "prepare" ELSE "sections")
    /\ UNCHANGED <<configured, notion, index>>

\* Requests are repeated by the reader; one that fails for good ends the call.
ReaderFails(w) ==
    /\ pc[w] \in {"metadata", "sections"}
    /\ Return(w)
    /\ UNCHANGED <<configured, notion, index>>

-----------------------------------------------------------------------------
(* Chunks and vectors. *)

Text(w, i) == {r \in job[w].blocks : r.section = Outline[job[w].page][i]}

\* The title of the section is part of its text, which is never empty.
Sizes(w) == [i \in DOMAIN Outline[job[w].page] |-> 1 + Cardinality(Text(w, i))]

\* Nothing is sent when there is no provider, or one text is too long.
Prepare(w) ==
    /\ pc[w] = "prepare"
    /\ IF configured /\ Plannable(Sizes(w))
       THEN job' = [job EXCEPT ![w].batches = Plan(Sizes(w))] /\ Goto(w, "embed")
       ELSE Return(w)
    /\ UNCHANGED <<configured, notion, index>>

\* The vector of each text of a batch, as the response has it.
Vectors(w, batch, response) ==
    {<<batch[k], Text(w, batch[response[k]])>> : k \in DOMAIN batch}

\* Mutant: the items of a response are taken as they come.
EmbedAsTheyCome(w) ==
    /\ pc[w] = "embed"
    /\ \E response \in Responses(Head(job[w].batches)) :
         /\ job' = [job EXCEPT ![w].vectors = @ \cup Vectors(w, Head(job[w].batches), response),
                               ![w].batches = Tail(@), ![w].attempts = 0]
         /\ Goto(w, IF Len(job[w].batches) = 1 THEN "persist" ELSE "embed")
    /\ UNCHANGED <<configured, notion, index>>

\* A response that is not in order, or incomplete, ends the call.
Embed(w) ==
    /\ pc[w] = "embed"
    /\ \E response \in Responses(Head(job[w].batches)) :
         IF Valid(response)
         THEN /\ job' = [job EXCEPT
                   ![w].vectors = @ \cup Vectors(w, Head(job[w].batches), response),
                   ![w].batches = Tail(@), ![w].attempts = 0]
              /\ Goto(w, IF Len(job[w].batches) = 1 THEN "persist" ELSE "embed")
         ELSE Return(w)
    /\ UNCHANGED <<configured, notion, index>>

\* A request that fails for the time being is repeated, up to the last attempt.
EmbedFails(w) ==
    /\ pc[w] = "embed"
    /\ \/ job[w].attempts + 1 < MaxAttempts
          /\ job' = [job EXCEPT ![w].attempts = @ + 1] /\ UNCHANGED pc
       \/ Return(w)
    /\ UNCHANGED <<configured, notion, index>>

-----------------------------------------------------------------------------
(* The transaction. *)

Row(w) ==
    LET p == job[w].page IN
    [stamp |-> job[w].stamp, blocks |-> job[w].blocks,
     chunks |-> {[section |-> Outline[p][i], text |-> Text(w, i),
                  vector |-> {v[2] : v \in {u \in job[w].vectors : u[1] = i}}] :
                 i \in DOMAIN Outline[p]}]

\* A block that was read twice, or that the index of another page still has,
\* breaks the unique key of notion_blocks.
BlocksAreUnique(w) ==
    /\ \A q, r \in job[w].blocks : q.block = r.block => q = r
    /\ \A p \in Pages \ {job[w].page} : \A q \in job[w].blocks, r \in index[p].blocks :
         q.block # r.block

Persistable(w) ==
    /\ job[w].stamp >= index[job[w].page].stamp
    /\ BlocksAreUnique(w)

Persist(w) ==
    /\ pc[w] = "persist"
    /\ index' = IF Persistable(w) THEN [index EXCEPT ![job[w].page] = Row(w)] ELSE index
    /\ Return(w)
    /\ UNCHANGED <<configured, notion>>

Index(w) ==
    \/ \E p \in Pages : StartIndex(w, p)
    \/ ReadMetadata(w) \/ ReadSection(w) \/ ReaderFails(w)
    \/ Prepare(w) \/ Embed(w) \/ EmbedFails(w) \/ Persist(w)

IndexNext ==
    \/ \E b \in Blocks, s \in Sections : Change(b, s)
    \/ \E w \in Indexers : Index(w)
=============================================================================
