----------------------------- MODULE Retrieval ------------------------------
(***************************************************************************)
(* The text between Notion and an answer: how a page is cut into chunks    *)
(* (rag/chunker.py), how chunks are ranked by words (rag/retriever.py) and *)
(* cited (qa_orchestrator), and how a chunk that says the same is found    *)
(* (services/duplicate_checker.py).  PageIndex and Knowledge have a chunk  *)
(* per section, and any chunks found.                                      *)
(***************************************************************************)
EXTENDS Integers, FiniteSets, SequencesExt

CONSTANTS
    Spelled,        \* the words of ASCII letters and digits: the others are no tokens
    Unit,           \* the score 1, a multiple of 100 and of all sizes of token sets
    Threshold,      \* the score from which a chunk is a duplicate
    Likeness(_, _)  \* how similar two texts are, as difflib says

-----------------------------------------------------------------------------
(* Chunks.  A page is the sequence of its blocks in reading order; a block *)
(* has its parent's number (0 for the page), its type, and the length of   *)
(* its text, which may be 0.                                               *)

Boundary(block) == block.kind \in {"heading", "toggle"}

Way(page, b) ==
    LET way[c \in 0 .. Len(page)] ==
          IF c = 0 THEN <<>> ELSE Append(way[page[c].parent], c)
    IN way[b]

\* The texts on the way down to a block, below the path of the page itself; an
\* empty block has its parent's path.
Path(page, b) == SelectSeq(Way(page, b), LAMBDA c : page[c].size > 0)

\* The length of lines joined by newlines.
Length(page, lines) ==
    FoldSeq(LAMBDA b, sum : page[b].size + sum, 0, lines) + Len(lines) - 1

\* What is cut so far: the chunks, and the one that is open.  Another is opened at a
\* path; a chunk without text is dropped then, with its blocks.
Flush(cut, path) ==
    [chunks |-> IF cut.open.lines = <<>> THEN cut.chunks ELSE Append(cut.chunks, cut.open),
     open |-> [path |-> path, lines |-> <<>>, blocks |-> <<>>]]

Add(page, chunk, b) ==
    [chunk EXCEPT !.lines = IF page[b].size > 0 THEN Append(@, b) ELSE @,
                  !.blocks = Append(@, b)]

\* A boundary opens a chunk, and a line that is too much for the open one opens
\* another at the same path.
CutAt(page, max, cut, b) ==
    LET section == IF b = 1 \/ Boundary(page[b]) THEN Flush(cut, Path(page, b)) ELSE cut
        full == /\ page[b].size > 0 /\ section.open.lines # <<>>
                /\ Length(page, Append(section.open.lines, b)) > max
        fresh == IF full THEN Flush(section, section.open.path) ELSE section
    IN [fresh EXCEPT !.open = Add(page, @, b)]

NothingCut == [chunks |-> <<>>, open |-> [path |-> <<>>, lines |-> <<>>, blocks |-> <<>>]]

ChunksOf(page, max) ==
    LET cut[b \in 0 .. Len(page)] ==
          IF b = 0 THEN NothingCut ELSE CutAt(page, max, cut[b - 1], b)
    IN Flush(cut[Len(page)], <<>>).chunks

-----------------------------------------------------------------------------
(* Ranking.  A text is the sequence of its words; the path of an indexed   *)
(* chunk is the whole one, and <<>> is none.                               *)

Tokens(text) == ToSet(text) \cap Spelled

\* The text has the question in it, word by word.
Verbatim(question, text) ==
    \E i \in 0 .. Len(text) - Len(question) : SubSeq(text, i + 1, i + Len(question)) = question

\* Three quarters for the words of the question found, one for the words of the
\* text that are the question's, and some more for the question as it stands.
LexicalScore(question, text) ==
    LET q == Tokens(question)
        t == Tokens(text)
        common == Cardinality(q \cap t)
        phrase == IF Verbatim(question, text) THEN (15 * Unit) \div 100 ELSE 0
        coverage == IF q = {} THEN 0 ELSE (3 * Unit * common) \div (4 * Cardinality(q))
        density == IF t = {} THEN 0 ELSE (Unit * common) \div (4 * Cardinality(t))
        score == coverage + density + phrase
    IN IF score > Unit THEN Unit ELSE score

\* The numbers of the best chunks that score at all; of two that score the same
\* the older comes first.
Ranked(question, chunks, topK) ==
    LET Score(c) == LexicalScore(question, chunks[c].text)
        found == SetToSortSeq({c \in DOMAIN chunks : Score(c) > 0},
                    LAMBDA c, d : Score(c) > Score(d) \/ (Score(c) = Score(d) /\ c < d))
    IN SubSeq(found, 1, IF topK < Len(found) THEN topK ELSE Len(found))

\* One citation for a path, with the score of its first chunk; a chunk without a
\* path is not cited.  Without a citation there is no answer.
Cited(chunks, found) ==
    SelectSeq(found, LAMBDA c :
        /\ chunks[c].path # <<>>
        /\ \A i \in DOMAIN found : chunks[found[i]].path = chunks[c].path =>
             \E j \in 1 .. i : found[j] = c)

-----------------------------------------------------------------------------
(* Duplicates. *)

Similarity(new, text) ==
    IF Tokens(new) \cap Tokens(text) = {} THEN 0
    ELSE (45 * Unit * Cardinality(Tokens(new) \cap Tokens(text)))
             \div (100 * Cardinality(Tokens(new) \cup Tokens(text)))
         + (55 * Likeness(new, text)) \div 100

\* The chunk reported as the one that a new text repeats: the first with the same
\* text, or else the first of the most similar ones that are similar enough.
DuplicateOf(new, chunks) ==
    LET pathed == {c \in DOMAIN chunks : chunks[c].path # <<>>}
        same == {c \in pathed : chunks[c].text = new}
        Score(c) == Similarity(new, chunks[c].text)
        close == {c \in pathed : Score(c) >= Threshold}
        best == {c \in close : \A d \in close : Score(c) >= Score(d)}
        Oldest(S) == {c \in S : \A d \in S : c <= d}
    IN IF same # {} THEN Oldest(same) ELSE Oldest(best)
=============================================================================
