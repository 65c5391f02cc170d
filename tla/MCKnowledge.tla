---------------------------- MODULE MCKnowledge -----------------------------
(***************************************************************************)
(* Knowledge on a small workspace, a page of three sections and one of     *)
(* one; and the texts it keeps whole or unordered: batches, chunks, their  *)
(* ranking, citations and duplicates, over all small pages and tables.     *)
(***************************************************************************)
EXTENDS Knowledge, SequencesExt

CONSTANTS p1, p2, s1, s2, s3, s4

MCOutline == [p \in {p1, p2} |-> IF p = p1 THEN <<s1, s2, s3>> ELSE <<s4>>]

\* Plan keeps its promise for every page of up to five texts.
ASSUME PlanIsSound ==
    \A n \in 1 .. 5 : \A sizes \in [1 .. n -> 1 .. MaxBytes] : SoundPlan(sizes)

-----------------------------------------------------------------------------
(* Chunks. *)

One == 1200
Alike(a, b) == (2 * One * Cardinality(ToSet(a) \cap ToSet(b))) \div (Len(a) + Len(b))

R == INSTANCE Retrieval
        WITH Spelled <- {"redis", "cache", "ttl", "hit", "aof", "rdb", "lru", "lfu"}, Unit <- One, Threshold <- 1080, Likeness <- Alike

\* The pages of a few blocks, in reading order: a block is below the one before it,
\* or below one that is on the way to it.
SmallPages ==
    LET pages[n \in 0 .. 3] ==
          IF n = 0 THEN {<<>>} ELSE
          UNION {{Append(p, [parent |-> above, kind |-> k, size |-> s]) :
                    above \in {0} \cup ToSet(R!Way(p, n - 1)),
                    k \in {"heading", "toggle", "text"},
                    s \in {0, 1, 3}} : p \in pages[n - 1]}
    IN UNION {pages[n] : n \in 1 .. 3}

TextOf(page) == SelectSeq([b \in DOMAIN page |-> b], LAMBDA b : page[b].size > 0)

\* The lines of a page are in its chunks, once and in their order; each chunk has
\* the blocks of its lines, by which it is stored and replaced, and no other's.
ASSUME EveryLineInOneChunk ==
    \A page \in SmallPages : \A max \in {2, 5} :
        LET chunks == R!ChunksOf(page, max)
            blocks == FlattenSeq([i \in DOMAIN chunks |-> chunks[i].blocks])
        IN /\ FlattenSeq([i \in DOMAIN chunks |-> chunks[i].lines]) = TextOf(page)
           /\ \A i \in DOMAIN chunks : ToSet(chunks[i].lines) \subseteq ToSet(chunks[i].blocks)
           /\ \A i \in 1 .. Len(blocks) - 1 : blocks[i] < blocks[i + 1]

\* A chunk is too long only when its one line is, and is not cut short: the line
\* that follows it in its section would not have fitted.
ASSUME ChunksFit ==
    \A page \in SmallPages : \A max \in {2, 5} :
        LET chunks == R!ChunksOf(page, max)
        IN \A i \in DOMAIN chunks :
            /\ R!Length(page, chunks[i].lines) <= max \/ Len(chunks[i].lines) = 1
            /\ i < Len(chunks) =>
                 LET next == Head(chunks[i + 1].lines) IN
                 \/ R!Length(page, Append(chunks[i].lines, next)) > max
                 \/ \E b \in Last(chunks[i].lines) + 1 .. next : R!Boundary(page[b])

Above(page, b) == ToSet(R!Way(page, b))

\* A page of toggles whose texts come before the toggles beside them: each line is
\* cited at the innermost toggle it is in.
Tidy(page) ==
    /\ \A b \in DOMAIN page : page[b].kind # "heading"
    /\ R!Boundary(page[1])
    /\ \A b \in DOMAIN page : ~R!Boundary(page[b]) =>
         \A c \in 1 .. b : R!Boundary(page[c]) => c \in Above(page, b)

ASSUME TidyPagesAreCitedRight ==
    \A page \in SmallPages : Tidy(page) =>
        LET chunks == R!ChunksOf(page, 2)
            Toggles(b) == {c \in Above(page, b) : R!Boundary(page[c])}
        IN \A i \in DOMAIN chunks : \A b \in ToSet(chunks[i].lines) :
            chunks[i].path = R!Path(page, CHOOSE c \in Toggles(b) : \A d \in Toggles(b) : d <= c)

\* A text that follows a toggle is cited as if it were in it.
ASSUME TextAfterToggleIsMisfiled ==
    \E page \in SmallPages :
        LET chunks == R!ChunksOf(page, 5)
        IN \E i \in DOMAIN chunks : \E b \in ToSet(chunks[i].lines) :
            /\ page[b].parent = 0 /\ page[b].kind = "text"
            /\ chunks[i].path # <<>>
            /\ page[Last(chunks[i].path)].kind = "toggle"

-----------------------------------------------------------------------------
(* Ranking and citations. *)

WordsOf(n) == UNION {[1 .. m -> {"redis", "cache", "huancun"}] : m \in 1 .. n}

\* A chunk with the question in it is always found; by words written in another
\* script than ASCII no other chunk is.
ASSUME VerbatimIsFound ==
    \A question \in WordsOf(2), text \in WordsOf(3) :
        /\ R!LexicalScore(question, text) \in 0 .. One
        /\ R!Verbatim(question, text) => R!LexicalScore(question, text) > 0
        /\ R!Tokens(question) = {} =>
             (R!LexicalScore(question, text) > 0 <=> R!Verbatim(question, text))

\* Of two chunks the one with more words of the question, and no more others, does
\* not rank lower unless the other has the question in it.
ASSUME MoreWordsRankHigher ==
    \A question \in WordsOf(2), text, other \in WordsOf(3) :
        LET q == R!Tokens(question) IN
        /\ q \cap R!Tokens(other) \subseteq q \cap R!Tokens(text)
        /\ R!Tokens(text) \ q \subseteq R!Tokens(other) \ q
        /\ ~R!Verbatim(question, other)
        => R!LexicalScore(question, text) >= R!LexicalScore(question, other)

\* A chunk that only has the words of a question may rank above one that has the
\* question in it: the longer chunk loses more than the question adds.
ASSUME VerbatimMayRankLower ==
    LET question == <<"redis", "cache">>
        text == <<"redis", "cache", "ttl", "hit", "aof", "rdb", "lru", "lfu">>
        other == <<"cache", "redis">>
    IN /\ R!Verbatim(question, text) /\ ~R!Verbatim(question, other)
       /\ R!LexicalScore(question, other) > R!LexicalScore(question, text)

SomeTexts == {<<"redis">>, <<"cache", "redis">>, <<"huancun">>, <<"cache", "huancun", "redis">>}
Indexed ==
    UNION {[1 .. n -> [path : {<<>>, <<"p">>, <<"q">>}, text : SomeTexts]] : n \in 1 .. 3}

\* Asking for more chunks keeps those that fewer had; every chunk found that has a
\* path is cited by it, once, with the best score there is at the path.
ASSUME CitationsAreOfTheBest ==
    \A chunks \in Indexed, question \in SomeTexts :
        LET found == R!Ranked(question, chunks, 2)
            cited == R!Cited(chunks, found)
            Score(c) == R!LexicalScore(question, chunks[c].text)
        IN /\ IsPrefix(found, R!Ranked(question, chunks, 3))
           /\ {chunks[c].path : c \in ToSet(cited)} = {chunks[c].path : c \in ToSet(found)} \ {<<>>}
           /\ \A c, d \in ToSet(cited) : chunks[c].path = chunks[d].path => c = d
           /\ \A c \in ToSet(cited), d \in ToSet(found) :
                chunks[c].path = chunks[d].path => Score(c) >= Score(d)

-----------------------------------------------------------------------------
(* Duplicates. *)

\* A text that a chunk with a path has is reported with such a chunk, whatever
\* else is indexed, and what is a duplicate stays one as the index grows.
ASSUME DuplicatesAreFound ==
    \A chunks \in Indexed, new \in WordsOf(2) :
        LET found == R!DuplicateOf(new, chunks) IN
        /\ Cardinality(found) <= 1
        /\ (\E c \in DOMAIN chunks : chunks[c].text = new /\ chunks[c].path # <<>>) =>
             \E d \in found : chunks[d].text = new
        /\ R!DuplicateOf(new, Front(chunks)) # {} => found # {}

\* A text without ASCII words is a duplicate only of itself, to the letter.
ASSUME OtherScriptsMatchExactly ==
    \A chunks \in Indexed, new \in WordsOf(3) :
        R!Tokens(new) = {} => \A c \in R!DuplicateOf(new, chunks) : chunks[c].text = new
=============================================================================
