----------------------------- MODULE NotionZone -----------------------------
(***************************************************************************)
(* What an accepted supplement adds to a page of Notion: topics under the  *)
(* toggle of a date, under the toggle of the zone (notion_api_writer_      *)
(* client).  ReviewPipeline knows of it only where the section begins.     *)
(*                                                                         *)
(* A page is the sequence of its blocks, a block the one that was created  *)
(* as the n-th.  A text is the sequence of its names between slashes, as   *)
(* paths are made by joining texts with slashes.                           *)
(***************************************************************************)
EXTENDS Naturals, FiniteSets, SequencesExt

CONSTANTS
    Zone,            \* the title of the zone
    Identity(_),     \* the line that identifies a request
    NotFound

ThePage == 0
Block(parent, kind, text) == [parent |-> parent, kind |-> kind, text |-> text]

-----------------------------------------------------------------------------
(* Reading a page. *)

\* The blocks from the page down to b, and their texts.
Way(page, b) ==
    LET way[c \in {ThePage} \cup DOMAIN page] ==
          IF c = ThePage THEN <<>> ELSE Append(way[page[c].parent], c)
    IN way[b]

BlockPath(page, b) == FlattenSeq([i \in DOMAIN Way(page, b) |-> page[Way(page, b)[i]].text])

\* In the order of the page: a block comes before what is below it, and siblings
\* are in the order of their creation.
Precedes(page, a, b) ==
    LET v == Way(page, a)
        w == Way(page, b)
    IN IsPrefix(v, w) \/ \E i \in DOMAIN v \cap DOMAIN w :
          v[i] < w[i] /\ \A j \in 1 .. i - 1 : v[j] = w[j]

First(page, S) ==
    IF S = {} THEN NotFound ELSE CHOOSE b \in S : \A c \in S : Precedes(page, b, c)

\* A toggle with the title, right below parent.
DirectContainer(page, parent, title) ==
    First(page, {b \in DOMAIN page : page[b] = Block(parent, "toggle", title)})

BlockWithIdentity(page, key) == First(page, {b \in DOMAIN page : page[b].text = Identity(key)})
BlockAtPath(page, path) == First(page, {b \in DOMAIN page : BlockPath(page, b) = path})

Below(page, b) == {c \in DOMAIN page : b \in ToSet(Way(page, c)) /\ c # b}
Lines(page, b) ==
    LET children == SetToSortSeq({c \in DOMAIN page : page[c].parent = b}, <)
    IN [i \in DOMAIN children |-> page[children[i]].text]

\* What is reported of a request that is on the page: the block that is looked up
\* is the first one at the path of the identity's parent.
Found(page, key) ==
    LET b == BlockWithIdentity(page, key)
        path == Front(BlockPath(page, b))
        topic == BlockAtPath(page, path)
    IN IF topic = NotFound
       THEN [path |-> path, lines |-> <<page[b].text>>, count |-> 1]
       ELSE [path |-> path, lines |-> Lines(page, topic),
             count |-> 1 + Cardinality(Below(page, topic))]

-----------------------------------------------------------------------------
(* Appending to it. *)

AppendChildren(page, parent, kind, texts) ==
    page \o [i \in DOMAIN texts |-> Block(parent, kind, texts[i])]

WithContainer(page, parent, title) ==
    IF DirectContainer(page, parent, title) # NotFound THEN page
    ELSE AppendChildren(page, parent, "toggle", <<title>>)

SectionLines(r) == Append(r.lines, Identity(r.key))

\* The page before the first PATCH of a call and after each: zone, date, topic,
\* section.  A request that is on the page already makes none.
Stages(page, r) ==
    LET zoned == WithContainer(page, ThePage, Zone)
        zone == DirectContainer(zoned, ThePage, Zone)
        dated == WithContainer(zoned, zone, r.date)
        date == DirectContainer(dated, zone, r.date)
        titled == AppendChildren(dated, date, "toggle", <<r.topic>>)
        written == AppendChildren(titled, Len(titled), "paragraph", SectionLines(r))
    IN IF BlockWithIdentity(page, r.key) # NotFound THEN <<page>>
       ELSE <<page, zoned, dated, titled, written>>

\* What the client itself counts, before the verification counts again.
AppendedCount(page, r) ==
    LET stages == Stages(page, r)
    IN Len(SectionLines(r)) + 2 + Len(stages[3]) - Len(page)
=============================================================================
