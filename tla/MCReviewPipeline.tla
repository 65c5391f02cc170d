-------------------------- MODULE MCReviewPipeline --------------------------
(***************************************************************************)
(* ReviewPipeline on small instances (each .cfg picks one), and the blocks *)
(* that its appends add to a page, after every sequence of a few accepts   *)
(* of two requests, each of which may break off between two PATCHes.       *)
(***************************************************************************)
EXTENDS ReviewPipeline, TLC, SequencesExt

\* Reviewers are interchangeable, and so are requests: only safety properties
\* are checked under this symmetry.
Symmetry == Permutations(Reviewers) \cup Permutations(Requests)

-----------------------------------------------------------------------------
IdentityOf(key) == <<key>>
Z == INSTANCE NotionZone WITH Zone <- <<"zone">>, Identity <- IdentityOf, NotFound <- None

\* A page without a zone, and one whose owner has a toggle of that name elsewhere
\* and an empty block in the zone.
OwnPages ==
    {<<>>,
     <<Z!Block(0, "toggle", <<"notes">>), Z!Block(1, "toggle", <<"zone">>),
       Z!Block(0, "toggle", <<"zone">>), Z!Block(3, "paragraph", <<>>)>>}

\* Two accepted proposals, accepted today or tomorrow.  A title may have a slash.
Accepts ==
    {[key |-> k, date |-> <<d>>, topic |-> t, lines |-> <<<<"by", k>>>>] :
        k \in {"r1", "r2"}, d \in {"today", "tomorrow"},
        t \in {<<"topic">>, <<"topic", "part">>}}

AfterAccepts ==
    LET after[n \in 0 .. 3] ==
          IF n = 0 THEN OwnPages
          ELSE after[n - 1] \cup
               UNION {ToSet(Z!Stages(p, r)) : p \in after[n - 1], r \in Accepts}
    IN after[3]

ZoneOf(p) == Z!DirectContainer(p, 0, <<"zone">>)
OwnBlocks(p) == IF \E own \in OwnPages \ {<<>>} : IsPrefix(own, p) THEN 1 .. 4 ELSE {}
WithKey(p, key) == {b \in DOMAIN p : p[b].text = <<key>>}

\* Only the zone is added to a page, and what is below it; a page has one zone,
\* and a zone one toggle for a date, however many accepts break off.
ASSUME AppendsOnlyBelowZone ==
    \A p \in AfterAccepts :
        /\ \A b \in DOMAIN p \ OwnBlocks(p) : b = ZoneOf(p) \/ b \in Z!Below(p, ZoneOf(p))
        /\ \A a, b \in DOMAIN p :
             /\ p[a] = p[b] /\ p[a].kind = "toggle" /\ p[a].parent \in {0, ZoneOf(p)} => a = b

\* A section is on the page as a whole or not at all, and once: a request that is
\* found is below its date and topic, with all its lines.
ASSUME SectionsAreWhole ==
    \A p \in AfterAccepts, r \in Accepts :
        LET written == Last(Z!Stages(p, r)) IN
        /\ Cardinality(WithKey(p, r.key)) <= 1
        /\ WithKey(p, r.key) = {} =>
             \E b \in WithKey(written, r.key) :
                /\ Z!BlockPath(written, written[b].parent) = <<"zone">> \o r.date \o r.topic
                /\ Z!Lines(written, written[b].parent) = Z!SectionLines(r)

\* What is reported of a request is its own section, unless another toggle before
\* it has the same path; an accept that broke off before its section leaves one.
ASSUME ReportsOwnSection ==
    /\ \A p \in AfterAccepts : \A r \in Accepts :
         LET written == Last(Z!Stages(p, r))
             found == Z!Found(written, r.key)
             topic == written[CHOOSE b \in WithKey(written, r.key) : TRUE].parent
         IN \/ found.lines = Z!Lines(written, topic)
            \/ \E b \in DOMAIN written :
                 b < topic /\ Z!BlockPath(written, b) = Z!BlockPath(written, topic)
    /\ \E p \in AfterAccepts, r \in Accepts :
         Z!Found(Last(Z!Stages(p, r)), r.key).lines = <<>>

\* The client counts one block more than it appends.
ASSUME CountsOneMore ==
    \A p \in AfterAccepts, r \in Accepts :
        LET written == Last(Z!Stages(p, r)) IN
        WithKey(p, r.key) = {} => Z!AppendedCount(p, r) = Len(written) - Len(p) + 1
=============================================================================
