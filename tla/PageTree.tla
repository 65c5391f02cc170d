------------------------------ MODULE PageTree ------------------------------
(***************************************************************************)
(* The tree of indexed Notion pages that Telegram shows, and the picker    *)
(* that walks it (services/notion_hierarchy.py).                           *)
(*                                                                         *)
(* The parents come from the index and need not form a tree: a parent may  *)
(* not be indexed, may be the page itself, or may lead back to it.  Pages  *)
(* are numbered in the order of their sort key; NoPage stands for "root".  *)
(***************************************************************************)
EXTENDS Naturals, FiniteSets, SequencesExt

NoPage == 0

\* A parent that is not indexed, or that is the page itself, is dropped.
Known(parent) ==
    [p \in DOMAIN parent |->
        IF parent[p] \in DOMAIN parent \ {p} THEN parent[p] ELSE NoPage]

-----------------------------------------------------------------------------
(* Cycles. *)

\* Where n steps up from a page lead; nothing is above a root.
Way(parent, start) ==
    LET up[n \in 0 .. Cardinality(DOMAIN parent)] ==
            IF n = 0 THEN start
            ELSE IF up[n - 1] = NoPage THEN NoPage ELSE parent[up[n - 1]]
    IN up

\* The pages on the way up to a page that has been visited or to a root, and
\* those of them that lie on a cycle.
Climb(parent, visited, start) ==
    LET up == Way(parent, start)
        Ends(n) == up[n] \in visited \cup {NoPage} \cup {up[k] : k \in 0 .. n - 1}
        end == CHOOSE n \in DOMAIN up : Ends(n) /\ \A k \in 0 .. n - 1 : ~Ends(k)
    IN [path  |-> {up[k] : k \in 0 .. end - 1},
        cycle |-> {up[k] : k \in {k \in 0 .. end - 1 :
                                    \E j \in 0 .. k : up[j] = up[end]}}]

\* Every page is climbed from, in some order, and none is visited twice.
CycleMembers(parent, starts) ==
    LET found[n \in 0 .. Len(starts)] ==
            IF n = 0 THEN [cycle |-> {}, visited |-> {}]
            ELSE LET old == found[n - 1]
                     way == Climb(parent, old.visited, starts[n])
                 IN [cycle   |-> old.cycle \cup way.cycle,
                     visited |-> old.visited \cup way.path]
    IN found[Len(starts)].cycle

-----------------------------------------------------------------------------
(* The tree: the parent of every page that is shown below another. *)

\* Every page of a cycle becomes a root.
Tree(parent, starts) ==
    [p \in DOMAIN parent |->
        IF p \in CycleMembers(Known(parent), starts) THEN NoPage ELSE Known(parent)[p]]

Children(tree, p) ==
    SetToSortSeq({c \in DOMAIN tree : tree[c] = p}, LAMBDA c, d : c < d)

HasChildren(tree, p) == \E c \in DOMAIN tree : tree[c] = p

\* /pages: every node before its children.
Listing(tree) ==
    LET below[p \in DOMAIN tree \cup {NoPage}] ==
            FlattenSeq([i \in DOMAIN Children(tree, p) |->
                          <<Children(tree, p)[i]>> \o below[Children(tree, p)[i]]])
    IN below[NoPage]

\* A title that other pages have too carries the page's identity.
Label(title, p) ==
    IF \E q \in DOMAIN title \ {p} : title[q] = title[p] THEN <<title[p], p>> ELSE <<title[p]>>

Breadcrumb(tree, title, page) ==
    LET trail[p \in DOMAIN tree \cup {NoPage}] ==
            IF p = NoPage THEN <<>> ELSE Append(trail[tree[p]], Label(title, p))
    IN trail[page]

-----------------------------------------------------------------------------
(* Messages.  A line is its length; joining lines costs a character each.  *)

Size(lines) == FoldLeft(LAMBDA n, line : n + line, 0, lines) + Len(lines) - 1

Truncated(lines, limit) == [i \in DOMAIN lines |-> IF lines[i] > limit THEN limit ELSE lines[i]]

\* A line that does not fit opens the next message.
Split(lines, limit) ==
    LET Place(messages, line) ==
            LET grown == Append(Last(messages), line)
            IN IF Last(messages) # <<>> /\ Size(grown) > limit
               THEN Append(messages, <<line>>)
               ELSE Append(Front(messages), grown)
    IN FoldLeft(Place, <<<<>>>>, Truncated(lines, limit))

-----------------------------------------------------------------------------
(* The picker: one view for the roots and one for every page. *)

Button(action, p) == [action |-> action, page |-> p]

\* A page with children is opened, any other page is selected.
Offer(tree, p) == Button(IF HasChildren(tree, p) THEN "open" ELSE "select", p)

View(tree, current) ==
    {Offer(tree, p) : p \in {c \in DOMAIN tree : tree[c] = current}}
    \cup IF current = NoPage THEN {}
         ELSE {Button("select", current), Button("back", current), Button("root", NoPage)}

\* A press is judged by the tree of its own time, not by the tree that its
\* button was drawn for.
Accepts(tree, button) ==
    CASE button.action = "open" -> button.page \in DOMAIN tree /\ HasChildren(tree, button.page)
      [] button.action \in {"back", "select"} -> button.page \in DOMAIN tree
      [] button.action = "root" -> TRUE

\* The page whose view a press leads to.
Leads(tree, button) ==
    CASE button.action = "open" -> button.page
      [] button.action = "back" -> tree[button.page]
      [] button.action = "root" -> NoPage

\* The views the owner comes to from the roots.
Visited(tree) ==
    LET Wider(views) ==
            views \cup {b.page : b \in {b \in UNION {View(tree, v) : v \in views} :
                                          b.action = "open"}}
        after[n \in 0 .. Cardinality(DOMAIN tree)] ==
            IF n = 0 THEN {NoPage} ELSE Wider(after[n - 1])
    IN after[Cardinality(DOMAIN tree)]
=============================================================================
