-------------------------- MODULE MCUploadSession ---------------------------
(***************************************************************************)
(* UploadSession for TLC, and the tree and picker its target is chosen     *)
(* from, checked for every index of four pages or fewer whose parents are  *)
(* arbitrary.                                                              *)
(***************************************************************************)
EXTENDS UploadSession, PageTree

Outside == 9
Indexes == [{1, 2, 3} -> {NoPage, 1, 2, 3, Outside}] \cup [1 .. 4 -> {NoPage, 1, 2, 3, 4}]
InOrder(parent) == SetToSortSeq(DOMAIN parent, LAMBDA p, q : p < q)
TreeOf(parent) == Tree(parent, InOrder(parent))

\* Whether p is among its own ancestors, by definition.
OnCycle(parent, p) ==
    LET above[n \in 1 .. Cardinality(DOMAIN parent)] ==
            IF n = 1 THEN {parent[p]} \ {NoPage}
            ELSE above[n - 1] \cup ({parent[q] : q \in above[n - 1]} \ {NoPage})
    IN p \in above[Cardinality(DOMAIN parent)]

\* Climbing from each page once finds exactly the pages that are their own
\* ancestors, from whichever page it starts.
ASSUME CyclesAreFound ==
    \A parent \in Indexes :
        LET known == Known(parent)
            cycle == {p \in DOMAIN known : OnCycle(known, p)}
        IN /\ CycleMembers(known, InOrder(parent)) = cycle
           /\ CycleMembers(known, Reverse(InOrder(parent))) = cycle

\* /pages names every indexed page once, and every page after its parent.
ASSUME EveryPageListed ==
    \A parent \in Indexes :
        LET tree == TreeOf(parent)
            listing == Listing(tree)
        IN /\ Len(listing) = Cardinality(DOMAIN tree)
           /\ ToSet(listing) = DOMAIN tree
           /\ \A i \in DOMAIN listing :
                tree[listing[i]] \in {NoPage} \cup {listing[j] : j \in 1 .. i - 1}

\* No two pages have one breadcrumb, whatever titles they share.
ASSUME BreadcrumbsDiffer ==
    \A parent \in [{1, 2, 3} -> {NoPage, 1, 2, 3}], title \in [{1, 2, 3} -> {"a", "b"}] :
        LET tree == TreeOf(parent)
        IN \A p, q \in DOMAIN tree :
            Breadcrumb(tree, title, p) = Breadcrumb(tree, title, q) => p = q

\* Every page can be chosen as a target from the first view, every button of a
\* view works while the index stays as it is, and "back" undoes "open".
ASSUME EveryPageSelectable ==
    \A parent \in Indexes :
        LET tree == TreeOf(parent)
            buttons == UNION {View(tree, v) : v \in Visited(tree)}
        IN /\ {b.page : b \in {b \in buttons : b.action = "select"}} = DOMAIN tree
           /\ \A b \in buttons : Accepts(tree, b)
           /\ \A v \in Visited(tree) : \A b \in View(tree, v) :
                b.action = "open" => Leads(tree, Button("back", Leads(tree, b))) = v

\* A button of a view that is out of date is refused, or leads to a view of the
\* index as it is now.
ASSUME StaleButtonsAreSafe ==
    \A now, drawn \in [{1, 2, 3} -> {NoPage, 1, 2, 3}], gone \in SUBSET {1, 2, 3} :
        LET old == TreeOf(drawn)
            new == TreeOf([p \in {1, 2, 3} \ gone |-> now[p]])
        IN \A v \in Visited(old) : \A b \in View(old, v) :
            Accepts(new, b) /\ b.action # "select" => Leads(new, b) \in Visited(new)

\* No message is too long, none could have been left out, and no line is lost.
ASSUME MessagesFit ==
    \A lines \in UNION {[1 .. n -> 0 .. 4] : n \in 1 .. 5}, limit \in {1, 3, 6} :
        LET messages == Split(lines, limit)
        IN /\ \A i \in DOMAIN messages : Size(messages[i]) <= limit
           /\ FlattenSeq(messages) = Truncated(lines, limit)
           /\ \A i \in 1 .. Len(messages) - 1 :
                Size(Append(messages[i], Head(messages[i + 1]))) > limit
=============================================================================
