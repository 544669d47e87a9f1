----------------------------- MODULE ChildLists -----------------------------
(* What tad/n_tree.h promises: every node has a sequence of children, no   *)
(* node is in two places, an inserted child goes behind the children that  *)
(* are not greater than it and in front of the first greater one.          *)
EXTENDS Integers, SequencesExt

CONSTANTS Nodes, Key

VARIABLE kids       \* per node, its children in order

ChildrenOf(f) == ToSet(kids[f])
Free(c) == \A f \in Nodes : c \notin ChildrenOf(f)

Init == kids = [f \in Nodes |-> <<>>]

PutAt(f, i, c) ==
    /\ c # f
    /\ Free(c)
    /\ kids' = [kids EXCEPT ![f] = InsertAt(@, i, c)]

PrependChild(f, c) == PutAt(f, 1, c)

InsertChild(f, c) ==
    \E i \in 1 .. Len(kids[f]) + 1 :
        /\ PutAt(f, i, c)
        /\ \A j \in 1 .. i - 1 : Key[kids[f][j]] <= Key[c]
        /\ i <= Len(kids[f]) => Key[kids[f][i]] > Key[c]

RemoveChild(f, c) ==
    \E i \in 1 .. Len(kids[f]) :
        /\ kids[f][i] = c
        /\ kids' = [kids EXCEPT ![f] = RemoveAt(@, i)]

Next == \E f, c \in Nodes : PrependChild(f, c) \/ InsertChild(f, c) \/ RemoveChild(f, c)

Spec == Init /\ [][Next]_kids
=============================================================================
