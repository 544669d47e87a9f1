------------------------------- MODULE NTree --------------------------------
(***************************************************************************)
(* The intrusive trees of tad/n_tree.h.  A node has three pointers, next,  *)
(* parent and child; the macros are the operations of one client.  No      *)
(* macro ever writes null into a pointer of a node it unlinks: a removed   *)
(* node goes on pointing to its father and to its right sibling, and       *)
(* ntree_insert_child does not overwrite next when the father is empty.    *)
(***************************************************************************)
EXTENDS Walks

CONSTANTS
    Nodes,
    Key,    \* what the client's comparator compares
    Null    \* (void *)0

ASSUME NodesAssumption == IsFiniteSet(Nodes) /\ Null \notin Nodes
ASSUME KeyAssumption   == Key \in [Nodes -> Int]

VARIABLES
    next, parent, child,    \* struct ntree_node
    owner,   \* the client's knowledge: the node under which it put a node
    tainted  \* a node was inserted with the next of its former place

nt_ptrs == <<next, parent, child>>
nt_vars == <<nt_ptrs, owner, tainted>>

Ptr == Nodes \cup {Null}

NtTypeOK ==
    /\ next \in [Nodes -> Ptr]
    /\ parent \in [Nodes -> Ptr]
    /\ child \in [Nodes -> Ptr]
    /\ owner \in [Nodes -> Ptr]
    /\ tainted \in BOOLEAN

(* NTREE_ELT_INIT.                                                         *)
NtInit ==
    /\ next = [n \in Nodes |-> Null]
    /\ parent = [n \in Nodes |-> Null]
    /\ child = [n \in Nodes |-> Null]
    /\ owner = [n \in Nodes |-> Null]
    /\ tainted = FALSE

----------------------------------------------------------------------------
ntree_foreach_child(f) == Walk(child[f], next, Null)
ntree_foreach_ancestor(n) == Walk(parent[n], parent, Null)

(* Where ntree_foreach_child_cond stops, if its condition holds for the    *)
(* nodes of keep.                                                          *)
Stop(f, keep) == StopAt(ntree_foreach_child(f), Nodes \ keep)

(* Links c in front of the i-th child.                                     *)
LinkAt(f, i, c) ==
    LET pwalk == ntree_foreach_child(f)[i - 1]
    IN  IF i = 1
        THEN /\ next' = [next EXCEPT ![c] = child[f]]
             /\ child' = [child EXCEPT ![f] = c]
        ELSE /\ next' = [next EXCEPT ![c] = next[pwalk], ![pwalk] = c]
             /\ UNCHANGED child

(* Unlinks the i-th child.  Fault: always from the father.                 *)
UnlinkAt_first(f, i) ==
    /\ child' = [child EXCEPT ![f] = next[ntree_foreach_child(f)[i]]]
    /\ UNCHANGED next
UnlinkAt(f, i) ==
    LET ks == ntree_foreach_child(f)
    IN  IF i = 1
        THEN /\ child' = [child EXCEPT ![f] = next[ks[i]]]
             /\ UNCHANGED next
        ELSE /\ next' = [next EXCEPT ![ks[i - 1]] = next[ks[i]]]
             /\ UNCHANGED child

(* What the client respects: it links a node that is in no tree, and not   *)
(* under itself.  The run ends with the first list that is tainted.        *)
MayLink(f, c) ==
    /\ ~tainted
    /\ owner[c] = Null
    /\ c # f /\ c \notin ToSet(Walk(owner[f], owner, Null))

(* Fault: the child becomes its own parent.                                *)
ntree_prepend_child_self(f, c) ==
    /\ MayLink(f, c)
    /\ parent' = [parent EXCEPT ![c] = c]
    /\ LinkAt(f, 1, c)
    /\ owner' = [owner EXCEPT ![c] = f]
    /\ UNCHANGED tainted
ntree_prepend_child(f, c) ==
    /\ MayLink(f, c)
    /\ parent' = [parent EXCEPT ![c] = f]
    /\ LinkAt(f, 1, c)
    /\ owner' = [owner EXCEPT ![c] = f]
    /\ UNCHANGED tainted

(* The place of c among the children of f.  Fault: in front of its equals. *)
Place_before(f, c) == Stop(f, {walk \in Nodes : Key[walk] < Key[c]})
Place(f, c) == Stop(f, {walk \in Nodes : Key[walk] <= Key[c]})

(* In an empty father the child keeps its next.                            *)
ntree_insert_child(f, c) ==
    /\ MayLink(f, c)
    /\ parent' = [parent EXCEPT ![c] = f]
    /\ IF child[f] = Null
       THEN /\ child' = [child EXCEPT ![f] = c]
            /\ tainted' = (next[c] # Null)
            /\ UNCHANGED next
       ELSE /\ LinkAt(f, Place(f, c), c)
            /\ UNCHANGED tainted
    /\ owner' = [owner EXCEPT ![c] = f]

ntree_remove_child_if(f, keep) ==
    LET ks == ntree_foreach_child(f)
        i  == Stop(f, keep)
    IN  /\ ~tainted
        /\ i <= Len(ks)
        /\ UnlinkAt(f, i)
        /\ owner' = [owner EXCEPT ![ks[i]] = Null]
        /\ UNCHANGED <<parent, tainted>>

(* Of a node that is no child of f nothing happens.                        *)
ntree_remove_child(f, c) == ntree_remove_child_if(f, Nodes \ {c})

NtNext ==
    \E f \in Nodes :
        \/ \E c \in Nodes :
              \/ ntree_prepend_child(f, c)
              \/ ntree_insert_child(f, c)
              \/ ntree_remove_child(f, c)
        \/ \E keep \in SUBSET ToSet(ntree_foreach_child(f)) :
              ntree_remove_child_if(f, keep)

NtSpec == NtInit /\ [][NtNext]_nt_vars

----------------------------------------------------------------------------
(* Properties                                                              *)

(* After any order of links and unlinks, with the stale pointers of every  *)
(* removed node left in place, the three pointers of all nodes agree with  *)
(* what the client did: each list visits the nodes put under its father,   *)
(* each once, and each of them climbs to that father.                      *)
PointersAgree ==
    ~tainted =>
        \A f \in Nodes :
            LET ks == ntree_foreach_child(f)
            IN  /\ IsInjective(ks)
                /\ ToSet(ks) = {n \in Nodes : owner[n] = f}
                /\ \A n \in ToSet(ks) : parent[n] = f

(* ntree_foreach_ancestor can run in a circle, since a removed node still  *)
(* climbs to its father, which may come to be below it; but only through   *)
(* such a node.                                                            *)
CirclesPassRemoved ==
    \A n \in Nodes :
        LET up == ntree_foreach_ancestor(n)
        IN  Len(up) > Cardinality(Nodes) =>
                \E a \in ToSet(up) : owner[a] = Null /\ parent[a] # Null

Lists == INSTANCE ChildLists WITH kids <- [f \in Nodes |-> ntree_foreach_child(f)]

(* Every macro does to the sequences of children what its name says, until *)
(* a node is inserted into an empty father with a next it kept from its    *)
(* former place.                                                           *)
ImplementsLists ==
    /\ Lists!Init
    /\ [][~tainted' => (Lists!Next \/ UNCHANGED [f \in Nodes |-> ntree_foreach_child(f)])]_nt_vars
=============================================================================
