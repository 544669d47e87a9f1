------------------------------- MODULE SList -------------------------------
(***************************************************************************)
(* The intrusive singly linked list of tad (s_list.h): macros that walk    *)
(* the next pointers and return the new root, which the client assigns.    *)
(***************************************************************************)
EXTENDS Walks

CONSTANTS
    Elts, EltKey,   \* elements, and what the client's comparator orders them by
    Nil

ASSUME EltsAssumption == IsFiniteSet(Elts) /\ Nil \notin Elts /\ EltKey \in [Elts -> Int]

VARIABLES
    sl_root,
    sl_next,   \* next of every element; a removed one keeps its own
    sl_in      \* the elements the client has inserted and not removed

sl_vars == <<sl_root, sl_next, sl_in>>

SlInit ==
    /\ sl_root = Nil
    /\ sl_next = [e \in Elts |-> Nil]
    /\ sl_in = {}

(* slist_foreach: the elements in the order of the list.                   *)
Visited == Walk(sl_root, sl_next, Nil)

(* pwalk, the last element in front of one of stop; the walks begin with   *)
(* pwalk = NULL.                                                           *)
Pwalk(stop) == LET i == StopAt(Visited, stop) IN IF i = 1 THEN Nil ELSE Visited[i - 1]

(* The elements in front of which link goes.  Fault: its equals are not    *)
(* among them.                                                             *)
After_behind(link) == {e \in Elts : EltKey[e] > EltKey[link]}
After(link) == {e \in Elts : EltKey[e] >= EltKey[link]}

slist_insert_elt(link) ==
    LET pwalk == Pwalk(After(link)) IN
    /\ link \notin sl_in
    /\ sl_in' = sl_in \cup {link}
    /\ \/ /\ pwalk = Nil
          /\ sl_next' = [sl_next EXCEPT ![link] = sl_root]
          /\ sl_root' = link
       \/ /\ pwalk # Nil
          /\ sl_next' = [sl_next EXCEPT ![link] = sl_next[pwalk], ![pwalk] = link]
          /\ UNCHANGED sl_root

(* An element that is not in the list leaves it as it is.  Fault: what is  *)
(* behind the removed one is lost.                                         *)
slist_remove_elt_tail(node) ==
    LET pwalk == Pwalk({node}) IN
    /\ sl_in' = sl_in \ {node}
    /\ \/ /\ node \notin sl_in
          /\ UNCHANGED <<sl_root, sl_next>>
       \/ /\ node \in sl_in /\ pwalk = Nil
          /\ sl_root' = sl_next[sl_root]
          /\ UNCHANGED sl_next
       \/ /\ node \in sl_in /\ pwalk # Nil
          /\ sl_next' = [sl_next EXCEPT ![pwalk] = Nil]
          /\ UNCHANGED sl_root
slist_remove_elt(node) ==
    LET pwalk == Pwalk({node}) IN
    /\ sl_in' = sl_in \ {node}
    /\ \/ /\ node \notin sl_in
          /\ UNCHANGED <<sl_root, sl_next>>
       \/ /\ node \in sl_in /\ pwalk = Nil
          /\ sl_root' = sl_next[sl_root]
          /\ UNCHANGED sl_next
       \/ /\ node \in sl_in /\ pwalk # Nil
          /\ sl_next' = [sl_next EXCEPT ![pwalk] = sl_next[node]]
          /\ UNCHANGED sl_root

SlNext == \E e \in Elts : slist_insert_elt(e) \/ slist_remove_elt(e)

SlSpec == SlInit /\ [][SlNext]_sl_vars

----------------------------------------------------------------------------
(* Properties                                                              *)

Precedes(a, b) == \E m, n \in DOMAIN Visited : m < n /\ Visited[m] = a /\ Visited[n] = b

(* The walk from the root visits each element the client has inserted once *)
(* and in order, and no removed one, whatever their next pointers say.     *)
SlListsMembers ==
    /\ Len(Visited) = Cardinality(sl_in)
    /\ {Visited[n] : n \in DOMAIN Visited} = sl_in
    /\ \A a, b \in sl_in : Precedes(a, b) => EltKey[a] <= EltKey[b]

(* A call inserts or removes one element and moves none: two others stay   *)
(* in their order, and a new element is put in front of its equals.        *)
SlOthersStay ==
    [][\A a, b \in sl_in' :
          /\ a \in sl_in /\ b \in sl_in => (Precedes(a, b) => Precedes(a, b)')
          /\ a \notin sl_in /\ b \in sl_in /\ EltKey[a] = EltKey[b] => Precedes(a, b)']_sl_vars
=============================================================================
