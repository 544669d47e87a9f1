---------------------------- MODULE MCLibraries ----------------------------
(***************************************************************************)
(* Instances for TLC of the libraries a single program links: the pool of  *)
(* chunks, the recorder of allocations, trees and lists.  They have no     *)
(* state in common; a behaviour is one of the one that is chosen first.    *)
(***************************************************************************)
EXTENDS HeapPool, HeapLooker, NTree, SList

CONSTANTS e1, e2, e3, e4

VARIABLE library

libraries_vars == <<library, vars, lk_vars, nt_vars, sl_vars>>

(* Elements of the lists and trees: two with equal keys, a smaller and a   *)
(* greater one.                                                            *)
MCElts == {e1, e2, e3, e4}
MCKey == [n \in MCElts |-> CASE n = e1 -> 1 [] n = e4 -> 3 [] OTHER -> 2]

(* Threads and addresses are only compared, and so are nodes of equal keys.*)
Symmetry == Permutations({e2, e3}) \cup Permutations(Threads) \cup Permutations(Addrs)

LibrariesInit ==
    /\ library \in {"heap_pool", "heap_looker", "n_tree", "s_list"}
    /\ Init /\ LkInit /\ NtInit /\ SlInit

LibrariesNext ==
    /\ \/ library = "heap_pool" /\ Next /\ UNCHANGED <<lk_vars, nt_vars, sl_vars>>
       \/ library = "heap_looker" /\ LkNext /\ UNCHANGED <<vars, nt_vars, sl_vars>>
       \/ library = "n_tree" /\ NtNext /\ UNCHANGED <<vars, lk_vars, sl_vars>>
       \/ library = "s_list" /\ SlNext /\ UNCHANGED <<vars, lk_vars, nt_vars>>
    /\ UNCHANGED library

LibrariesSpec == LibrariesInit /\ [][LibrariesNext]_libraries_vars

(* The types and ranges of all of them; a list has no more than its        *)
(* members, which SlListsMembers says more of.                             *)
LibrariesTypeOK == TypeOK /\ LkTypeOK /\ NtTypeOK
=============================================================================
