------------------------------- MODULE Walks --------------------------------
(***************************************************************************)
(* The loops of tad's macros: from a first node along one pointer, up to   *)
(* null or to the first node that ends the loop.                           *)
(***************************************************************************)
EXTENDS Integers, FiniteSets, SequencesExt

(* The i-th turn, after the nodes of s.                                    *)
Farther(s, i, p, null) ==
    IF Len(s) < i \/ p[Last(s)] = null THEN s ELSE Append(s, p[Last(s)])

(* The nodes first, p[first], p[p[first]], ... up to null; a walk that     *)
(* does not end is cut one after the number of nodes.                      *)
Walk(first, p, null) ==
    LET w[i \in 0 .. Cardinality(DOMAIN p)] ==
            IF i = 0 THEN IF first = null THEN <<>> ELSE <<first>>
            ELSE Farther(w[i - 1], i, p, null)
    IN  w[Cardinality(DOMAIN p)]

(* Where a loop over s stops that ends at a node of ends, or behind it.    *)
StopAt(s, ends) ==
    LET at == {i \in 1 .. Len(s) : s[i] \in ends}
    IN  IF at = {} THEN Len(s) + 1 ELSE Min(at)
=============================================================================
