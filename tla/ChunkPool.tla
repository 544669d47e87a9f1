----------------------------- MODULE ChunkPool -----------------------------
(***************************************************************************)
(* What a heap pool promises its client: a fixed number of chunks, each    *)
(* handed out to one holder at a time, and an allocation that fails only   *)
(* when every chunk is out.                                                *)
(***************************************************************************)
EXTENDS Integers

CONSTANTS ENOMEM, None

VARIABLES
    size,    \* number of chunks, or None while there is no pool
    held,    \* the chunks that are out
    result   \* what the last operation returned

vars == <<size, held, result>>

Init == size = None /\ held = {} /\ result = None

Create ==
    /\ size = None
    /\ size' \in Nat
    /\ held' = {}
    /\ result' = None

Take ==
    /\ size # None
    /\ \E c \in (0 .. size - 1) \ held :
          /\ held' = held \cup {c}
          /\ result' = c
    /\ UNCHANGED size

Exhausted ==
    /\ size # None
    /\ held = 0 .. size - 1
    /\ result' = ENOMEM
    /\ UNCHANGED <<size, held>>

Return ==
    /\ \E c \in held : held' = held \ {c}
    /\ result' = None
    /\ UNCHANGED size

Destroy ==
    /\ size # None
    /\ size' = None /\ held' = {} /\ result' = None

Next == Create \/ Take \/ Exhausted \/ Return \/ Destroy

Spec == Init /\ [][Next]_vars
=============================================================================
