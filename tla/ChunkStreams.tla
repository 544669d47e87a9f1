---------------------------- MODULE ChunkStreams ----------------------------
(***************************************************************************)
(* What EceWorker promises of one run, without threads, banks or messages: *)
(* every stream reads its source chunk by chunk, at most Depth chunks ahead*)
(* of the output, and the chunks come out in order, each exactly once, no  *)
(* stream a second chunk ahead of another.                                 *)
(***************************************************************************)
EXTENDS Naturals, Sequences

CONSTANTS Streams, Sources, None, Depth, Chunk(_, _)

VARIABLES
    source,  \* the source each stream was given, or None
    filled,  \* chunks each stream has read
    out      \* chunks each stream has put out

vars == <<source, filled, out>>

Init ==
    /\ source = [s \in Streams |-> None]
    /\ filled = [s \in Streams |-> 0]
    /\ out = [s \in Streams |-> <<>>]

Open ==
    /\ source = [s \in Streams |-> None]
    /\ source' \in [Streams -> Sources \cup {None}]
    /\ UNCHANGED <<filled, out>>

Fill(s) ==
    /\ source[s] # None
    /\ filled[s] < Len(out[s]) + Depth
    /\ filled' = [filled EXCEPT ![s] = @ + 1]
    /\ UNCHANGED <<source, out>>

Copy(s) ==
    /\ Len(out[s]) < filled[s]
    /\ \A t \in Streams : Len(out[s]) <= Len(out[t])
    /\ out' = [out EXCEPT ![s] = Append(@, Chunk(source[s], Len(@) + 1))]
    /\ UNCHANGED <<source, filled>>

Next == Open \/ \E s \in Streams : Fill(s) \/ Copy(s)

Spec == Init /\ [][Next]_vars
=============================================================================
