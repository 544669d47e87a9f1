----------------------------- MODULE MCKernel ------------------------------
(***************************************************************************)
(* Instances for TLC of what runs in, or on, the kernel: the module of     *)
(* modrefcnt, the security module of netplug, and the program behind       *)
(* netfilter's queue.  They have no state in common; a behaviour is one of *)
(* the one that is chosen first.                                           *)
(***************************************************************************)
EXTENDS ModRefcnt, NetFreeze, SquashPacket

VARIABLE part

kernel_vars == <<part, vars, nf_vars, sq_vars>>

(* Payloads of up to three cells, shorter and longer than the new text.    *)
MCPayloads == UNION {[1 .. n -> {"PRIVMS", "nul", "text"}] : n \in 0 .. 3}
MCPackets == [tcp : BOOLEAN, payload : MCPayloads]

KernelInit ==
    /\ part \in {"modrefcnt", "netplug", "nfqueue_example"}
    /\ Init /\ NfInit /\ SqInit

KernelNext ==
    /\ \/ part = "modrefcnt" /\ Next /\ UNCHANGED <<nf_vars, sq_vars>>
       \/ part = "netplug" /\ NfNext /\ UNCHANGED <<vars, sq_vars>>
       \/ part = "nfqueue_example" /\ SqNext /\ UNCHANGED <<vars, nf_vars>>
    /\ UNCHANGED part

KernelSpec == KernelInit /\ [][KernelNext]_kernel_vars

(* The types and ranges of the first two; the packets of the third are     *)
(* what SqWellFormed is about.                                             *)
KernelTypeOK == TypeOK /\ NfTypeOK
=============================================================================
