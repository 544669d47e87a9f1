----------------------------- MODULE NetFreeze -----------------------------
(***************************************************************************)
(* netplug: a security module that decides on the creation of sockets by   *)
(* whether a model of USB key is plugged in.  Each time the key is plugged *)
(* in it is another device, which lives while anybody holds a reference.   *)
(***************************************************************************)
EXTENDS Integers, FiniteSets

CONSTANTS
    Callers,   \* processes that create sockets
    MaxPlugs,  \* bound: times the key is plugged in
    NoDevice

ASSUME CallersAssumption  == IsFiniteSet(Callers)
ASSUME MaxPlugsAssumption == MaxPlugs \in Nat
ASSUME NoDeviceAssumption == NoDevice \notin 1 .. MaxPlugs

VARIABLES
    nf_ops,      \* netfreezeplug_security_ops is registered
    nf_plugged,  \* the device on the bus, NoDevice without one
    nf_plugs,    \* devices so far
    nf_refs,     \* references on each device
    nf_call      \* per process: [pc, inet, dev, ret]

nf_vars == <<nf_ops, nf_plugged, nf_plugs, nf_refs, nf_call>>

Devices == 1 .. MaxPlugs
Idle == [pc |-> "idle", inet |-> FALSE, dev |-> NoDevice, ret |-> "none"]

NfTypeOK ==
    /\ nf_ops \in BOOLEAN
    /\ nf_plugged \in Devices \cup {NoDevice} /\ nf_plugs \in 0 .. MaxPlugs
    /\ nf_refs \in [Devices -> Nat]
    /\ nf_call \in [Callers -> [pc : {"idle", "found", "done"}, inet : BOOLEAN,
                                dev : Devices \cup {NoDevice}, ret : {"none", "EPERM", "ok"}]]

NfInit ==
    /\ nf_ops = FALSE
    /\ nf_plugged = NoDevice /\ nf_plugs = 0
    /\ nf_refs = [d \in Devices |-> 0]
    /\ nf_call = [p \in Callers |-> Idle]

(* A symbol that is not found, or a security module that is there already, *)
(* makes it fail before anything is done.  netfreeze_exit undoes nothing,  *)
(* and is left out: after it the kernel would call code that is gone.      *)
netfreeze_init ==
    /\ ~ nf_ops
    /\ nf_ops' = TRUE
    /\ UNCHANGED <<nf_plugged, nf_plugs, nf_refs, nf_call>>

Plug ==
    /\ nf_plugged = NoDevice /\ nf_plugs < MaxPlugs
    /\ nf_plugs' = nf_plugs + 1
    /\ nf_plugged' = nf_plugs'
    /\ nf_refs' = [nf_refs EXCEPT ![nf_plugs'] = 1]
    /\ UNCHANGED <<nf_ops, nf_call>>

Unplug ==
    /\ nf_plugged # NoDevice
    /\ nf_refs' = [nf_refs EXCEPT ![nf_plugged] = @ - 1]
    /\ nf_plugged' = NoDevice
    /\ UNCHANGED <<nf_ops, nf_plugs, nf_call>>

(* netfreeze_socket up to its decision: usb_find_device takes a reference. *)
netfreeze_socket(p, inet) ==
    /\ nf_ops /\ nf_call[p].pc = "idle"
    /\ nf_refs' = IF nf_plugged = NoDevice THEN nf_refs ELSE [nf_refs EXCEPT ![nf_plugged] = @ + 1]
    /\ nf_call' = [nf_call EXCEPT ![p] =
                      IF nf_plugged = NoDevice /\ inet
                      THEN [pc |-> "done", inet |-> inet, dev |-> NoDevice, ret |-> "EPERM"]
                      ELSE [pc |-> "found", inet |-> inet, dev |-> nf_plugged, ret |-> "none"]]
    /\ UNCHANGED <<nf_ops, nf_plugged, nf_plugs>>

(* usb_put_dev takes no device too.  Fault: it is given the device that is *)
(* plugged in by now.                                                      *)
usb_put_dev_plugged(p) ==
    /\ nf_call[p].pc = "found"
    /\ nf_refs' = [d \in Devices |-> nf_refs[d] - IF d = nf_plugged THEN 1 ELSE 0]
    /\ nf_call' = [nf_call EXCEPT ![p].pc = "done", ![p].dev = NoDevice, ![p].ret = "ok"]
    /\ UNCHANGED <<nf_ops, nf_plugged, nf_plugs>>
usb_put_dev(p) ==
    /\ nf_call[p].pc = "found"
    /\ nf_refs' = [d \in Devices |-> nf_refs[d] - IF d = nf_call[p].dev THEN 1 ELSE 0]
    /\ nf_call' = [nf_call EXCEPT ![p].pc = "done", ![p].dev = NoDevice, ![p].ret = "ok"]
    /\ UNCHANGED <<nf_ops, nf_plugged, nf_plugs>>

Return(p) ==
    /\ nf_call[p].pc = "done"
    /\ nf_call' = [nf_call EXCEPT ![p] = Idle]
    /\ UNCHANGED <<nf_ops, nf_plugged, nf_plugs, nf_refs>>

NfNext ==
    \/ netfreeze_init \/ Plug \/ Unplug
    \/ \E p \in Callers, inet \in BOOLEAN : netfreeze_socket(p, inet)
    \/ \E p \in Callers : usb_put_dev(p) \/ Return(p)

NfSpec == NfInit /\ [][NfNext]_nf_vars

----------------------------------------------------------------------------
(* Properties                                                              *)

(* A device is referenced by the bus while it is plugged in and by the     *)
(* calls that found it, and by nothing else: it goes away with the last of *)
(* them, and never under a call, however often the key is pulled out and   *)
(* plugged in meanwhile.                                                   *)
NfRefsBalance ==
    \A d \in Devices :
        nf_refs[d] = Cardinality({p \in Callers : nf_call[p].dev = d})
                     + IF nf_plugged = d THEN 1 ELSE 0

(* Readme: the module cuts off the network when the key is plugged.  A     *)
(* call that found the key does not go on to create an internet socket.    *)
CutOffWhenPlugged ==
    \A p \in Callers :
        nf_call[p].pc = "found" /\ nf_call[p].inet => nf_call[p].dev = NoDevice
=============================================================================
