---------------------------- MODULE KernelProofs ----------------------------
(***************************************************************************)
(* Proofs about the module of modrefcnt, the security module of netplug    *)
(* and the program behind netfilter's queue: for any number of processes,  *)
(* insertions, keys and packets, and packets of any length.                *)
(***************************************************************************)
EXTENDS MCKernel, FiniteSetTheorems, TLAPS

----------------------------------------------------------------------------
(* modrefcnt                                                               *)

Opened == {p \in Procs : proc[p] # "closed"}
Holding == {p \in Procs : proc[p] \in {"open", "release"}}

Types ==
    /\ module \in {"unloaded", "live", "going"} \cup Steps
    /\ class \in BOOLEAN /\ cdev \in BOOLEAN /\ device \in BOOLEAN
    /\ devfail \in BOOLEAN /\ broken \in BOOLEAN
    /\ proc \in [Procs -> {"closed", "opening", "open", "release", "releasing"}]

(* What exists at each step of the insertion and after it.                 *)
Whole == module \in {"live", "going"} /\ ~ devfail
Made ==
    /\ class <=> Whole \/ module \in {"cdev_add", "device_create"}
    /\ cdev <=> Whole \/ module = "device_create"
    /\ device <=> Whole
    /\ module \in Steps => ~ devfail
    /\ broken => devfail /\ module = "unloaded"

(* Each insertion that got past its first step has its region.             *)
Regions ==
    /\ loads \in 0 .. MaxLoads
    /\ regions \in 0 .. loads
    /\ module = "alloc_chrdev_region" => regions < loads
    /\ module \in Steps \ {"alloc_chrdev_region"} => regions > 0

(* The count is a reference of the kernel for each file that is open, or   *)
(* on its way, and one of lb_open for each that it has not given back;     *)
(* files are open only while the cdev they were opened through could be.   *)
Refs ==
    /\ refcnt = Cardinality(Opened) + Cardinality(Holding)
    /\ Opened # {} => module \in {"device_create", "live"}

IInv == Types /\ Made /\ Regions /\ Refs

LEMMA SetsFinite ==
    /\ IsFiniteSet(Opened) /\ IsFiniteSet(Holding)
    /\ Cardinality(Opened) \in 0 .. Cardinality(Procs)
    /\ Cardinality(Holding) \in 0 .. Cardinality(Opened)
<1>1. Opened \subseteq Procs /\ Holding \subseteq Opened
  BY DEF Opened, Holding
<1>2. IsFiniteSet(Opened) /\ Cardinality(Opened) <= Cardinality(Procs)
  BY <1>1, ProcsAssumption, FS_Subset
<1>3. IsFiniteSet(Holding) /\ Cardinality(Holding) <= Cardinality(Opened)
  BY <1>1, <1>2, FS_Subset
<1>4. Cardinality(Procs) \in Nat /\ Cardinality(Opened) \in Nat /\ Cardinality(Holding) \in Nat
  BY <1>2, <1>3, ProcsAssumption, FS_CardinalityType
<1> QED
  BY <1>2, <1>3, <1>4

LEMMA IInvInit == Init => IInv
<1> SUFFICES ASSUME Init PROVE IInv
  OBVIOUS
<1>1. Types /\ Made
  BY DEF Init, Types, Made, Whole, Steps
<1>2. Regions
  BY MaxLoadsAssumption DEF Init, Regions, Steps
<1>3. Opened = {} /\ Holding = {}
  BY DEF Init, Opened, Holding
<1>4. Refs
  BY <1>3, FS_EmptySet DEF Init, Refs
<1> QED
  BY <1>1, <1>2, <1>4 DEF IInv

(* A step of the insertion leaves processes and count as they are.         *)
LEMMA LoadStep ==
    ASSUME IInv, insmod \/ alloc_chrdev_region \/ class_create \/ cdev_add \/ device_create
    PROVE  IInv'
<1>1. Opened' = Opened /\ Holding' = Holding /\ refcnt' = refcnt
  BY DEF insmod, alloc_chrdev_region, class_create, cdev_add, device_create, Opened, Holding
<1>2. Types'
  BY DEF IInv, Types, Steps, resources, insmod, alloc_chrdev_region, class_create, cdev_add, device_create,
         chrdev_class_create_err, chrdev_chardev_add_error, chrdev_device_create_err
<1>3. Made'
  BY DEF IInv, Types, Made, Whole, Steps, resources, insmod, alloc_chrdev_region, class_create, cdev_add,
         device_create, chrdev_class_create_err, chrdev_chardev_add_error, chrdev_device_create_err
<1>4. Regions'
  BY MaxLoadsAssumption
  DEF IInv, Regions, Steps, resources, insmod, alloc_chrdev_region, class_create, cdev_add,
      device_create, chrdev_class_create_err, chrdev_chardev_add_error, chrdev_device_create_err
<1>5. Opened # {} => module' \in {"device_create", "live"}
  BY DEF IInv, Refs, insmod, alloc_chrdev_region, class_create, cdev_add, device_create
<1> QED
  BY <1>1, <1>2, <1>3, <1>4, <1>5 DEF IInv, Refs

LEMMA UnloadStep ==
    ASSUME IInv, rmmod \/ resget_exit
    PROVE  IInv'
<1>1. Opened' = Opened /\ Holding' = Holding /\ refcnt' = refcnt
  BY DEF rmmod, resget_exit, Opened, Holding
<1>2. Opened = {}
  <2>1. CASE rmmod
    <3>1. Cardinality(Opened) \in Nat /\ Cardinality(Holding) \in Nat
      BY SetsFinite, FS_CardinalityType
    <3>2. Cardinality(Opened) + Cardinality(Holding) = 0
      BY <2>1 DEF rmmod, IInv, Refs
    <3>3. Cardinality(Opened) = 0
      BY <3>1, <3>2
    <3> QED
      BY <3>3, SetsFinite, FS_EmptySet
  <2>2. CASE resget_exit
    BY <2>2 DEF resget_exit, IInv, Refs
  <2> QED
    BY <2>1, <2>2
<1>3. Types'
  BY DEF IInv, Types, Steps, resources, rmmod, resget_exit
<1>4. Made'
  <2>1. CASE rmmod
    BY <2>1 DEF IInv, Types, Made, Whole, Steps, resources, rmmod
  <2>2. CASE resget_exit
    <3>1. class \in BOOLEAN /\ cdev \in BOOLEAN /\ (~ devfail => class /\ cdev)
      BY <2>2 DEF IInv, Types, Made, Whole, resget_exit
    <3>2. module' = "unloaded" /\ class' = FALSE /\ cdev' = FALSE /\ device' = FALSE
      BY <2>2 DEF resget_exit
    <3>3. broken' => devfail'
      BY <2>2, <3>1 DEF resget_exit
    <3> QED
      BY <3>2, <3>3 DEF Made, Whole, Steps
  <2> QED
    BY <2>1, <2>2
<1>5. Regions'
  BY DEF IInv, Regions, Steps, resources, rmmod, resget_exit
<1> QED
  BY <1>1, <1>2, <1>3, <1>4, <1>5 DEF IInv, Refs

LEMMA ProcStep ==
    ASSUME IInv, NEW p \in Procs,
           VfsOpen(p) \/ lb_open(p) \/ Close(p) \/ lb_release(p) \/ VfsRelease(p)
    PROVE  IInv'
<1> USE DEF Go
<1>1. UNCHANGED <<module, class, cdev, device, regions, devfail, broken, loads>>
  BY DEF VfsOpen, lb_open, Close, lb_release, VfsRelease, resources
<1>2. Types' /\ Made' /\ Regions'
  BY <1>1 DEF IInv, Types, Made, Whole, Regions, VfsOpen, lb_open, Close, lb_release, VfsRelease
<1>3. /\ Cardinality(Opened) \in Nat /\ Cardinality(Holding) \in Nat
      /\ proc \in [Procs -> {"closed", "opening", "open", "release", "releasing"}]
  BY SetsFinite, FS_CardinalityType DEF IInv, Types
<1>4. CASE VfsOpen(p)
  <2>1. Opened' = Opened \cup {p} /\ p \notin Opened /\ Holding' = Holding
    BY <1>3, <1>4 DEF VfsOpen, Opened, Holding
  <2>2. Cardinality(Opened') = Cardinality(Opened) + 1
    BY <2>1, SetsFinite, FS_AddElement
  <2>3. module' \in {"device_create", "live"}
    BY <1>1, <1>4 DEF VfsOpen, IInv, Types, Made, Whole, Steps
  <2>4. refcnt' = refcnt + 1
    BY <1>4 DEF VfsOpen, OwnerRefs
  <2>5. Refs'
    BY <1>3, <2>1, <2>2, <2>3, <2>4 DEF IInv, Refs
  <2> QED
    BY <1>2, <2>5 DEF IInv
<1>5. CASE lb_open(p)
  <2>1. Holding' = Holding \cup {p} /\ p \notin Holding /\ Opened' = Opened
    BY <1>3, <1>5 DEF lb_open, Opened, Holding
  <2>2. Cardinality(Holding') = Cardinality(Holding) + 1
    BY <2>1, SetsFinite, FS_AddElement
  <2>3. refcnt' = refcnt + 1
    BY <1>5 DEF lb_open
  <2>4. Refs'
    BY <1>1, <1>3, <2>1, <2>2, <2>3 DEF IInv, Refs
  <2> QED
    BY <1>2, <2>4 DEF IInv
<1>6. CASE Close(p)
  <2>1. Holding' = Holding /\ Opened' = Opened
    BY <1>3, <1>6 DEF Close, Opened, Holding
  <2> QED
    BY <1>1, <1>2, <1>6, <2>1 DEF IInv, Refs, Close
<1>7. CASE lb_release(p)
  <2>1. Holding' = Holding \ {p} /\ p \in Holding /\ Opened' = Opened
    BY <1>3, <1>7 DEF lb_release, Opened, Holding
  <2>2. Cardinality(Holding') = Cardinality(Holding) - 1
    BY <2>1, SetsFinite, FS_RemoveElement
  <2>3. refcnt' = refcnt - 1
    BY <1>7 DEF lb_release
  <2>4. Refs'
    BY <1>1, <1>3, <2>1, <2>2, <2>3 DEF IInv, Refs
  <2> QED
    BY <1>2, <2>4 DEF IInv
<1>8. CASE VfsRelease(p)
  <2>1. Opened' = Opened \ {p} /\ p \in Opened /\ Holding' = Holding
    BY <1>3, <1>8 DEF VfsRelease, Opened, Holding
  <2>2. Cardinality(Opened') = Cardinality(Opened) - 1
    BY <2>1, SetsFinite, FS_RemoveElement
  <2>3. refcnt' = refcnt - 1
    BY <1>8 DEF VfsRelease, OwnerRefs
  <2>4. Refs'
    BY <1>1, <1>3, <2>1, <2>2, <2>3 DEF IInv, Refs
  <2> QED
    BY <1>2, <2>4 DEF IInv
<1> QED
  BY <1>4, <1>5, <1>6, <1>7, <1>8

LEMMA IInvNext == IInv /\ [Next]_vars => IInv'
<1> SUFFICES ASSUME IInv, [Next]_vars PROVE IInv'
  OBVIOUS
<1>1. CASE UNCHANGED vars
  BY <1>1 DEF vars, resources, IInv, Types, Made, Whole, Regions, Refs, Opened, Holding
<1>2. CASE Next
  BY <1>2, LoadStep, UnloadStep, ProcStep DEF Next
<1> QED
  BY <1>1, <1>2

(* The inductive invariant: what exists at each step of insertion and      *)
(* removal, and the count as a sum over the processes.                     *)
THEOREM Invariant == Spec => []IInv
BY IInvInit, IInvNext, PTL DEF Spec

(* Types and ranges of the module's state, the count's included.           *)
THEOREM ModTypeCorrect == Spec => []TypeOK
<1>1. IInv => TypeOK
  BY SetsFinite, ProcsAssumption, MaxLoadsAssumption, FS_CardinalityType DEF IInv, Types, Regions, Refs, TypeOK
<1> QED
  BY <1>1, Invariant, PTL

(* The module's code stays in memory while a process runs in it, although  *)
(* lb_release gives its reference back before it returns.                  *)
THEOREM ModCodeStays == Spec => []CodeStays
<1>1. IInv => CodeStays
  BY DEF IInv, Refs, Opened, CodeStays
<1> QED
  BY <1>1, Invariant, PTL

(* Insertion undoes every step before the one that failed.                 *)
THEOREM ModUnloadedIsClean == Spec => []UnloadedIsClean
<1>1. IInv => UnloadedIsClean
  BY DEF IInv, Made, Whole, Steps, UnloadedIsClean
<1> QED
  BY <1>1, Invariant, PTL

(* What does not exist is released only after device_create had failed and *)
(* resget_init had succeeded all the same.                                 *)
THEOREM ModBrokenOnlyByDevice == Spec => []BrokenOnlyByDevice
<1>1. IInv => BrokenOnlyByDevice
  BY DEF IInv, Made, BrokenOnlyByDevice
<1> QED
  BY <1>1, Invariant, PTL

----------------------------------------------------------------------------
(* netplug                                                                 *)

(* The calls that hold device d.                                           *)
Finders(d) == {p \in Callers : nf_call[p].dev = d}

NfTypes ==
    /\ nf_ops \in BOOLEAN
    /\ nf_plugged \in Devices \cup {NoDevice} /\ nf_plugs \in 0 .. MaxPlugs
    /\ nf_call \in [Callers -> [pc : {"idle", "found", "done"}, inet : BOOLEAN,
                                dev : Devices \cup {NoDevice}, ret : {"none", "EPERM", "ok"}]]

(* A call holds a device only between its search and usb_put_dev, and      *)
(* nobody has a device that was never plugged in.                          *)
Held ==
    /\ nf_plugged # NoDevice => nf_plugged <= nf_plugs
    /\ \A p \in Callers :
          nf_call[p].dev # NoDevice => nf_call[p].pc = "found" /\ nf_call[p].dev <= nf_plugs

Balance ==
    nf_refs = [d \in Devices |-> Cardinality(Finders(d)) + IF nf_plugged = d THEN 1 ELSE 0]

NfInv == NfTypes /\ Held /\ Balance

LEMMA FindersFinite ==
    ASSUME NEW d PROVE IsFiniteSet(Finders(d)) /\ Cardinality(Finders(d)) \in Nat
<1>1. Finders(d) \subseteq Callers
  BY DEF Finders
<1> QED
  BY <1>1, CallersAssumption, FS_Subset, FS_CardinalityType

LEMMA NfInvInit == NfInit => NfInv
<1> SUFFICES ASSUME NfInit PROVE NfInv
  OBVIOUS
<1>1. NfTypes
  <2>1. Idle \in [pc : {"idle", "found", "done"}, inet : BOOLEAN,
                  dev : Devices \cup {NoDevice}, ret : {"none", "EPERM", "ok"}]
    BY DEF Idle
  <2>2. nf_ops \in BOOLEAN
    BY DEF NfInit
  <2> QED
    BY <2>1, <2>2, MaxPlugsAssumption DEF NfInit, NfTypes
<1>4. Held
  BY DEF NfInit, Held, Idle
<1>2. \A d \in Devices : Finders(d) = {} /\ nf_plugged # d
  BY NoDeviceAssumption DEF NfInit, Finders, Idle, Devices
<1>3. Balance
  BY <1>2, FS_EmptySet DEF NfInit, Balance
<1> QED
  BY <1>1, <1>3, <1>4 DEF NfInv

LEMMA PlugStep == ASSUME NfInv, Plug PROVE NfInv'
<1>1. NfTypes' /\ Held'
  BY MaxPlugsAssumption DEF NfInv, NfTypes, Held, Plug, Devices
<1>2. \A d \in Devices : Finders(d)' = Finders(d)
  BY DEF Plug, Finders
<1>3. nf_plugs + 1 \in Devices /\ nf_plugs \in Nat
  BY MaxPlugsAssumption DEF NfInv, NfTypes, Plug, Devices
<1>4. Finders(nf_plugs + 1) = {}
  BY <1>3, NoDeviceAssumption DEF NfInv, NfTypes, Held, Finders, Devices
<1>5. Cardinality(Finders(nf_plugs + 1)) = 0
  BY <1>4, FS_EmptySet
<1>6. \A d \in Devices : nf_refs'[d] = Cardinality(Finders(d)) + IF nf_plugged' = d THEN 1 ELSE 0
  BY <1>3, <1>5, NoDeviceAssumption, FindersFinite DEF NfInv, Balance, Plug, Devices
<1>7. Balance'
  BY <1>2, <1>6 DEF NfInv, Balance, Plug
<1> QED
  BY <1>1, <1>7 DEF NfInv

LEMMA UnplugStep == ASSUME NfInv, Unplug PROVE NfInv'
<1>1. NfTypes' /\ Held'
  BY DEF NfInv, NfTypes, Held, Unplug
<1>2. \A d \in Devices : Finders(d)' = Finders(d)
  BY DEF Unplug, Finders
<1>3. nf_plugged \in Devices
  BY DEF NfInv, NfTypes, Unplug
<1>4. \A d \in Devices : nf_refs'[d] = Cardinality(Finders(d)) + IF nf_plugged' = d THEN 1 ELSE 0
  BY <1>3, NoDeviceAssumption, FindersFinite DEF NfInv, Balance, Unplug, Devices
<1>5. Balance'
  BY <1>2, <1>4 DEF NfInv, Balance, Unplug
<1> QED
  BY <1>1, <1>5 DEF NfInv

LEMMA SocketStep ==
    ASSUME NfInv, NEW p \in Callers, NEW inet \in BOOLEAN, netfreeze_socket(p, inet)
    PROVE  NfInv'
<1>1. NfTypes' /\ Held'
  BY DEF NfInv, NfTypes, Held, netfreeze_socket
<1>2. nf_call[p].dev = NoDevice
  BY DEF NfInv, Held, netfreeze_socket
<1>3. \A q \in Callers : nf_call'[q].dev = IF q = p THEN nf_plugged ELSE nf_call[q].dev
  BY DEF NfInv, NfTypes, netfreeze_socket
<1>4. CASE nf_plugged = NoDevice
  <2>1. \A d \in Devices : Finders(d)' = Finders(d)
    BY <1>2, <1>3, <1>4 DEF Finders
  <2> QED
    BY <1>1, <1>4, <2>1 DEF NfInv, Balance, netfreeze_socket
<1>5. CASE nf_plugged # NoDevice
  <2>1. nf_plugged \in Devices
    BY <1>5 DEF NfInv, NfTypes
  <2>2. \A d \in Devices : d # nf_plugged => Finders(d)' = Finders(d)
    BY <1>2, <1>3, NoDeviceAssumption DEF Finders, Devices
  <2>3. Finders(nf_plugged)' = Finders(nf_plugged) \cup {p} /\ p \notin Finders(nf_plugged)
    BY <1>2, <1>3, <1>5 DEF Finders, netfreeze_socket
  <2>4. Cardinality(Finders(nf_plugged)') = Cardinality(Finders(nf_plugged)) + 1
    BY <2>3, FindersFinite, FS_AddElement
  <2>5. nf_plugged' = nf_plugged
    BY DEF netfreeze_socket
  <2>6. \A d \in Devices : nf_refs'[d] = Cardinality(Finders(d)') + IF nf_plugged = d THEN 1 ELSE 0
    BY <1>5, <2>1, <2>2, <2>4, FindersFinite DEF NfInv, Balance, netfreeze_socket
  <2>7. Balance'
    BY <1>5, <2>5, <2>6 DEF NfInv, Balance, netfreeze_socket
  <2> QED
    BY <1>1, <2>7 DEF NfInv
<1> QED
  BY <1>4, <1>5

LEMMA PutStep == ASSUME NfInv, NEW p \in Callers, usb_put_dev(p) PROVE NfInv'
<1>1. NfTypes' /\ Held'
  BY DEF NfInv, NfTypes, Held, usb_put_dev
<1>2. \A q \in Callers : nf_call'[q].dev = IF q = p THEN NoDevice ELSE nf_call[q].dev
  BY DEF NfInv, NfTypes, usb_put_dev
<1>3. \A d \in Devices :
         Cardinality(Finders(d)') = Cardinality(Finders(d)) - IF d = nf_call[p].dev THEN 1 ELSE 0
  <2> TAKE d \in Devices
  <2>1. CASE d = nf_call[p].dev
    <3>1. Finders(d)' = Finders(d) \ {p} /\ p \in Finders(d)
      BY <1>2, <2>1, NoDeviceAssumption DEF Finders, Devices
    <3> QED
      BY <2>1, <3>1, FindersFinite, FS_RemoveElement
  <2>2. CASE d # nf_call[p].dev
    <3>1. Finders(d)' = Finders(d)
      BY <1>2, <2>2, NoDeviceAssumption DEF Finders, Devices
    <3> QED
      BY <2>2, <3>1, FindersFinite
  <2> QED
    BY <2>1, <2>2
<1>4. \A d \in Devices : nf_refs'[d] = Cardinality(Finders(d)') + IF nf_plugged = d THEN 1 ELSE 0
  BY <1>3, FindersFinite DEF NfInv, Balance, usb_put_dev
<1>5. Balance'
  BY <1>4 DEF NfInv, Balance, usb_put_dev
<1> QED
  BY <1>1, <1>5 DEF NfInv

LEMMA ReturnStep == ASSUME NfInv, NEW p \in Callers, Return(p) PROVE NfInv'
<1>1. NfTypes' /\ Held'
  BY DEF NfInv, NfTypes, Held, Return, Idle
<1>2. \A d \in Devices : Finders(d)' = Finders(d)
  BY NoDeviceAssumption DEF NfInv, NfTypes, Held, Return, Idle, Finders, Devices
<1>3. Balance'
  BY <1>2 DEF NfInv, Balance, Return
<1> QED
  BY <1>1, <1>3 DEF NfInv

LEMMA NfInvNext == NfInv /\ [NfNext]_nf_vars => NfInv'
<1> SUFFICES ASSUME NfInv, [NfNext]_nf_vars PROVE NfInv'
  OBVIOUS
<1>1. CASE UNCHANGED nf_vars
  BY <1>1 DEF nf_vars, NfInv, NfTypes, Held, Balance, Finders
<1>2. CASE netfreeze_init
  BY <1>2 DEF netfreeze_init, NfInv, NfTypes, Held, Balance, Finders
<1> QED
  BY <1>1, <1>2, PlugStep, UnplugStep, SocketStep, PutStep, ReturnStep DEF NfNext

(* The inductive invariant: who holds which device, and its count.         *)
THEOREM NfInvariant == NfSpec => []NfInv
BY NfInvInit, NfInvNext, PTL DEF NfSpec

(* The references on a device are those of the bus and of the calls that   *)
(* found it, whatever is plugged in or out between usb_find_device and     *)
(* usb_put_dev.                                                            *)
THEOREM NfBalanced == NfSpec => []NfRefsBalance
<1>1. NfInv => NfRefsBalance
  BY DEF NfInv, Balance, NfRefsBalance, Finders
<1> QED
  BY <1>1, NfInvariant, PTL

(* No reference is given up that was not taken: the count is never below 0.*)
THEOREM NfTypeCorrect == NfSpec => []NfTypeOK
<1>1. NfInv => NfTypeOK
  BY FindersFinite DEF NfInv, NfTypes, Balance, NfTypeOK
<1> QED
  BY <1>1, NfInvariant, PTL

----------------------------------------------------------------------------
(* nfqueue_example                                                         *)

(* p is rewritten on account of its own text.                              *)
Erased(p) == p.tcp /\ Visible(p)

(* Every keyword in the buffer is where a packet had it that did not give  *)
(* corrupt_packet a reason to erase it.                                    *)
Leftover(buff, seen) ==
    \A k \in 1 .. BufLen :
        buff[k] = "PRIVMS" =>
            \E n \in 1 .. Len(seen) :
                /\ ~ Erased(seen[n])
                /\ k \in 1 .. Len(seen[n].payload) /\ seen[n].payload[k] = "PRIVMS"

SqInv ==
    /\ sq_seen \in Seq(Packets)
    /\ Leftover(sq_buff, sq_seen)
    /\ SqWellFormed
    /\ SqOthersUntouched

----------------------------------------------------------------------------
(* The steps of a packet                                                   *)

(* Its payload is a sequence that fits the buffer.                         *)
LEMMA Payload ==
    ASSUME NEW p \in Packets
    PROVE  /\ Len(p.payload) \in Nat /\ Len(p.payload) <= BufLen
           /\ DOMAIN p.payload = 1 .. Len(p.payload)
           /\ \A k \in 1 .. Len(p.payload) : k \in 1 .. BufLen
BY PacketsAssumption, LengthsAssumption

(* recv puts it in front of what was left there.                           *)
LEMMA Received ==
    ASSUME NEW p \in Packets, NEW k \in 1 .. BufLen
    PROVE  /\ k \in 1 .. Len(p.payload) => recv(p)[k] = p.payload[k]
           /\ k \notin 1 .. Len(p.payload) => recv(p)[k] = sq_buff[k]
BY Payload, LengthsAssumption DEF recv

(* What strstr finds is in the packet and visible there, or behind it,     *)
(* where no NUL within the packet stops the search.                        *)
LEMMA Hits ==
    ASSUME NEW p \in Packets
    PROVE  /\ Visible(p) => strstr(recv(p))
           /\ strstr(recv(p)) /\ ~ Visible(p) =>
                 /\ "nul" \notin {p.payload[i] : i \in DOMAIN p.payload}
                 /\ \E k \in Len(p.payload) + 1 .. BufLen : sq_buff[k] = "PRIVMS"
<1>1. ASSUME Visible(p) PROVE strstr(recv(p))
  <2>1. PICK k \in 1 .. Len(p.payload) :
           p.payload[k] = "PRIVMS" /\ \A j \in 1 .. k - 1 : p.payload[j] # "nul"
    BY <1>1, Payload DEF Visible
  <2>2. k \in 1 .. BufLen /\ recv(p)[k] = "PRIVMS"
    BY <2>1, Payload, Received
  <2>3. ASSUME NEW j \in 1 .. k - 1 PROVE recv(p)[j] # "nul"
    <3>1. j \in 1 .. Len(p.payload) /\ j \in 1 .. BufLen
      BY Payload, LengthsAssumption
    <3> QED
      BY <2>1, <3>1, Received
  <2> QED
    BY <2>2, <2>3 DEF strstr
<1>2. ASSUME strstr(recv(p)), ~ Visible(p)
      PROVE  /\ "nul" \notin {p.payload[i] : i \in DOMAIN p.payload}
             /\ \E k \in Len(p.payload) + 1 .. BufLen : sq_buff[k] = "PRIVMS"
  <2>1. PICK k \in 1 .. BufLen :
           recv(p)[k] = "PRIVMS" /\ \A j \in 1 .. k - 1 : recv(p)[j] # "nul"
    BY <1>2 DEF strstr
  <2>2. ASSUME NEW j \in 1 .. k - 1, j \in 1 .. Len(p.payload) PROVE p.payload[j] # "nul"
    <3>1. j \in 1 .. BufLen
      BY LengthsAssumption
    <3> QED
      BY <2>1, <2>2, <3>1, Received
  <2>3. k \notin 1 .. Len(p.payload)
    <3> SUFFICES ASSUME k \in 1 .. Len(p.payload) PROVE FALSE
      OBVIOUS
    <3>1. p.payload[k] = "PRIVMS"
      BY <2>1, Received
    <3>2. \A j \in 1 .. k - 1 : j \in 1 .. Len(p.payload)
      BY Payload
    <3> QED
      BY <1>2, <2>2, <3>1, <3>2, Payload DEF Visible
  <2>4. k \in Len(p.payload) + 1 .. BufLen /\ sq_buff[k] = "PRIVMS"
    BY <2>1, <2>3, Payload, Received, LengthsAssumption
  <2>5. \A i \in DOMAIN p.payload : i \in 1 .. k - 1 /\ i \in 1 .. Len(p.payload)
    BY <2>4, Payload, LengthsAssumption
  <2> QED
    BY <2>2, <2>4, <2>5
<1> QED
  BY <1>1, <1>2

(* Seen once more, earlier packets stay where they were.                   *)
LEMMA Appended ==
    ASSUME NEW seen \in Seq(Packets), NEW p \in Packets
    PROVE  LET s == Append(seen, p) IN
           /\ s \in Seq(Packets) /\ Len(s) = Len(seen) + 1 /\ s[Len(s)] = p
           /\ \A n \in 1 .. Len(seen) : n \in 1 .. Len(s) - 1 /\ n \in 1 .. Len(s) /\ s[n] = seen[n]
           /\ Len(s) \in 1 .. Len(s)
OBVIOUS

(* A keyword in the buffer afterwards: an old one, or one of a packet that *)
(* was let through.                                                        *)
LEMMA LeftoverStep ==
    ASSUME SqInv, NEW p \in Packets, process_packet(p)
    PROVE  Leftover(sq_buff', sq_seen')
<1> DEFINE len == Len(p.payload)
<1> DEFINE hit == p.tcp /\ strstr(recv(p))
<1>1. sq_seen' = Append(sq_seen, p) /\ sq_seen \in Seq(Packets)
  BY DEF process_packet, SqInv
<1>2. sq_buff' = IF hit THEN corrupt_packet(recv(p), len).buff ELSE recv(p)
  BY DEF process_packet
<1>3. Erased(p) => hit
  BY Hits DEF Erased
<1>4. ASSUME NEW k \in 1 .. BufLen, sq_buff'[k] = "PRIVMS"
      PROVE  recv(p)[k] = "PRIVMS" /\ (k \in 1 .. len => ~ hit)
  <2>1. CASE ~ hit
    BY <1>2, <1>4, <2>1
  <2>2. CASE hit
    <3>1. \A i \in 1 .. BufLen :
             corrupt_packet(recv(p), len).buff[i] \in {"new", erased(recv(p), len)[i]}
      BY DEF corrupt_packet, erased
    <3>2. erased(recv(p), len)[k] = "PRIVMS"
      BY <1>2, <1>4, <2>2, <3>1
    <3>3. recv(p)[k] = "PRIVMS" /\ ~ (k <= len)
      BY <3>2 DEF erased
    <3> QED
      BY <3>3, Payload
  <2> QED
    BY <2>1, <2>2
<1> HIDE DEF hit
<1> SUFFICES ASSUME NEW k \in 1 .. BufLen, sq_buff'[k] = "PRIVMS"
             PROVE  \E n \in 1 .. Len(sq_seen') :
                       /\ ~ Erased(sq_seen'[n])
                       /\ k \in 1 .. Len(sq_seen'[n].payload) /\ sq_seen'[n].payload[k] = "PRIVMS"
  BY DEF Leftover
<1>5. CASE k \in 1 .. len
  <2>1. p.payload[k] = "PRIVMS" /\ ~ Erased(p)
    BY <1>3, <1>4, <1>5, Received
  <2> QED
    BY <1>1, <1>5, <2>1, Appended
<1>6. CASE k \notin 1 .. len
  <2>1. sq_buff[k] = "PRIVMS"
    BY <1>4, <1>6, Received
  <2>2. PICK n \in 1 .. Len(sq_seen) :
           /\ ~ Erased(sq_seen[n])
           /\ k \in 1 .. Len(sq_seen[n].payload) /\ sq_seen[n].payload[k] = "PRIVMS"
    BY <2>1 DEF SqInv, Leftover
  <2> QED
    BY <1>1, <2>2, Appended
<1> QED
  BY <1>5, <1>6

(* What leaves: the new text, or what came.                                *)
LEMMA Verdict ==
    ASSUME NEW p \in Packets, process_packet(p)
    PROVE  /\ sq_sent'.ip_len = Hdr + Len(sq_sent'.payload)
           /\ IF p.tcp /\ strstr(recv(p)) /\ NewLen <= Len(p.payload)
              THEN sq_sent'.payload = [i \in 1 .. NewLen |-> "new"]
              ELSE sq_sent'.payload = p.payload
<1> DEFINE len == Len(p.payload)
<1>1. len \in Nat /\ len <= BufLen /\ Hdr \in Nat \ {0} /\ NewLen \in Nat \ {0} /\ NewLen <= BufLen
  BY Payload, LengthsAssumption
<1>2. CASE ~ (p.tcp /\ strstr(recv(p)))
  <2>1. sq_sent' = [ip_len |-> Hdr + len, payload |-> SubSeq(recv(p), 1, (Hdr + len) - Hdr)]
    <3> DEFINE r == [buff |-> recv(p), tlen |-> Hdr + len, ip_len |-> Hdr + len]
    <3>1. sq_sent' = set_verdict(p, r)
      BY <1>2 DEF process_packet
    <3>2. Hdr + len # 0
      BY <1>1
    <3> QED
      BY <3>1, <3>2 DEF set_verdict
  <2>2. SubSeq(recv(p), 1, len) = p.payload
    <3>1. p.payload = [i \in 1 .. len |-> p.payload[i]]
      BY PacketsAssumption
    <3>2. SubSeq(recv(p), 1, len) = [i \in 1 .. len |-> recv(p)[i]]
      BY <1>1 DEF recv
    <3>3. \A i \in 1 .. len : recv(p)[i] = p.payload[i]
      BY Payload, Received
    <3> QED
      BY <3>1, <3>2, <3>3
  <2> QED
    BY <1>1, <1>2, <2>1, <2>2
<1>3. CASE p.tcp /\ strstr(recv(p)) /\ NewLen > len
  <2>1. sq_sent' = [ip_len |-> Hdr + len, payload |-> p.payload]
    BY <1>1, <1>3 DEF process_packet, set_verdict, corrupt_packet
  <2> QED
    BY <1>1, <1>3, <2>1
<1>4. CASE p.tcp /\ strstr(recv(p)) /\ NewLen <= len
  <2> DEFINE new == [i \in 1 .. BufLen |-> IF i <= NewLen THEN "new" ELSE erased(recv(p), len)[i]]
  <2>1. new_ip_len(len) = Hdr + NewLen
    BY <1>1 DEF new_ip_len
  <2>2. corrupt_packet(recv(p), len) = [buff |-> new, tlen |-> Hdr + NewLen, ip_len |-> Hdr + NewLen]
    BY <1>1, <1>4, <2>1 DEF corrupt_packet
  <2> HIDE DEF new
  <2>3. sq_sent' = [ip_len |-> Hdr + NewLen, payload |-> SubSeq(new, 1, (Hdr + NewLen) - Hdr)]
    BY <1>1, <1>4, <2>2 DEF process_packet, set_verdict
  <2>4. SubSeq(new, 1, NewLen) = [i \in 1 .. NewLen |-> "new"]
    <3>1. SubSeq(new, 1, NewLen) = [i \in 1 .. NewLen |-> new[i]]
      BY <1>1 DEF new
    <3>2. \A i \in 1 .. NewLen : new[i] = "new"
      BY <1>1, LengthsAssumption DEF new
    <3> QED
      BY <3>1, <3>2
  <2>5. Len([i \in 1 .. NewLen |-> "new"]) = NewLen
    BY <1>1
  <2> QED
    BY <1>1, <1>4, <2>3, <2>4, <2>5
<1> QED
  BY <1>1, <1>2, <1>3, <1>4

LEMMA PacketStep ==
    ASSUME SqInv, NEW p \in Packets, process_packet(p)
    PROVE  SqInv'
<1>1. sq_seen' = Append(sq_seen, p) /\ sq_seen \in Seq(Packets)
  BY DEF process_packet, SqInv
<1>2. sq_seen' \in Seq(Packets) /\ Arrived' = p
  BY <1>1, Appended DEF Arrived
<1>3. SqWellFormed'
  BY <1>2, Verdict, Hits DEF SqWellFormed, Squashed
<1>4. SqOthersUntouched'
  <2> SUFFICES ASSUME sq_sent'.payload # p.payload, ~ Squashed'
               PROVE  /\ p.tcp /\ "nul" \notin {p.payload[i] : i \in DOMAIN p.payload}
                      /\ \E n \in 1 .. Len(sq_seen') - 1 :
                            /\ ~ Erased(sq_seen'[n])
                            /\ \E k \in Len(p.payload) + 1 .. Len(sq_seen'[n].payload) :
                                  sq_seen'[n].payload[k] = "PRIVMS"
    BY <1>2 DEF SqOthersUntouched, Erased
  <2>1. p.tcp /\ strstr(recv(p)) /\ NewLen <= Len(p.payload)
    BY Verdict
  <2>2. ~ Visible(p)
    BY <1>2, <2>1, Payload, LengthsAssumption DEF Squashed
  <2>3. PICK k \in Len(p.payload) + 1 .. BufLen : sq_buff[k] = "PRIVMS"
    BY <2>1, <2>2, Hits
  <2>4. k \in 1 .. BufLen
    BY <2>3, Payload
  <2>5. PICK n \in 1 .. Len(sq_seen) :
           /\ ~ Erased(sq_seen[n])
           /\ k \in 1 .. Len(sq_seen[n].payload) /\ sq_seen[n].payload[k] = "PRIVMS"
    BY <2>3, <2>4 DEF SqInv, Leftover
  <2>6. sq_seen[n] \in Packets
    BY <1>1
  <2>7. k \in Len(p.payload) + 1 .. Len(sq_seen[n].payload)
    BY <2>3, <2>5, <2>6, Payload
  <2>8. n \in 1 .. Len(sq_seen') - 1 /\ sq_seen'[n] = sq_seen[n]
    BY <1>1, Appended
  <2> QED
    BY <2>1, <2>2, <2>5, <2>7, <2>8, Hits
<1> QED
  BY <1>2, <1>3, <1>4, LeftoverStep DEF SqInv

LEMMA SqInvInit == SqInit => SqInv
<1> SUFFICES ASSUME SqInit PROVE SqInv
  OBVIOUS
<1>1. sq_seen \in Seq(Packets) /\ sq_sent = <<>>
  BY DEF SqInit
<1>2. Leftover(sq_buff, sq_seen)
  BY DEF SqInit, Leftover
<1> QED
  BY <1>1, <1>2 DEF SqInv, SqWellFormed, SqOthersUntouched

LEMMA SqInvNext == SqInv /\ [SqNext]_sq_vars => SqInv'
<1> SUFFICES ASSUME SqInv, [SqNext]_sq_vars PROVE SqInv'
  OBVIOUS
<1>1. CASE UNCHANGED <<sq_buff, sq_seen, sq_sent>>
  BY <1>1 DEF SqInv, SqWellFormed, SqOthersUntouched, Squashed, Arrived
<1>2. CASE UNCHANGED <<sq_buff, sq_seen>> /\ sq_sent' = <<>>
  BY <1>2 DEF SqInv, SqWellFormed, SqOthersUntouched
<1>3. ASSUME NEW p \in Packets, process_packet(p) PROVE SqInv'
  BY <1>3, PacketStep
<1> QED
  BY <1>1, <1>2, <1>3 DEF SqNext, sq_vars, init_appz, checksum_fails, process_packet_nopayload

----------------------------------------------------------------------------
(* The theorems                                                            *)

(* The inductive invariant: where keywords in the buffer come from.        *)
THEOREM SqInvariant == SqSpec => []SqInv
BY SqInvInit, SqInvNext, PTL DEF SqSpec

(* A TCP packet that shows the keyword leaves with the new text, and every *)
(* packet that leaves says its own length.                                 *)
THEOREM SqPacketsWellFormed == SqSpec => []SqWellFormed
<1>1. SqInv => SqWellFormed
  BY DEF SqInv
<1> QED
  BY <1>1, SqInvariant, PTL

(* Any other packet leaves as it came, but for keywords that earlier ones  *)
(* left behind it in the buffer.                                           *)
THEOREM SqPacketsUntouched == SqSpec => []SqOthersUntouched
<1>1. SqInv => SqOthersUntouched
  BY DEF SqInv
<1> QED
  BY <1>1, SqInvariant, PTL

----------------------------------------------------------------------------
(* The composition.  No step of one part changes what another one has, so  *)
(* a behaviour of KernelSpec is one of each of them, stuttering where      *)
(* another was chosen.                                                     *)

LEMMA KernelSteps ==
    ASSUME [KernelNext]_kernel_vars
    PROVE  [Next]_vars /\ [NfNext]_nf_vars /\ [SqNext]_sq_vars
BY DEF KernelNext, kernel_vars

(* What is proved of each part above holds of the composition.             *)
THEOREM KernelParts == KernelSpec => Spec /\ NfSpec /\ SqSpec
<1>1. KernelInit => Init /\ NfInit /\ SqInit
  BY DEF KernelInit
<1> QED
  BY <1>1, KernelSteps, PTL DEF KernelSpec, Spec, NfSpec, SqSpec

(* The counters of modrefcnt and the calls and devices of netplug have     *)
(* their types and ranges, whichever part runs.                            *)
THEOREM KernelTypes == KernelSpec => []KernelTypeOK
<1>1. TypeOK /\ NfTypeOK => KernelTypeOK
  BY DEF KernelTypeOK
<1> QED
  BY <1>1, KernelParts, ModTypeCorrect, NfTypeCorrect, PTL
=============================================================================
