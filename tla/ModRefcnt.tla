----------------------------- MODULE ModRefcnt -----------------------------
(***************************************************************************)
(* The kernel module of modrefcnt: insertion (resget_init, with each of    *)
(* its four steps failing), removal (resget_exit), and processes that open *)
(* and close its device (lb_open, lb_release) meanwhile.                   *)
(*                                                                         *)
(* The kernel's part is external: opening takes a reference on the owner   *)
(* of the file operations before it calls lb_open, closing drops it after  *)
(* lb_release has returned; a module is removed only while its count is 0, *)
(* and from then on no reference can be taken.                             *)
(***************************************************************************)
EXTENDS Integers, FiniteSets

CONSTANTS
    Procs,     \* processes that open the device, one file each
    MaxLoads   \* bound: insertions

ASSUME ProcsAssumption    == IsFiniteSet(Procs)
ASSUME MaxLoadsAssumption == MaxLoads \in Nat

VARIABLES
    module,     \* "unloaded", the step resget_init is at, "live", "going"
    class, cdev, device,  \* whether each exists
    regions,    \* device number regions registered
    devfail,    \* device_create failed in the current insertion
    broken,     \* something was released that did not exist
    loads,      \* insertions so far
    refcnt,     \* module_refcount(THIS_MODULE)
    proc        \* per process: "closed", "opening", "open", "release", "releasing"

resources == <<class, cdev, device, regions>>
vars == <<module, resources, devfail, broken, loads, refcnt, proc>>

Steps == {"alloc_chrdev_region", "class_create", "cdev_add", "device_create"}

TypeOK ==
    /\ module \in {"unloaded", "live", "going"} \cup Steps
    /\ class \in BOOLEAN /\ cdev \in BOOLEAN /\ device \in BOOLEAN
    /\ regions \in 0 .. MaxLoads
    /\ devfail \in BOOLEAN /\ broken \in BOOLEAN
    /\ loads \in 0 .. MaxLoads
    /\ refcnt \in 0 .. 2 * Cardinality(Procs)
    /\ proc \in [Procs -> {"closed", "opening", "open", "release", "releasing"}]

Init ==
    /\ module = "unloaded"
    /\ class = FALSE /\ cdev = FALSE /\ device = FALSE
    /\ regions = 0
    /\ devfail = FALSE /\ broken = FALSE
    /\ loads = 0
    /\ refcnt = 0
    /\ proc = [p \in Procs |-> "closed"]

----------------------------------------------------------------------------
(* resget_init and resget_create_char_device                               *)

insmod ==
    /\ module = "unloaded" /\ loads < MaxLoads /\ ~ broken
    /\ module' = "alloc_chrdev_region"
    /\ loads' = loads + 1
    /\ devfail' = FALSE
    /\ UNCHANGED <<resources, broken, refcnt, proc>>

alloc_chrdev_region ==
    /\ module = "alloc_chrdev_region"
    /\ \/ regions' = regions + 1 /\ module' = "class_create"
       \/ UNCHANGED regions /\ module' = "unloaded"
    /\ UNCHANGED <<class, cdev, device, devfail, broken, loads, refcnt, proc>>

(* The labels of the error handler, last to first.                         *)
chrdev_class_create_err == regions' = regions - 1
chrdev_chardev_add_error == class' = FALSE /\ chrdev_class_create_err
chrdev_device_create_err == cdev' = FALSE /\ chrdev_chardev_add_error

(* Fault: nobody looks whether class_create failed.                        *)
class_create_unchecked ==
    /\ module = "class_create"
    /\ class' \in BOOLEAN
    /\ module' = "cdev_add"
    /\ UNCHANGED <<cdev, device, regions, devfail, broken, loads, refcnt, proc>>
class_create ==
    /\ module = "class_create"
    /\ \/ class' = TRUE /\ module' = "cdev_add" /\ UNCHANGED regions
       \/ chrdev_class_create_err /\ module' = "unloaded" /\ UNCHANGED class
    /\ UNCHANGED <<cdev, device, devfail, broken, loads, refcnt, proc>>

(* Fault: the class is left when cdev_add fails.                           *)
cdev_add_leaves ==
    /\ module = "cdev_add"
    /\ \/ cdev' = TRUE /\ module' = "device_create" /\ UNCHANGED <<class, regions>>
       \/ chrdev_class_create_err /\ module' = "unloaded" /\ UNCHANGED <<cdev, class>>
    /\ UNCHANGED <<device, devfail, broken, loads, refcnt, proc>>
cdev_add ==
    /\ module = "cdev_add"
    /\ \/ cdev' = TRUE /\ module' = "device_create" /\ UNCHANGED <<class, regions>>
       \/ chrdev_chardev_add_error /\ module' = "unloaded" /\ UNCHANGED cdev
    /\ UNCHANGED <<device, devfail, broken, loads, refcnt, proc>>

(* When device_create fails everything is taken down, but ret is still the *)
(* 0 that cdev_add returned: resget_init succeeds.                         *)
device_create ==
    /\ module = "device_create"
    /\ module' = "live"
    /\ \/ device' = TRUE /\ UNCHANGED <<class, cdev, regions, devfail>>
       \/ chrdev_device_create_err /\ devfail' = TRUE /\ UNCHANGED device
    /\ UNCHANGED <<broken, loads, refcnt, proc>>

----------------------------------------------------------------------------
(* Removal                                                                 *)

rmmod ==
    /\ module = "live" /\ refcnt = 0
    /\ module' = "going"
    /\ UNCHANGED <<resources, devfail, broken, loads, refcnt, proc>>

(* The region is not unregistered.  device_destroy looks for a device and  *)
(* may find none.                                                          *)
resget_exit ==
    /\ module = "going"
    /\ module' = "unloaded"
    /\ cdev' = FALSE /\ device' = FALSE /\ class' = FALSE
    /\ broken' = ~ (cdev /\ class)
    /\ UNCHANGED <<regions, devfail, loads, refcnt, proc>>

----------------------------------------------------------------------------
(* A process                                                               *)

Go(p, s) == proc' = [proc EXCEPT ![p] = s]

(* External: try_module_get on the owner, then the module's lb_open.       *)
(* Fault: the file operations name no owner.                               *)
OwnerRefs_none == 0
OwnerRefs == 1

VfsOpen(p) ==
    /\ proc[p] = "closed"
    /\ cdev /\ module \notin {"unloaded", "going"}
    /\ refcnt' = refcnt + OwnerRefs
    /\ Go(p, "opening")
    /\ UNCHANGED <<module, resources, devfail, broken, loads>>

lb_open(p) ==
    /\ proc[p] = "opening"
    /\ refcnt' = refcnt + 1
    /\ Go(p, "open")
    /\ UNCHANGED <<module, resources, devfail, broken, loads>>

(* lb_release up to module_put; its last printk is still to come.  Fault:  *)
(* it keeps the reference.                                                 *)
Close(p) ==
    /\ proc[p] = "open"
    /\ Go(p, "release")
    /\ UNCHANGED <<module, resources, devfail, broken, loads, refcnt>>

lb_release_keeps(p) ==
    /\ proc[p] = "release"
    /\ Go(p, "releasing")
    /\ UNCHANGED <<module, resources, devfail, broken, loads, refcnt>>
lb_release(p) ==
    /\ proc[p] = "release"
    /\ refcnt' = refcnt - 1
    /\ Go(p, "releasing")
    /\ UNCHANGED <<module, resources, devfail, broken, loads>>

VfsRelease(p) ==
    /\ proc[p] = "releasing"
    /\ refcnt' = refcnt - OwnerRefs
    /\ Go(p, "closed")
    /\ UNCHANGED <<module, resources, devfail, broken, loads>>

----------------------------------------------------------------------------
Next ==
    \/ insmod \/ alloc_chrdev_region \/ class_create \/ cdev_add \/ device_create
    \/ rmmod \/ resget_exit
    \/ \E p \in Procs :
          VfsOpen(p) \/ lb_open(p) \/ Close(p) \/ lb_release(p) \/ VfsRelease(p)

Spec == Init /\ [][Next]_vars

----------------------------------------------------------------------------
(* Properties                                                              *)

(* A process inside lb_open or lb_release, or holding an open file, keeps  *)
(* the module in memory, although lb_release gives its own reference back  *)
(* before it returns.                                                      *)
CodeStays == (\E p \in Procs : proc[p] # "closed") => module \notin {"unloaded", "going"}

(* resget_exit releases a class or a cdev that does not exist in one case  *)
(* only: device_create failed in this insertion, and resget_init succeeded *)
(* all the same.                                                           *)
BrokenOnlyByDevice == broken => devfail

(* Unloaded, the module leaves no class, device or cdev behind: insertion *)
(* undoes every step it made before the one that failed.                   *)
UnloadedIsClean == module = "unloaded" => ~ class /\ ~ cdev /\ ~ device

(* Inserted successfully, the module has its device.                       *)
InsertedHasDevice == module = "live" => device
=============================================================================
