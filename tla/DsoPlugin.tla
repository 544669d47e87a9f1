----------------------------- MODULE DsoPlugin -----------------------------
(***************************************************************************)
(* dso_plugin: descriptors of plugins, each a handle of dlopen and the     *)
(* address of one of its symbols.  Handles of one file are the same, and   *)
(* the loader counts them.  The descriptor is the only record there is of  *)
(* whether a handle is held.                                               *)
(***************************************************************************)
EXTENDS Integers, FiniteSets

CONSTANTS
    Plugins,   \* descriptors of the client
    Exports,   \* the symbols of each file that can be loaded
    Symbols,   \* the names a client asks for
    Absent,    \* null
    MaxOpens   \* bound: opens that succeed

ASSUME PluginsAssumption == IsFiniteSet(Plugins)
ASSUME AbsentAssumption  == Absent \notin DOMAIN Exports

VARIABLES
    dso_vmem, dso_vsym,  \* struct dso_plugin_desc; a symbol is <<file, name>>
    dso_live,            \* the descriptors whose dso_plugin_init succeeded, until the client exits
    dso_refs,            \* external: the loader's count for each file
    dso_broken           \* a handle was closed that no dlopen stood behind

dso_vars == <<dso_vmem, dso_vsym, dso_live, dso_refs, dso_broken>>

Objects == DOMAIN Exports

DsoInit ==
    /\ dso_vmem = [p \in Plugins |-> Absent]
    /\ dso_vsym = [p \in Plugins |-> Absent]
    /\ dso_live = {}
    /\ dso_refs = [f \in Objects |-> 0]
    /\ dso_broken = FALSE

dlsym(f, ent) == IF ent \in Exports[f] THEN <<f, ent>> ELSE Absent

(* The client opens a descriptor it does not hold.  dlopen may fail; when  *)
(* dlsym does the handle is closed, and stays in the descriptor.  Fault:   *)
(* it is not closed.                                                       *)
dso_plugin_init_leaks(p, f, ent) ==
    /\ p \notin dso_live /\ dso_refs[f] < MaxOpens
    /\ dso_vmem' = [dso_vmem EXCEPT ![p] = f]
    /\ dso_vsym' = [dso_vsym EXCEPT ![p] = dlsym(f, ent)]
    /\ dso_refs' = [dso_refs EXCEPT ![f] = @ + 1]
    /\ dso_live' = IF dlsym(f, ent) # Absent THEN dso_live \cup {p} ELSE dso_live
    /\ UNCHANGED dso_broken
dso_plugin_init(p, f, ent) ==
    /\ p \notin dso_live
    /\ \/ /\ dso_vmem' = [dso_vmem EXCEPT ![p] = Absent]
          /\ UNCHANGED <<dso_vsym, dso_live, dso_refs>>
       \/ /\ dlsym(f, ent) = Absent
          /\ dso_vmem' = [dso_vmem EXCEPT ![p] = f]
          /\ dso_vsym' = [dso_vsym EXCEPT ![p] = Absent]
          /\ UNCHANGED <<dso_live, dso_refs>>
       \/ /\ dlsym(f, ent) # Absent /\ dso_refs[f] < MaxOpens
          /\ dso_vmem' = [dso_vmem EXCEPT ![p] = f]
          /\ dso_vsym' = [dso_vsym EXCEPT ![p] = dlsym(f, ent)]
          /\ dso_live' = dso_live \cup {p}
          /\ dso_refs' = [dso_refs EXCEPT ![f] = @ + 1]
    /\ UNCHANGED dso_broken

(* A handle is all dso_plugin_exit looks at, and it is left in place.      *)
dso_plugin_exit(p) ==
    LET f == dso_vmem[p] IN
    /\ dso_live' = dso_live \ {p}
    /\ dso_broken' = (dso_broken \/ (f # Absent /\ p \notin dso_live))
    /\ dso_refs' = IF f = Absent \/ dso_refs[f] = 0 THEN dso_refs ELSE [dso_refs EXCEPT ![f] = @ - 1]
    /\ UNCHANGED <<dso_vmem, dso_vsym>>

(* dso_plugin_get_sym of an open plugin; what it finds replaces the entry. *)
(* After a handle too many was closed nothing can be said of its file.     *)
dso_plugin_get_sym(p, ent) ==
    /\ p \in dso_live /\ ~ dso_broken
    /\ dso_vsym' = [dso_vsym EXCEPT ![p] = dlsym(dso_vmem[p], ent)]
    /\ UNCHANGED <<dso_vmem, dso_live, dso_refs, dso_broken>>

DsoNext ==
    \E p \in Plugins :
        \/ \E f \in Objects, ent \in Symbols : dso_plugin_init(p, f, ent)
        \/ \E ent \in Symbols : dso_plugin_get_sym(p, ent)
        \/ dso_plugin_exit(p)

DsoSpec == DsoInit /\ [][DsoNext]_dso_vars

----------------------------------------------------------------------------
(* Properties                                                              *)

(* The loader counts one handle for each open plugin, so that closing one  *)
(* never unloads the file of another, whatever step of an open failed:     *)
(* unless dso_plugin_exit was called on a descriptor that is not open,     *)
(* where the handle of a failed or of an earlier open may still be.        *)
DsoRefsBalance ==
    ~ dso_broken => \A f \in Objects : dso_refs[f] = Cardinality({p \in dso_live : dso_vmem[p] = f})
=============================================================================
