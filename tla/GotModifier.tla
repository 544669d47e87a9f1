---------------------------- MODULE GotModifier ----------------------------
(***************************************************************************)
(* got_modifier: main of map_parser.c, tracing another process through the *)
(* requests of process_injector.c.  PTRACE_ATTACH sends the tracee a stop  *)
(* signal and does not wait for it; any request made before the tracee has *)
(* stopped fails, and nobody looks.  The tracee takes its signals between  *)
(* any two steps of the tracer.                                            *)
(***************************************************************************)
EXTENDS ObjParser

CONSTANTS
    Pids,        \* the processes that exist, each with its executable:
    Exe,         \* pid -> object
    Lib,         \* the library's object
    LoadAddr,    \* where the code run in the tracee maps the library
    PidWidth     \* pids are printed modulo PidWidth ("%hu")

ASSUME ObjectsAssumption ==
    /\ Pids \in SUBSET Nat /\ PidWidth \in Nat \ {0} /\ LOP_MAX_DYNSYM \in Nat \ {0}
    /\ LoadAddr \in Int /\ NotFound \notin Int
    /\ IsObject(Lib) /\ \A pid \in Pids : IsObject(Exe[pid])

VARIABLES
    gm_pc,       \* the step main is at
    gm_pid,      \* its first argument
    gm_td,       \* td_info
    gm_lib,      \* lib_info, NotFound when the library could not be mapped
    gm_bck,      \* bckreg and buffer: [regs, text]
    gm_vaddr,    \* lib_vaddr: NotFound for an eax that is not the mapping's address
    gm_tracee,   \* see GmTypeOK
    gm_late,     \* a request came before the tracee had stopped
    gm_signal    \* the tracee got a signal of its own while traced

tracer == <<gm_pid, gm_td, gm_lib, gm_bck, gm_vaddr>>
gm_vars == <<gm_pc, tracer, gm_tracee, gm_late, gm_signal>>

(* Text and registers are the tracee's own, those of the code put there,   *)
(* "mapped" once that code has run to its trap, or "lost".                 *)
GmTypeOK ==
    /\ gm_pc \in {"init", "attach", "GETREGS", "PEEK", "POKE", "SETREGS", "CONT", "wait", "eax", "unPOKE",
                  "unSETREGS", "DETACH", "replace", "slot", "undo", "exiting", "exit", "undefined"}
    /\ gm_pid \in Pids
    /\ gm_bck \in [regs : {"own", "lost"}, text : {"own", "lost"}]
    /\ gm_vaddr \in {LoadAddr, NotFound}
    /\ gm_tracee \in [traced : BOOLEAN, pending : BOOLEAN, run : {"running", "stopped", "halted"},
                      report : BOOLEAN, regs : {"own", "code", "mapped", "lost"},
                      text : {"own", "code", "lost"}, slots : [0 .. Len(Exe[gm_pid].words) - 1 -> Int \cup {NotFound}]]
    /\ gm_tracee.report => gm_tracee.run = "stopped"
    /\ gm_tracee.run = "stopped" => gm_tracee.traced
    /\ gm_tracee.run = "halted" => ~ gm_tracee.traced

GmInit ==
    /\ gm_pc = "init" /\ gm_pid \in Pids
    /\ gm_td = NotFound /\ gm_lib = NotFound
    /\ gm_bck = [regs |-> "lost", text |-> "lost"] /\ gm_vaddr = NotFound
    /\ gm_tracee = [traced |-> FALSE, pending |-> FALSE, run |-> "running", report |-> FALSE,
                    regs |-> "own", text |-> "own",
                    slots |-> [k \in 0 .. Len(Exe[gm_pid].words) - 1 |-> 0]]
    /\ gm_late = FALSE /\ gm_signal = FALSE

GoTo(pc) == gm_pc' = pc

----------------------------------------------------------------------------
(* The executable of the process whose number is printed; what cannot be   *)
(* opened or parsed ends the program.                                      *)
map_parser_init ==
    LET named == gm_pid % PidWidth IN
    /\ gm_pc = "init" /\ gm_td = NotFound
    /\ \/ /\ named \in Pids /\ lop_init_info(Exe[named]) # NotFound
          /\ gm_td' = lop_init_info(Exe[named])
          /\ UNCHANGED gm_pc
       \/ GoTo("exit") /\ UNCHANGED gm_td
    /\ UNCHANGED <<gm_pid, gm_lib, gm_bck, gm_vaddr, gm_tracee, gm_late, gm_signal>>

(* main ignores the failure and displays a lib_info that nobody filled.    *)
map_parser_init_lib_hooker ==
    /\ gm_pc = "init" /\ gm_td # NotFound
    /\ \/ /\ gm_lib' = lop_init_info(Lib)
          /\ GoTo(IF gm_lib' = NotFound THEN "exit" ELSE "attach")
       \/ GoTo("undefined") /\ UNCHANGED gm_lib
    /\ UNCHANGED <<gm_pid, gm_td, gm_bck, gm_vaddr, gm_tracee, gm_late, gm_signal>>

(* PTRACE_ATTACH, in process_injector_inject and to replace the address.   *)
Attach(from, done, failed) ==
    /\ gm_pc = from
    /\ \/ /\ ~ gm_tracee.traced
          /\ gm_tracee' = [gm_tracee EXCEPT !.traced = TRUE, !.pending = TRUE,
                                             !.run = IF @ = "halted" THEN "stopped" ELSE @,
                                             !.report = gm_tracee.run = "halted"]
          /\ GoTo(done)
       \/ GoTo(failed) /\ UNCHANGED gm_tracee
    /\ UNCHANGED <<tracer, gm_late, gm_signal>>

(* A request on the tracee: without effect unless it has stopped.          *)
Request(from, done, after) ==
    /\ gm_pc = from /\ GoTo(done)
    /\ IF gm_tracee.run = "stopped"
       THEN gm_tracee' = after /\ UNCHANGED gm_late
       ELSE gm_late' = TRUE /\ UNCHANGED gm_tracee
    /\ UNCHANGED gm_signal

Stopped == gm_tracee.run = "stopped"

GETREGS ==
    /\ Request("GETREGS", "PEEK", gm_tracee)
    /\ gm_bck' = [gm_bck EXCEPT !.regs = IF Stopped THEN gm_tracee.regs ELSE "lost"]
    /\ UNCHANGED <<gm_pid, gm_td, gm_lib, gm_vaddr>>

process_injector_read_at ==
    /\ Request("PEEK", "POKE", gm_tracee)
    /\ gm_bck' = [gm_bck EXCEPT !.text = IF Stopped THEN gm_tracee.text ELSE "lost"]
    /\ UNCHANGED <<gm_pid, gm_td, gm_lib, gm_vaddr>>

(* Twice: the code, then what was read.  Fault: the code again.            *)
process_injector_write_at_code ==
    \/ /\ Request("POKE", "SETREGS", [gm_tracee EXCEPT !.text = "code"])
       /\ UNCHANGED tracer
    \/ /\ Request("unPOKE", "unSETREGS", [gm_tracee EXCEPT !.text = "code"])
       /\ UNCHANGED tracer
process_injector_write_at ==
    \/ /\ Request("POKE", "SETREGS", [gm_tracee EXCEPT !.text = "code"])
       /\ UNCHANGED tracer
    \/ /\ Request("unPOKE", "unSETREGS", [gm_tracee EXCEPT !.text = gm_bck.text])
       /\ UNCHANGED tracer

(* Registers that were never read are set all the same.  Fault: the        *)
(* program counter is not.                                                 *)
SETREGS_noeip ==
    /\ \/ Request("SETREGS", "CONT", [gm_tracee EXCEPT !.regs = gm_bck.regs])
       \/ Request("unSETREGS", "DETACH", [gm_tracee EXCEPT !.regs = gm_bck.regs])
    /\ UNCHANGED tracer
SETREGS ==
    /\ \/ Request("SETREGS", "CONT",
                  [gm_tracee EXCEPT !.regs = IF gm_bck.regs = "own" THEN "code" ELSE "lost"])
       \/ Request("unSETREGS", "DETACH", [gm_tracee EXCEPT !.regs = gm_bck.regs])
    /\ UNCHANGED tracer

CONT ==
    /\ Request("CONT", "wait", [gm_tracee EXCEPT !.run = "running", !.report = FALSE])
    /\ UNCHANGED tracer

(* wait(NULL) returns for any stop that was not continued from.            *)
Wait ==
    /\ gm_pc = "wait" /\ gm_tracee.report
    /\ gm_tracee' = [gm_tracee EXCEPT !.report = FALSE]
    /\ GoTo("eax")
    /\ UNCHANGED <<tracer, gm_late, gm_signal>>

GETREGS_eax ==
    /\ Request("eax", "unPOKE", gm_tracee)
    /\ gm_vaddr' = IF gm_tracee.regs = "mapped" THEN LoadAddr ELSE NotFound
    /\ UNCHANGED <<gm_pid, gm_td, gm_lib, gm_bck>>

(* A tracee that is let go runs, unless its stop signal is still pending:  *)
(* that one now stops it for good.  Fault: it is not continued.            *)
LetGo_stopped(t) == [t EXCEPT !.traced = FALSE, !.pending = FALSE, !.report = FALSE]
LetGo(t) ==
    [t EXCEPT !.traced = FALSE, !.pending = FALSE, !.report = FALSE,
              !.run = IF t.pending THEN "halted" ELSE "running"]

Detach(from, done) == Request(from, done, LetGo(gm_tracee)) /\ UNCHANGED tracer

----------------------------------------------------------------------------
(* map_parser_replace_virtual_addrfunc: printf in the executable, the last *)
(* evilprint of the library.  Fault: its first.                            *)
Named(info, name) == {i \in DOMAIN info.plt : info.plt[i].symname = name}
sym2_first == FirstOf(Named(gm_lib, "evilprint"))
sym2 == LastOf(Named(gm_lib, "evilprint"))
sym1 == LET i == FirstOf(Named(gm_td, "printf")) IN IF i = NotFound THEN NotFound ELSE gm_td.plt[i].rel

replace_not_found ==
    /\ gm_pc = "replace" /\ (sym1 = NotFound \/ sym2 = NotFound)
    /\ GoTo("exiting")
    /\ UNCHANGED <<tracer, gm_tracee, gm_late, gm_signal>>

new_val == IF gm_vaddr = NotFound THEN NotFound ELSE gm_vaddr + Lib.symbols[gm_lib.plt[sym2].sym].value

(* The address patched is that of a relocation of the executable parsed.   *)
replace ==
    /\ Request("slot", "undo",
               [gm_tracee EXCEPT !.slots = [k \in DOMAIN @ |-> IF k = sym1 THEN new_val ELSE @[k]]])
    /\ UNCHANGED tracer

(* The end of main, and of the process with what it still traces.          *)
map_parser_exit ==
    /\ gm_pc = "exiting" /\ GoTo("exit")
    /\ gm_tracee' = IF gm_tracee.traced THEN LetGo(gm_tracee) ELSE gm_tracee
    /\ UNCHANGED <<tracer, gm_late, gm_signal>>

main ==
    \/ map_parser_init \/ map_parser_init_lib_hooker
    \/ Attach("attach", "GETREGS", "exit")
    \/ GETREGS \/ process_injector_read_at \/ process_injector_write_at \/ SETREGS
    \/ CONT \/ Wait \/ GETREGS_eax
    \/ Detach("DETACH", "replace")
    \/ replace_not_found
    \/ gm_pc = "replace" /\ sym1 # NotFound /\ sym2 # NotFound /\ Attach("replace", "slot", "exiting")
    \/ replace \/ Detach("undo", "exiting")
    \/ map_parser_exit

----------------------------------------------------------------------------
(* External: the tracee                                                    *)

StopsAgain(pending) ==
    /\ gm_tracee.run = "running" /\ gm_tracee.traced
    /\ gm_tracee' = [gm_tracee EXCEPT !.pending = pending, !.run = "stopped", !.report = TRUE]
    /\ UNCHANGED <<gm_pc, tracer, gm_late>>

StopSignal == gm_tracee.pending /\ StopsAgain(FALSE) /\ UNCHANGED gm_signal

(* Any other signal stops a tracee as well; bound: one.                    *)
OwnSignal == ~ gm_signal /\ StopsAgain(gm_tracee.pending) /\ gm_signal' = TRUE

(* The code maps the library and stops itself.                             *)
RunCode ==
    /\ gm_tracee.run = "running" /\ gm_tracee.traced
    /\ gm_tracee.regs = "code" /\ gm_tracee.text = "code"
    /\ gm_tracee' = [gm_tracee EXCEPT !.regs = "mapped", !.run = "stopped", !.report = TRUE]
    /\ UNCHANGED <<gm_pc, tracer, gm_late, gm_signal>>

GmNext == main \/ StopSignal \/ RunCode \/ OwnSignal

GmSpec == GmInit /\ [][GmNext]_gm_vars

(* Both processes are scheduled; signals of the tracee's own may not come. *)
GmFairSpec == GmSpec /\ WF_gm_vars(main) /\ WF_gm_vars(StopSignal \/ RunCode)

----------------------------------------------------------------------------
(* Properties                                                              *)

(* The tables name, for every symbol with a relocation, its first one,     *)
(* although lop_find_rel_by_sym walks past the end of each section; only a *)
(* symbol without any may get a word that is no relocation.                *)
TableRight(o, info) ==
    Regular(o) =>
        \A i \in DOMAIN info.plt :
            IF LopRelocations(o, i - 1) # {} THEN info.plt[i].rel = Min(LopRelocations(o, i - 1))
            ELSE info.plt[i].rel = NotFound
                 \/ \A m \in LopRelSections(o) : info.plt[i].rel >= o.sections[m].off + o.sections[m].size

LopTables ==
    /\ gm_td # NotFound => TableRight(Exe[gm_pid % PidWidth], gm_td)
    /\ gm_lib # NotFound => TableRight(Lib, gm_lib)

(* The injection leaves text and registers of the tracee as it found them, *)
(* whatever signals it takes meanwhile, if it had stopped by the first     *)
(* request: process_injector_inject does not wait for that.  At the end,   *)
(* without such signals, the tracee runs and is traced no more.            *)
GmRestored ==
    /\ gm_pc \in {"replace", "slot", "undo", "exiting"} /\ ~ gm_late =>
           gm_tracee.text = "own" /\ gm_tracee.regs = "own"
    /\ gm_pc = "exit" /\ ~ gm_late /\ ~ gm_signal =>
           gm_tracee.run = "running" /\ ~ gm_tracee.traced

(* What is patched is a relocation of printf in the tracee, and it is sent *)
(* to the last evilprint of the library where the tracee mapped it, unless *)
(* a signal was taken for the trap, the table is too small for the library *)
(* or the number of the process does not fit "%hu" and the tables are      *)
(* another program's.                                                      *)
GmPatched ==
    \A k \in DOMAIN gm_tracee.slots :
        gm_tracee.slots[k] # 0 /\ gm_pid < PidWidth /\ Regular(Exe[gm_pid]) =>
            LET printf == {j \in DOMAIN Exe[gm_pid].symbols : Exe[gm_pid].symbols[j].name = "printf"}
                evil   == Max({j \in DOMAIN Lib.symbols : Lib.symbols[j].name = "evilprint"})
            IN  /\ (\A j \in printf : LopRelocations(Exe[gm_pid], j - 1) # {}) =>
                       k \in UNION {LopRelocations(Exe[gm_pid], j - 1) : j \in printf}
                /\ ~ gm_late /\ ~ gm_signal /\ Len(Lib.symbols) <= LOP_MAX_DYNSYM =>
                       gm_tracee.slots[k] = LoadAddr + Lib.symbols[evil].value

(* The program ends: wait(NULL) never waits for a stop that has been       *)
(* consumed, again unless a request came too early.                        *)
GmEnds == <>(gm_pc \in {"exit", "undefined"} \/ gm_late)
=============================================================================
