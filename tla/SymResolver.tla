---------------------------- MODULE SymResolver ----------------------------
(***************************************************************************)
(* sym_resolv: a process maps its own executable and looks addresses up in *)
(* its symbol table, and in the dynamic symbols (dladdr) otherwise.  The   *)
(* executable is [shstrndx, sections, symbols]: whether it has section     *)
(* names, the names in order, and the symbols [name, value, size].         *)
(***************************************************************************)
EXTENDS Integers, Sequences, FiniteSetsExt

CONSTANTS
    Executables,   \* the executables of the process
    Dynamic,       \* external: the symbols dladdr knows
    SymNames,      \* names of symbols, and NoName,
    NoName,        \* which is the empty one
    Addrs,         \* addresses that are looked up
    Slots          \* entries of the client's table of results

SymbolTables == Seq([name : SymNames, value : Nat, size : Nat])

ASSUME SymbolsAssumption ==
    /\ \A exe \in Executables : exe.symbols \in SymbolTables
    /\ NoName \in SymNames
    /\ Dynamic \in SymbolTables
    /\ Addrs # {} /\ Addrs \in SUBSET Nat

VARIABLES
    sym_exe,       \* the executable of this process
    sym_held,      \* [fds, maps]: open descriptors, number of mappings
    sym_fd,        \* sr_fd of an open descriptor, -1 otherwise
    sym_asked,     \* the addresses of the last call, one for each result
    sym_res        \* the results [symname, symaddr]; the client never clears them

sym_vars == <<sym_exe, sym_held, sym_fd, sym_asked, sym_res>>

SymTypeOK ==
    /\ sym_exe \in Executables
    /\ sym_held \in [fds : SUBSET (0 .. 2), maps : 0 .. 1]
    /\ sym_fd \in {-1} \cup sym_held.fds
    /\ sym_asked \in [Slots -> Addrs]
    /\ sym_res \in [Slots -> [symname : SymNames, symaddr : Int]]

SymInit ==
    /\ sym_exe \in Executables
    /\ sym_held = [fds |-> {0}, maps |-> 0]
    /\ sym_fd = -1
    /\ sym_asked = [i \in Slots |-> Min(Addrs)]
    /\ sym_res = [i \in Slots |-> [symname |-> NoName, symaddr |-> -1]]

FirstIndex(S) == IF S = {} THEN 0 ELSE Min(S)

__sym_resolv_get_sectionhdr_by_name(secname) ==
    FirstIndex({i \in DOMAIN sym_exe.sections : sym_exe.sections[i] = secname})

NewFd == Min((0 .. 2) \ sym_held.fds)

(* The labels of __sym_resolv_open, last to first.  Fault: the mapping     *)
(* stays when a section is missing.                                        *)
sr_open_maperr(held, fd) == [held EXCEPT !.fds = @ \ {fd}]
sr_no_symtab_keeps(held, fd) == sr_open_maperr(held, fd)
sr_no_symtab(held, fd) == sr_open_maperr([held EXCEPT !.maps = @ - 1], fd)

(* open, fstat or mmap may fail, and the executable may lack a section; a  *)
(* descriptor 0 is taken for a failure of open, and not closed.            *)
Unopened(fd) == fd <= 0

__sym_resolv_open ==
    LET opened == [sym_held EXCEPT !.fds = @ \cup {NewFd}]
        mapped == [opened EXCEPT !.maps = @ + 1]
        usable == /\ sym_exe.shstrndx
                  /\ __sym_resolv_get_sectionhdr_by_name(".symtab") # 0
                  /\ __sym_resolv_get_sectionhdr_by_name(".strtab") # 0
    IN  /\ sym_fd = -1
        /\ \/ UNCHANGED <<sym_held, sym_fd>>
           \/ /\ Unopened(NewFd)
              /\ sym_held' = opened /\ UNCHANGED sym_fd
           \/ /\ ~ Unopened(NewFd)
              /\ \/ sym_held' = sr_open_maperr(opened, NewFd) /\ UNCHANGED sym_fd
                 \/ ~ usable /\ sym_held' = sr_no_symtab(mapped, NewFd) /\ UNCHANGED sym_fd
                 \/ usable /\ sym_held' = mapped /\ sym_fd' = NewFd
        /\ UNCHANGED <<sym_exe, sym_asked, sym_res>>

sym_resolv_close ==
    /\ sym_fd # -1
    /\ sym_held' = [fds |-> sym_held.fds \ {sym_fd}, maps |-> sym_held.maps - 1]
    /\ sym_fd' = -1
    /\ UNCHANGED <<sym_exe, sym_asked, sym_res>>

(* The process closes or opens its standard input.                         *)
stdin ==
    /\ sym_held' = [sym_held EXCEPT !.fds = IF 0 \in @ THEN @ \ {0} ELSE @ \cup {0}]
    /\ UNCHANGED <<sym_exe, sym_fd, sym_asked, sym_res>>

Around(s, addr) == s.value <= addr /\ addr < s.value + s.size

(* The first symbol around an address.                                     *)
__sym_resolv_get_funcname_by_addr(symbols, addr) ==
    FirstIndex({i \in DOMAIN symbols : Around(symbols[i], addr)})

(* What is found nowhere loses its name and keeps its address.  Fault: it  *)
(* keeps the name.                                                         *)
unnamed_not(res) == res
unnamed(res) == [res EXCEPT !.symname = NoName]

Resolved(addr, res) ==
    LET i == __sym_resolv_get_funcname_by_addr(sym_exe.symbols, addr)
        d == __sym_resolv_get_funcname_by_addr(Dynamic, addr)
    IN  IF i # 0 THEN [symname |-> sym_exe.symbols[i].name, symaddr |-> sym_exe.symbols[i].value]
        ELSE IF d # 0 THEN [symname |-> Dynamic[d].name, symaddr |-> Dynamic[d].value]
        ELSE unnamed(res)

sym_resolv_addr(addr) ==
    /\ sym_fd # -1
    /\ sym_asked' = addr
    /\ sym_res' = [i \in Slots |-> Resolved(addr[i], sym_res[i])]
    /\ UNCHANGED <<sym_exe, sym_held, sym_fd>>

sym_resolv_symbol(name) ==
    FirstIndex({i \in DOMAIN sym_exe.symbols : sym_exe.symbols[i].name = name})

SymNext ==
    \/ __sym_resolv_open \/ sym_resolv_close \/ stdin
    \/ \E addr \in [Slots -> Addrs] : sym_resolv_addr(addr)

SymSpec == SymInit /\ [][SymNext]_sym_vars

----------------------------------------------------------------------------
(* Properties                                                              *)

(* Whatever step of an open failed, the process holds no descriptor and no *)
(* mapping but those of a successful one, and descriptor 0: after an open  *)
(* that got it while the standard input was closed, it is never closed.    *)
SymHolds ==
    /\ sym_held.fds \ {0} = {sym_fd} \ {-1}
    /\ sym_held.maps = IF sym_fd = -1 THEN 0 ELSE 1

(* A result with a name says where a symbol of that name starts that the   *)
(* address asked for lies in, and looking the name up leads back there or  *)
(* to another symbol of that name: results of earlier calls do not show    *)
(* through.                                                                *)
SymAnswers ==
    \A i \in Slots :
        LET r == sym_res[i]
            all == {sym_exe.symbols[j] : j \in DOMAIN sym_exe.symbols}
            answers(S) == {s \in S : /\ s.name = r.symname /\ s.value = r.symaddr
                                     /\ sym_asked[i] \in s.value .. s.value + s.size - 1}
        IN  r.symname # NoName =>
              \/ /\ answers(all) # {}
                 /\ \/ sym_exe.symbols[sym_resolv_symbol(r.symname)] \in answers(all)
                    \/ Cardinality({j \in DOMAIN sym_exe.symbols : sym_exe.symbols[j].name = r.symname}) > 1
              \/ answers({Dynamic[d] : d \in DOMAIN Dynamic}) # {}
=============================================================================
