----------------------------- MODULE MCObjects -----------------------------
(***************************************************************************)
(* Instances for TLC of the programs that compute places in memory and in  *)
(* files: the layout of heap_pool, and those that read ELF objects.  They  *)
(* have no state in common; a behaviour is one of the one that is chosen   *)
(* first, the inputs of the others being some fixed ones.                  *)
(***************************************************************************)
EXTENDS MCHeapPoolLayout, SymResolver, GotModifier, DslElf, DsoPlugin

VARIABLE program

objects_vars == <<program, vars, sym_vars, gm_vars, dls_vars, dso_vars>>

----------------------------------------------------------------------------
(* Executables for sym_resolv: symbols that overlap, share a name, or have *)
(* no size, and executables without names of sections or without a table.  *)
SymOf(n, v, s) == [name |-> n, value |-> v, size |-> s]
MCSyms ==
    {SymOf("main", 0, 2), SymOf("f", 1, 3), SymOf("f", 4, 1), SymOf("data", 2, 0), SymOf("", 0, 0)}
Both == <<"", ".symtab", ".strtab">>
MCExecutables ==
    [shstrndx : {TRUE}, sections : {Both}, symbols : {<<SymOf("", 0, 0), x, y>> : x, y \in MCSyms}]
    \cup [shstrndx : BOOLEAN, sections : {<<"", ".symtab">>, <<"", ".strtab">>, Both},
          symbols : {<<SymOf("main", 0, 2)>>}]
MCDynamic == <<SymOf("malloc", 4, 2)>>

(* Objects for got_modifier: every choice of symbols for the relocations   *)
(* of the first section and the first of the second.  Process 101 is       *)
(* printed as 1.                                                           *)
Segment(x, w, v) == [load |-> TRUE, x |-> x, w |-> w, vaddr |-> v]
Section(t, l, o, s) == [type |-> t, link |-> l, off |-> o, size |-> s]
Symbol(n, v) == [name |-> n, value |-> v]
Object(symbols, sections, words) ==
    [segments |-> <<Segment(TRUE, FALSE, 8), Segment(FALSE, TRUE, 16)>>,
     sections |-> sections, symbols |-> symbols, words |-> words]
Digits(n) == <<n % 3, (n \div 3) % 3, (n \div 9) % 3>>
MCPids == 0 .. 26 \cup {101}
MCExe ==
    [p \in MCPids |->
        Object(<<Symbol("", 0), Symbol("printf", 0), Symbol("puts", 0)>>,
               <<Section("NULL", 0, 0, 0), Section("DYNSYM", 2, 0, 0), Section("STRTAB", 0, 0, 0),
                 Section("REL", 1, 2, 1), Section("REL", 1, 3, 2)>>,
               <<0, 0>> \o Digits(p % 27) \o <<1, 2>>)]
MCLib ==
    Object(<<Symbol("", 0), Symbol("evilprint", 4), Symbol("evilprint", 8), Symbol("memcpy", 0)>>,
           <<Section("DYNSYM", 1, 0, 0), Section("STRTAB", 0, 0, 0)>>, <<0, 0>>)

(* Mappings for dslelf: the library with or without others before it, and  *)
(* with another file of its name before or behind it; libraries with every *)
(* choice of symbols for four relocations in two sections.                 *)
Line(p, o, s) == [path |-> p, off |-> o, start |-> s]
Lines(p, s) == <<Line(p, 0, s), Line(p, 1, s + 1), Line(NULL, 0, s + 2)>>
MCMaps ==
    {Lines("exe", 10) \o Lines("lib", 20) \o Lines("libc", 30),
     <<Line(NULL, 0, 5)>> \o Lines("lib", 20) \o Lines("libc", 30),
     Lines("exe", 10) \o Lines("old/lib", 20) \o Lines("lib", 30),
     Lines("exe", 10) \o Lines("lib", 20) \o Lines("old/lib", 30)}
DlsSection(n, t, l, o, s) == [name |-> n, type |-> t, link |-> l, off |-> o, size |-> s]
DlsSymbol(n, e) == [name |-> n, external |-> e]
MCLibraryFiles ==
    {[sections |-> <<DlsSection("", "NULL", 0, 0, 0), DlsSection(".dynsym", "DYNSYM", 2, 0, 0),
                     DlsSection(".dynstr", "STRTAB", 0, 0, 0), DlsSection(".rela.dyn", "RELA", 1, 0, 2),
                     DlsSection(".rela.plt", "RELA", 1, 2, 2)>>,
      symbols |-> <<DlsSymbol("", FALSE), DlsSymbol("funky", TRUE), DlsSymbol("hello_world", FALSE),
                    DlsSymbol("printf", TRUE)>>,
      words |-> <<w0, w1, w2, w3, w4>>] :
        w0 \in {0, 3}, w1, w2, w3, w4 \in {0, 1, 3}}

(* Files for dso_plugin.                                                   *)
MCExports == [plugin |-> {"get"}, other |-> {"get", "more"}]

----------------------------------------------------------------------------
ObjectsInit ==
    /\ program \in {"heap_pool", "sym_resolv", "got_modifier", "dslelf", "dso"}
    /\ Init   /\ (program = "heap_pool" \/ base = CHOOSE x \in Bases : TRUE)
    /\ SymInit /\ (program = "sym_resolv" \/ sym_exe = CHOOSE x \in Executables : TRUE)
    /\ GmInit /\ (program = "got_modifier" \/ gm_pid = CHOOSE x \in Pids : TRUE)
    /\ DlsInit
    /\ (program = "dslelf" \/ given = <<CHOOSE x \in Maps : TRUE, CHOOSE x \in Libraries : TRUE>>)
    /\ DsoInit

ObjectsNext ==
    /\ \/ /\ program = "heap_pool" /\ Next
          /\ UNCHANGED <<sym_vars, gm_vars, dls_vars, dso_vars>>
       \/ /\ program = "sym_resolv" /\ SymNext
          /\ UNCHANGED <<vars, gm_vars, dls_vars, dso_vars>>
       \/ /\ program = "got_modifier" /\ GmNext
          /\ UNCHANGED <<vars, sym_vars, dls_vars, dso_vars>>
       \/ /\ program = "dslelf" /\ DlsNext
          /\ UNCHANGED <<vars, sym_vars, gm_vars, dso_vars>>
       \/ /\ program = "dso" /\ DsoNext
          /\ UNCHANGED <<vars, sym_vars, gm_vars, dls_vars>>
    /\ UNCHANGED program

(* The fairness of got_modifier; the others promise no progress.           *)
ObjectsSpec ==
    /\ ObjectsInit /\ [][ObjectsNext]_objects_vars
    /\ WF_gm_vars(program = "got_modifier" /\ main)
    /\ WF_gm_vars(program = "got_modifier" /\ (StopSignal \/ RunCode))

(* The types and ranges of all of them.                                    *)
ObjectsTypeOK == TypeOK /\ SymTypeOK /\ GmTypeOK

(* Descriptors and mappings are held exactly while the structures of       *)
(* sym_resolv and dslelf say so, whatever step of an open failed; but for  *)
(* the descriptor 0 that sym_resolv takes for a failure.                   *)
DescriptorsHeld == SymHolds /\ DlsHolds

(* GmEnds, of got_modifier's behaviours: main ends, and never waits for a  *)
(* stop that has been consumed, unless a request came too early.           *)
InjectionEnds == program = "got_modifier" => GmEnds
=============================================================================
