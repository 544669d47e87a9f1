------------------------------- MODULE DslElf -------------------------------
(***************************************************************************)
(* dslelf: main loads liblib.so, looks its mapping up in /proc/self/maps,  *)
(* walks the tables of its file and puts its own funky behind the          *)
(* library's calls of funky.                                               *)
(*   a line of maps : [path, off, start]; no path in an anonymous mapping  *)
(*   the library    : sections [type, link, off, size] from section 0,     *)
(*                    external symbols (GLOBAL, NOTYPE) and others         *)
(*                    [name, external], words in units of an Elf64_Rela:   *)
(*                    words[k + 1] is the symbol that unit k refers to     *)
(***************************************************************************)
EXTENDS Integers, Sequences, FiniteSetsExt

CONSTANTS
    Maps,       \* the contents of /proc/self/maps once liblib.so is loaded
    Libraries,
    LibPath,    \* the file dlopen has loaded
    SameName,   \* the paths whose basename is liblib.so
    NULL

(* dlopen has mapped LibPath, its beginning once and first, and needs the  *)
(* symbols of every library; a mapping with a path is of some file.        *)
ASSUME MapsAssumption ==
    /\ NULL \notin SameName /\ LibPath \in SameName
    /\ \A maps \in Maps :
           /\ Len(maps) \in Nat /\ DOMAIN maps = 1 .. Len(maps)
           /\ \E i \in DOMAIN maps :
                  /\ maps[i].path = LibPath /\ maps[i].off = 0
                  /\ \A j \in DOMAIN maps :
                         maps[j].path = LibPath => i <= j /\ (maps[j].off = 0 => i = j)

ASSUME LibrariesAssumption ==
    \A file \in Libraries :
        /\ Len(file.sections) \in Nat /\ DOMAIN file.sections = 1 .. Len(file.sections)
        /\ Len(file.symbols) \in Nat /\ DOMAIN file.symbols = 1 .. Len(file.symbols)
        /\ \A i \in DOMAIN file.sections : file.sections[i].off \in Nat /\ file.sections[i].size \in Nat
        /\ \E i \in DOMAIN file.sections : file.sections[i].name = ".dynsym"

VARIABLES
    dls_pc,
    dls_maps, dls_file,  \* what this process was given
    dls_f,               \* struct dls_file: the path it is open on, NULL if not set
    dls_held,            \* [fds, maps] held for it
    dls_vec,             \* iov_base
    dls_out,             \* des_array: its entries [ind, name, rel]; nobody minds their order
    dls_patched          \* what was overwritten: set of <<base, unit of the relocation>>

given == <<dls_maps, dls_file>>
dls_vars == <<dls_pc, given, dls_f, dls_held, dls_vec, dls_out, dls_patched>>

DlsInit ==
    /\ dls_pc = "dlopen"
    /\ dls_maps \in Maps /\ dls_file \in Libraries
    /\ dls_f = NULL
    /\ dls_held = [fds |-> 0, maps |-> 0]
    /\ dls_vec = NULL
    /\ dls_out = {}
    /\ dls_patched = {}

dlopen ==
    /\ dls_pc = "dlopen"
    /\ dls_pc' \in {"search", "end"}
    /\ UNCHANGED <<given, dls_f, dls_held, dls_vec, dls_out, dls_patched>>

----------------------------------------------------------------------------
(* dls_search_dso                                                          *)

(* What lib holds at line i: sscanf leaves it alone when there is no path. *)
PathAt(i) ==
    LET named == {j \in 1 .. i : dls_maps[j].path # NULL}
    IN  IF named = {} THEN NULL ELSE dls_maps[Max(named)].path

MapHits == {i \in DOMAIN dls_maps : dls_maps[i].off = 0 /\ PathAt(i) \in SameName}

(* The first hit ends the search.  Fault: the search goes on.              *)
Found_last == IF MapHits = {} THEN NULL ELSE Max(MapHits)
Found == IF MapHits = {} THEN NULL ELSE Min(MapHits)

(* open, fstat and mmap may fail; what was opened is closed.               *)
dls_file_open(path) ==
    \/ dls_f' = path /\ dls_held' = [fds |-> dls_held.fds + 1, maps |-> dls_held.maps + 1]
    \/ UNCHANGED <<dls_f, dls_held>>

dls_file_close == dls_held' = [fds |-> dls_held.fds - 1, maps |-> dls_held.maps - 1]

(* Neither main, nor dls_search_dso for dls_file_open, looks at the result.*)
dls_search_dso ==
    /\ dls_pc = "search"
    /\ \/ /\ Found # NULL
          /\ dls_file_open(PathAt(Found))
          /\ dls_vec' = dls_maps[Found].start
       \/ UNCHANGED <<dls_f, dls_held, dls_vec>>
    /\ dls_pc' = IF dls_f' = NULL THEN "undefined" ELSE "tables"
    /\ UNCHANGED <<given, dls_out, dls_patched>>

----------------------------------------------------------------------------
(* The tables of the file                                                  *)

dls_get_shdr_by_name(name) ==
    LET named == {i \in DOMAIN dls_file.sections : dls_file.sections[i].name = name}
    IN  IF named = {} THEN NULL ELSE Min(named)

DlsWord(k) == IF k + 1 \in DOMAIN dls_file.words THEN dls_file.words[k + 1] ELSE 0

(* sh_size is divided by the size of an Elf64_Rel, two thirds of what an   *)
(* entry takes.  Fault: the last entry is left out.                        *)
dls_numrel_short(s) == s.size - 1
dls_numrel(s) == (3 * s.size) \div 2

DlsHits(s, sym_ind) == {k \in s.off .. s.off + dls_numrel(s) - 1 : DlsWord(k) = sym_ind}

dls_get_rel_sym(section_ind, sym_ind) ==
    LET hit == {i \in DOMAIN dls_file.sections :
                   LET s == dls_file.sections[i] IN
                   s.type = "RELA" /\ s.link = section_ind /\ DlsHits(s, sym_ind) # {}}
    IN  IF hit = {} THEN NULL ELSE Min(DlsHits(dls_file.sections[Min(hit)], sym_ind))

External == {i \in DOMAIN dls_file.symbols : dls_file.symbols[i].external}

Entry(i) == [ind  |-> i - 1,
             name |-> dls_file.symbols[i].name,
             rel  |-> dls_get_rel_sym(dls_get_shdr_by_name(".dynsym") - 1, i - 1)]

dls_get_external_syms ==
    /\ dls_pc = "tables"
    /\ dls_out' = {Entry(i) : i \in External}
    /\ dls_pc' = "patch"
    /\ UNCHANGED <<given, dls_f, dls_held, dls_vec, dls_patched>>

Funky == {e \in dls_out : e.name = "funky"}

(* A symbol without relocation has a null pointer there.                   *)
patch ==
    /\ dls_pc = "patch"
    /\ dls_patched' = {<<dls_vec, e.rel>> : e \in Funky}
    /\ dls_pc' = IF \E e \in Funky : e.rel = NULL THEN "undefined" ELSE "call"
    /\ UNCHANGED <<given, dls_f, dls_held, dls_vec, dls_out>>

(* hello_world is called, the library and its file are closed.             *)
finish ==
    /\ dls_pc = "call"
    /\ dls_pc' = "end"
    /\ dls_file_close
    /\ dls_f' = NULL
    /\ UNCHANGED <<given, dls_vec, dls_out, dls_patched>>

DlsNext == dlopen \/ dls_search_dso \/ dls_get_external_syms \/ patch \/ finish

DlsSpec == DlsInit /\ [][DlsNext]_dls_vars

----------------------------------------------------------------------------
(* Properties                                                              *)

DlsRelSections ==
    {i \in DOMAIN dls_file.sections :
        /\ dls_file.sections[i].type = "RELA"
        /\ dls_file.sections[i].link = dls_get_shdr_by_name(".dynsym") - 1}

RelocationsOf(ind) ==
    UNION {LET s == dls_file.sections[i] IN {k \in s.off .. s.off + s.size - 1 : DlsWord(k) = ind} :
             i \in DlsRelSections}

(* The linker lays the relocation sections one behind the other, in the    *)
(* order of their headers.                                                 *)
LaidOut ==
    \A i, j \in DlsRelSections : i < j =>
        LET before == dls_file.sections[i]
            behind == dls_file.sections[j]
        IN  /\ before.off + before.size <= behind.off
            /\ \A k \in before.off .. behind.off - 1 :
                   \E m \in DlsRelSections :
                       k \in dls_file.sections[m].off .. dls_file.sections[m].off + dls_file.sections[m].size - 1

(* Every external symbol that has relocations gets its first one, though   *)
(* each section is read half its size too far; only a symbol without any   *)
(* can be given a word from behind the last section.                       *)
DlsRelocations ==
    LaidOut => \A e \in dls_out :
        IF RelocationsOf(e.ind) # {} THEN e.rel = Min(RelocationsOf(e.ind))
        ELSE e.rel = NULL \/ \A i \in DlsRelSections :
                                e.rel >= dls_file.sections[i].off + dls_file.sections[i].size

(* What is overwritten is the library's own slot for funky, where dlopen   *)
(* mapped it, although an anonymous mapping in the list keeps the name of  *)
(* the line before; unless another file of that name is mapped below.      *)
DlsPatchesLibrary ==
    /\ dls_pc = "call" /\ LaidOut
    /\ \A i \in DOMAIN dls_maps : dls_maps[i].path \in SameName => dls_maps[i].path = LibPath
    => LET first == CHOOSE i \in DOMAIN dls_maps : dls_maps[i].path = LibPath /\ dls_maps[i].off = 0
           funky == {j - 1 : j \in {k \in External : dls_file.symbols[k].name = "funky"}}
       IN  \A p \in dls_patched :
               /\ p[1] = dls_maps[first].start
               /\ (\A ind \in funky : RelocationsOf(ind) # {}) =>
                      p[2] \in UNION {RelocationsOf(ind) : ind \in funky}

(* Descriptor and mapping are held exactly while f says so: an open that   *)
(* fails keeps nothing, and main gives back what it opened.                *)
DlsHolds == dls_held = IF dls_f = NULL THEN [fds |-> 0, maps |-> 0] ELSE [fds |-> 1, maps |-> 1]
=============================================================================
