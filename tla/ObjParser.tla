----------------------------- MODULE ObjParser -----------------------------
(***************************************************************************)
(* linux_obj_parser of got_modifier: what lop_init_info takes from an ELF  *)
(* object.  An object is                                                   *)
(*   segments : sequence of [load, x, w, vaddr]                            *)
(*   sections : sequence of [type, link, off, size]; section 0 is first    *)
(*   symbols  : the dynamic symbols [name, value]; symbol 0 is first       *)
(*   words    : the file in units of a relocation entry, from offset 0;    *)
(*              words[k + 1] is the symbol that unit k names, read as one. *)
(***************************************************************************)
EXTENDS Integers, Sequences, FiniteSetsExt

CONSTANTS LOP_MAX_DYNSYM, NotFound

IsObject(o) ==
    /\ Len(o.sections) \in Nat /\ DOMAIN o.sections = 1 .. Len(o.sections)
    /\ Len(o.symbols) \in Nat /\ DOMAIN o.symbols = 1 .. Len(o.symbols)
    /\ \A i \in DOMAIN o.sections : o.sections[i].off \in Nat /\ o.sections[i].size \in Nat
    /\ \A i \in DOMAIN o.symbols : o.symbols[i].value \in Int
    /\ Len(o.words) \in Nat

FirstOf(S) == IF S = {} THEN NotFound ELSE Min(S)
LastOf(S) == IF S = {} THEN NotFound ELSE Max(S)

(* The loop stops at the second segment that is loaded and executable, or  *)
(* writable: two executable ones leave no data address.                    *)
lop_read_segment_info(o) ==
    LET two == {j \in DOMAIN o.segments :
                  LET used == {k \in 1 .. j : /\ o.segments[k].load
                                              /\ o.segments[k].x \/ o.segments[k].w}
                  IN  j \in used /\ Cardinality(used) <= 2}
        exec == {j \in two : o.segments[j].x}
        vaddr(j) == IF j = NotFound THEN 0 ELSE o.segments[j].vaddr
    IN  [failed |-> Cardinality(two) # 2,
         text   |-> vaddr(LastOf(exec)),
         data   |-> vaddr(LastOf(two \ exec))]

lop_get_section_by_type(o, type) == FirstOf({i \in DOMAIN o.sections : o.sections[i].type = type})

(* Past the end of the file its last page is zero.                         *)
LopWord(o, k) == IF k + 1 \in DOMAIN o.words THEN o.words[k + 1] ELSE 0

(* The number of entries is taken from the section's offset, not its size. *)
lop_numrel(o, i) == o.sections[i].off

(* Fault: symbols counted from 1.                                          *)
LopHits_next(o, i, ind) ==
    {k \in o.sections[i].off .. o.sections[i].off + lop_numrel(o, i) - 1 : LopWord(o, k) = ind + 1}
LopHits(o, i, ind) ==
    {k \in o.sections[i].off .. o.sections[i].off + lop_numrel(o, i) - 1 : LopWord(o, k) = ind}

(* The first hit in the first section that has one; sind counts from 0.    *)
lop_find_rel_by_sym(o, sind, ind) ==
    LET hit == FirstOf({i \in DOMAIN o.sections : /\ o.sections[i].type = "REL"
                                                  /\ o.sections[i].link = sind
                                                  /\ LopHits(o, i, ind) # {}})
    IN  IF hit = NotFound THEN NotFound ELSE Min(LopHits(o, hit, ind))

lop_build_plt_table(o, dyn) ==
    [i \in 1 .. Min({Len(o.symbols), LOP_MAX_DYNSYM}) |->
        [sym |-> i, symname |-> o.symbols[i].name, rel |-> lop_find_rel_by_sym(o, dyn - 1, i - 1)]]

lop_read_dynsym_section(o) ==
    LET dyn == lop_get_section_by_type(o, "DYNSYM")
    IN  IF dyn = NotFound THEN <<>> ELSE lop_build_plt_table(o, dyn)

(* NotFound stands for die_now.                                                *)
lop_init_info(o) ==
    IF lop_read_segment_info(o).failed \/ lop_read_dynsym_section(o) = <<>>
    THEN NotFound
    ELSE [textvaddr |-> lop_read_segment_info(o).text,
          datavaddr |-> lop_read_segment_info(o).data,
          plt       |-> lop_read_dynsym_section(o)]

----------------------------------------------------------------------------
(* What the tables should say                                              *)

LopRelSections(o) ==
    {i \in DOMAIN o.sections :
        o.sections[i].type = "REL" /\ o.sections[i].link = lop_get_section_by_type(o, "DYNSYM") - 1}

(* The units that are relocations of symbol ind.                           *)
LopRelocations(o, ind) ==
    UNION {{k \in o.sections[i].off .. o.sections[i].off + o.sections[i].size - 1 : LopWord(o, k) = ind} :
             i \in LopRelSections(o)}

(* No relocation section is longer than its distance from the file's start.*)
WithinReach(o) == \A i \in LopRelSections(o) : o.sections[i].size <= o.sections[i].off

(* They lie one behind the other, in the order of their headers.           *)
LopLaidOut(o) ==
    \A i, j \in LopRelSections(o) : i < j =>
        /\ o.sections[i].off + o.sections[i].size <= o.sections[j].off
        /\ \A k \in o.sections[i].off .. o.sections[j].off - 1 :
               \E m \in LopRelSections(o) :
                   k \in o.sections[m].off .. o.sections[m].off + o.sections[m].size - 1

Regular(o) == WithinReach(o) /\ LopLaidOut(o)
=============================================================================
