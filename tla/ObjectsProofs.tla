--------------------------- MODULE ObjectsProofs ----------------------------
(***************************************************************************)
(* Proofs about the programs that read ELF objects and about the loader of *)
(* plugins: for every executable, object, library and list of mappings.    *)
(***************************************************************************)
EXTENDS MCObjects, HeapPoolLayoutProofs, FiniteSetTheorems, WellFoundedInduction, TLAPS

----------------------------------------------------------------------------
(* Least and greatest numbers.  The library's theorems on induction take   *)
(* an operator; that < is well-founded does not, so an argument by         *)
(* induction is made about a least counterexample.                         *)

LEMMA NatMin ==
    ASSUME NEW S \in SUBSET Nat, S # {}
    PROVE  Min(S) \in S /\ \A y \in S : Min(S) <= y
<1> DEFINE R == {ss \in Nat \X Nat : ss[1] < ss[2]}
<1>1. IsWellFoundedOn(R, Nat)
  BY NatLessThanWellFounded DEF OpToRel
<1>2. \A x, y \in Nat : y < x => <<y, x>> \in R
  OBVIOUS
<1> HIDE DEF R
<1>3. PICK x \in S : \A y \in S : ~ (<<y, x>> \in R)
  <2>1. S \subseteq Nat /\ S # {}
    OBVIOUS
  <2> QED
    BY <1>1, <2>1, WFMin
<1>4. \A y \in S : x <= y
  <2> SUFFICES ASSUME NEW y \in S, y < x PROVE FALSE
    OBVIOUS
  <2>1. x \in Nat /\ y \in Nat
    OBVIOUS
  <2> QED
    BY <1>2, <1>3, <2>1
<1> QED
  BY <1>3, <1>4 DEF Min

LEMMA NatMax ==
    ASSUME NEW S \in SUBSET Nat, S # {}, NEW n \in Nat, \A y \in S : y <= n
    PROVE  Max(S) \in S /\ \A y \in S : Max(S) >= y
<1> DEFINE T == {n - y : y \in S}
<1>1. T \in SUBSET Nat
  OBVIOUS
<1> T # {}
  OBVIOUS
<1>2. PICK y \in S : n - y = Min(T)
  BY <1>1, NatMin
<1>3. \A z \in S : n - z >= n - y
  BY <1>1, <1>2, NatMin
<1>4. \A z \in S : y >= z
  BY <1>3
<1> QED
  BY <1>4 DEF Max

(* A sequence's positions.                                                 *)
LEMMA FirstPosition ==
    ASSUME NEW T, NEW seq \in Seq(T), NEW S \in SUBSET DOMAIN seq, S # {}
    PROVE  Min(S) \in S /\ Min(S) \in Nat \ {0} /\ \A y \in S : Min(S) <= y
<1>1. DOMAIN seq = 1 .. Len(seq) /\ Len(seq) \in Nat
  OBVIOUS
<1>2. S \in SUBSET Nat
  BY <1>1
<1> QED
  BY <1>1, <1>2, NatMin

LEMMA LastPosition ==
    ASSUME NEW T, NEW seq \in Seq(T), NEW S \in SUBSET DOMAIN seq, S # {}
    PROVE  Max(S) \in S /\ Max(S) \in Nat \ {0} /\ \A y \in S : Max(S) >= y
<1>1. DOMAIN seq = 1 .. Len(seq) /\ Len(seq) \in Nat
  OBVIOUS
<1>2. S \in SUBSET Nat /\ \A y \in S : y <= Len(seq)
  BY <1>1
<1>3. Max(S) \in S /\ \A y \in S : Max(S) >= y
  <2> DEFINE n == Len(seq)
  <2>1. n \in Nat /\ \A y \in S : y <= n
    BY <1>1, <1>2
  <2> HIDE DEF n
  <2> QED
    BY <1>2, <2>1, NatMax
<1> QED
  BY <1>1, <1>3

LEMMA SeqElement == ASSUME NEW T, NEW seq \in Seq(T), NEW i1 \in DOMAIN seq PROVE seq[i1] \in T
OBVIOUS

----------------------------------------------------------------------------
(* sym_resolv                                                              *)

SymInv == SymTypeOK /\ SymHolds

LEMMA HeldExcept ==
    ASSUME NEW r, r = [fds |-> r.fds, maps |-> r.maps], NEW x
    PROVE  /\ [r EXCEPT !.fds = x] = [fds |-> x, maps |-> r.maps]
           /\ [r EXCEPT !.maps = x] = [fds |-> r.fds, maps |-> x]
OBVIOUS

LEMMA HeldMaperr ==
    ASSUME NEW r, NEW F, NEW m, NEW fd, fd \notin F, r = [fds |-> F \cup {fd}, maps |-> m]
    PROVE  sr_open_maperr(r, fd) = [fds |-> F, maps |-> m]
<1>1. r = [fds |-> r.fds, maps |-> r.maps] /\ r.fds \ {fd} = F /\ r.maps = m
  OBVIOUS
<1> QED
  BY <1>1, HeldExcept DEF sr_open_maperr

LEMMA HeldNoSymtab ==
    ASSUME NEW r, NEW F, NEW fd, fd \notin F, r = [fds |-> F \cup {fd}, maps |-> 1]
    PROVE  sr_no_symtab(r, fd) = [fds |-> F, maps |-> 0]
<1> DEFINE less == [r EXCEPT !.maps = @ - 1]
<1>1. r = [fds |-> r.fds, maps |-> r.maps] /\ r.fds = F \cup {fd} /\ r.maps - 1 = 0
  OBVIOUS
<1>2. less = [fds |-> F \cup {fd}, maps |-> 0]
  BY <1>1, HeldExcept
<1> HIDE DEF less
<1> QED
  BY <1>2, HeldMaperr DEF sr_no_symtab, less

LEMMA ResExcept ==
    ASSUME NEW r \in [symname : SymNames, symaddr : Int]
    PROVE  unnamed(r) = [symname |-> NoName, symaddr |-> r.symaddr]
<1>1. r = [symname |-> r.symname, symaddr |-> r.symaddr]
  OBVIOUS
<1>2. ASSUME NEW x PROVE [r EXCEPT !.symname = x] = [symname |-> x, symaddr |-> r.symaddr]
  BY <1>1
<1> QED
  BY <1>2 DEF unnamed

LEMMA FirstIndexIn ==
    ASSUME NEW T, NEW seq \in Seq(T), NEW S \in SUBSET DOMAIN seq, FirstIndex(S) # 0
    PROVE  FirstIndex(S) \in S
BY FirstPosition DEF FirstIndex

LEMMA ResolvedType ==
    ASSUME sym_exe \in Executables, NEW addr, NEW res \in [symname : SymNames, symaddr : Int]
    PROVE  Resolved(addr, res) \in [symname : SymNames, symaddr : Int]
<1> DEFINE own == __sym_resolv_get_funcname_by_addr(sym_exe.symbols, addr)
           dyn == __sym_resolv_get_funcname_by_addr(Dynamic, addr)
<1>1. sym_exe.symbols \in SymbolTables /\ Dynamic \in SymbolTables /\ NoName \in SymNames
  BY SymbolsAssumption
<1>2. own # 0 => sym_exe.symbols[own] \in [name : SymNames, value : Nat, size : Nat]
  <2>1. own # 0 => own \in DOMAIN sym_exe.symbols
    BY <1>1, FirstIndexIn DEF SymbolTables, __sym_resolv_get_funcname_by_addr
  <2> HIDE DEF own
  <2> QED
    BY <1>1, <2>1, SeqElement DEF SymbolTables
<1>3. dyn # 0 => Dynamic[dyn] \in [name : SymNames, value : Nat, size : Nat]
  <2>1. dyn # 0 => dyn \in DOMAIN Dynamic
    BY <1>1, FirstIndexIn DEF SymbolTables, __sym_resolv_get_funcname_by_addr
  <2> HIDE DEF dyn
  <2> QED
    BY <1>1, <2>1, SeqElement DEF SymbolTables
<1> HIDE DEF own, dyn
<1>4. unnamed(res) \in [symname : SymNames, symaddr : Int]
  BY <1>1, ResExcept
<1>5. /\ own # 0 => [symname |-> sym_exe.symbols[own].name, symaddr |-> sym_exe.symbols[own].value]
                    \in [symname : SymNames, symaddr : Int]
      /\ dyn # 0 => [symname |-> Dynamic[dyn].name, symaddr |-> Dynamic[dyn].value]
                     \in [symname : SymNames, symaddr : Int]
  BY <1>2, <1>3
<1> QED
  BY <1>4, <1>5 DEF Resolved, own, dyn

LEMMA SymInvInit == SymInit => SymInv
<1> SUFFICES ASSUME SymInit PROVE SymInv
  OBVIOUS
<1>1. Min(Addrs) \in Addrs
  BY NatMin, SymbolsAssumption
<1>2. sym_asked \in [Slots -> Addrs]
  BY <1>1 DEF SymInit
<1>3. sym_res \in [Slots -> [symname : SymNames, symaddr : Int]]
  BY SymbolsAssumption DEF SymInit
<1> QED
  BY <1>2, <1>3 DEF SymInit, SymInv, SymTypeOK, SymHolds

LEMMA SymInvNext == SymInv /\ [SymNext]_sym_vars => SymInv'
<1> SUFFICES ASSUME SymInv, [SymNext]_sym_vars PROVE SymInv'
  OBVIOUS
<1> USE DEF SymInv, SymTypeOK, SymHolds
<1>1. CASE UNCHANGED sym_vars
  BY <1>1 DEF sym_vars
<1>2. CASE __sym_resolv_open
  <2>1. /\ NewFd \in {0, 1} /\ NewFd \notin sym_held.fds
        /\ sym_held.fds \subseteq {0} /\ sym_held.maps = 0
    <3>1. sym_held.fds \subseteq {0} /\ sym_held.maps = 0
      BY <1>2 DEF __sym_resolv_open
    <3>2. NewFd \in (0 .. 2) \ sym_held.fds /\ \A y \in (0 .. 2) \ sym_held.fds : NewFd <= y
      BY <3>1, NatMin DEF NewFd
    <3>3. 1 \in (0 .. 2) \ sym_held.fds
      BY <3>1
    <3> QED
      BY <3>1, <3>2, <3>3
  <2> HIDE DEF NewFd
  <2> DEFINE opened == [sym_held EXCEPT !.fds = @ \cup {NewFd}]
             mapped == [opened EXCEPT !.maps = @ + 1]
  <2>2. opened = [fds |-> sym_held.fds \cup {NewFd}, maps |-> 0]
    <3>1. sym_held = [fds |-> sym_held.fds, maps |-> sym_held.maps]
      OBVIOUS
    <3> QED
      BY <2>1, <3>1, HeldExcept
  <2>3. mapped = [fds |-> sym_held.fds \cup {NewFd}, maps |-> 1]
    <3>1. opened = [fds |-> opened.fds, maps |-> opened.maps] /\ opened.maps = 0
      BY <2>2
    <3> HIDE DEF opened
    <3>2. mapped = [fds |-> opened.fds, maps |-> opened.maps + 1]
      BY <3>1, HeldExcept
    <3> QED
      BY <2>2, <3>2
  <2> HIDE DEF opened, mapped
  <2>4. sr_open_maperr(opened, NewFd) = [fds |-> sym_held.fds, maps |-> 0]
    BY <2>1, <2>2, HeldMaperr
  <2>5. sr_no_symtab(mapped, NewFd) = [fds |-> sym_held.fds, maps |-> 0]
    BY <2>1, <2>3, HeldNoSymtab
  <2>6. /\ sym_fd = -1 /\ UNCHANGED <<sym_exe, sym_asked, sym_res>>
        /\ \/ UNCHANGED <<sym_held, sym_fd>>
           \/ NewFd <= 0 /\ sym_held' = opened /\ UNCHANGED sym_fd
           \/ ~ (NewFd <= 0) /\ sym_held' = sr_open_maperr(opened, NewFd) /\ UNCHANGED sym_fd
           \/ ~ (NewFd <= 0) /\ sym_held' = sr_no_symtab(mapped, NewFd) /\ UNCHANGED sym_fd
           \/ ~ (NewFd <= 0) /\ sym_held' = mapped /\ sym_fd' = NewFd
    BY <1>2 DEF __sym_resolv_open, Unopened, opened, mapped
  <2> QED
    BY <2>1, <2>2, <2>3, <2>4, <2>5, <2>6
<1>3. CASE sym_resolv_close
  BY <1>3 DEF sym_resolv_close
<1>4. CASE stdin
  <2>1. sym_held' = [fds |-> IF 0 \in sym_held.fds THEN sym_held.fds \ {0} ELSE sym_held.fds \cup {0},
                     maps |-> sym_held.maps]
    BY <1>4 DEF stdin
  <2>2. UNCHANGED <<sym_exe, sym_fd, sym_asked, sym_res>>
    BY <1>4 DEF stdin
  <2>3. sym_fd # 0
    BY DEF SymHolds
  <2> QED
    BY <2>1, <2>2, <2>3
<1>5. ASSUME NEW addr \in [Slots -> Addrs], sym_resolv_addr(addr) PROVE SymInv'
  <2>1. sym_res' \in [Slots -> [symname : SymNames, symaddr : Int]]
    BY <1>5, ResolvedType DEF sym_resolv_addr
  <2> QED
    BY <1>5, <2>1 DEF sym_resolv_addr
<1> QED
  BY <1>1, <1>2, <1>3, <1>4, <1>5 DEF SymNext

(* The ranges of sym_resolv's state.                                       *)
THEOREM SymTypes == SymSpec => []SymTypeOK
<1>1. SymInv => SymTypeOK
  BY DEF SymInv
<1> QED
  BY <1>1, SymInvInit, SymInvNext, PTL DEF SymSpec

(* Whatever step of __sym_resolv_open fails, sym_resolv holds a descriptor *)
(* and a mapping exactly while sr_fd says so, but for descriptor 0.        *)
THEOREM SymHoldsAlways == SymSpec => []SymHolds
<1>1. SymInv => SymHolds
  BY DEF SymInv
<1> QED
  BY <1>1, SymInvInit, SymInvNext, PTL DEF SymSpec

(* What result r says of the address asked, as in SymAnswers.              *)
AnswersIn(S, asked1, r) == {s \in S : /\ s.name = r.symname /\ s.value = r.symaddr
                                     /\ asked1 \in s.value .. s.value + s.size - 1}
Elements(table) == {table[j] : j \in DOMAIN table}
Namesakes(name) == {j \in DOMAIN sym_exe.symbols : sym_exe.symbols[j].name = name}

Answer(asked1, r) ==
    r.symname # NoName =>
        \/ /\ AnswersIn(Elements(sym_exe.symbols), asked1, r) # {}
           /\ \/ sym_exe.symbols[sym_resolv_symbol(r.symname)]
                    \in AnswersIn(Elements(sym_exe.symbols), asked1, r)
              \/ Cardinality(Namesakes(r.symname)) > 1
        \/ AnswersIn(Elements(Dynamic), asked1, r) # {}

LEMMA AnswersMeaning == SymAnswers <=> \A k \in Slots : Answer(sym_asked[k], sym_res[k])
BY DEF SymAnswers, Answer, AnswersIn, Elements, Namesakes

(* An entry found around the address is an answer.                         *)
LEMMA FoundAnswers ==
    ASSUME NEW table \in SymbolTables, NEW addr \in Nat,
           NEW j, j = __sym_resolv_get_funcname_by_addr(table, addr), j # 0,
           NEW r, r.symname = table[j].name, r.symaddr = table[j].value
    PROVE  j \in DOMAIN table /\ table[j] \in AnswersIn(Elements(table), addr, r)
<1>1. j \in DOMAIN table /\ Around(table[j], addr)
  <2>1. {m \in DOMAIN table : Around(table[m], addr)} \in SUBSET DOMAIN table
    OBVIOUS
  <2> QED
    BY <2>1, FirstIndexIn DEF __sym_resolv_get_funcname_by_addr, SymbolTables
<1>2. table[j] \in [name : SymNames, value : Nat, size : Nat]
  BY <1>1, SeqElement DEF SymbolTables
<1> QED
  BY <1>1, <1>2 DEF Around, AnswersIn, Elements

LEMMA TwoNamesakes ==
    ASSUME NEW T, NEW seq \in Seq(T), NEW S \in SUBSET DOMAIN seq, NEW j \in S, NEW m \in S, j # m
    PROVE  Cardinality(S) > 1
<1>1. IsFiniteSet(DOMAIN seq)
  <2>1. DOMAIN seq = 1 .. Len(seq) /\ Len(seq) \in Int /\ 1 \in Int
    OBVIOUS
  <2> QED
    BY <2>1, FS_Interval
<1>2. IsFiniteSet(S)
  BY <1>1, FS_Subset
<1>3. Cardinality({j, m}) = 2
  <2>1. IsFiniteSet({j}) /\ Cardinality({j}) = 1
    BY FS_Singleton
  <2>2. Cardinality({j} \cup {m}) = 1 + 1
    BY <2>1, FS_AddElement
  <2> QED
    BY <2>2
<1>4. {j, m} \subseteq S
  OBVIOUS
<1>5. Cardinality({j, m}) <= Cardinality(S)
  BY <1>2, <1>4, FS_Subset
<1>6. Cardinality(S) \in Nat
  BY <1>2, FS_CardinalityType
<1> QED
  BY <1>3, <1>5, <1>6

LEMMA ResolvedAnswers ==
    ASSUME SymTypeOK, NEW addr \in Addrs, NEW res \in [symname : SymNames, symaddr : Int]
    PROVE  Answer(addr, Resolved(addr, res))
<1> DEFINE table == sym_exe.symbols
           j == __sym_resolv_get_funcname_by_addr(table, addr)
           dyn == __sym_resolv_get_funcname_by_addr(Dynamic, addr)
           r == Resolved(addr, res)
<1>1. table \in SymbolTables /\ Dynamic \in SymbolTables /\ addr \in Nat
  BY SymbolsAssumption DEF SymTypeOK
<1>2. CASE j # 0
  <2>1. r.symname = table[j].name /\ r.symaddr = table[j].value
    BY <1>2 DEF Resolved
  <2>2. j \in DOMAIN table /\ table[j] \in AnswersIn(Elements(table), addr, r)
    <3> HIDE DEF r, table
    <3> QED
      BY <1>1, <1>2, <2>1, FoundAnswers
  <2> DEFINE m == sym_resolv_symbol(r.symname)
             same == Namesakes(r.symname)
  <2>3. j \in same /\ same \in SUBSET DOMAIN table
    BY <2>1, <2>2 DEF Namesakes
  <2>4. m \in same
    <3>1. m = Min(same)
      BY <2>3 DEF sym_resolv_symbol, FirstIndex, Namesakes
    <3> HIDE DEF r, m, same, table
    <3> QED
      BY <1>1, <2>3, <3>1, FirstPosition DEF SymbolTables
  <2>5. j = m \/ Cardinality(same) > 1
    <3> HIDE DEF r, m, same, table, j
    <3> QED
      BY <1>1, <2>3, <2>4, TwoNamesakes DEF SymbolTables
  <2> HIDE DEF r, j
  <2>9. Answer(addr, r)
    BY <2>2, <2>5 DEF Answer
  <2> QED
    BY <2>9 DEF r
<1>3. CASE j = 0 /\ dyn # 0
  <2>1. r.symname = Dynamic[dyn].name /\ r.symaddr = Dynamic[dyn].value
    BY <1>3 DEF Resolved
  <2>2. Dynamic[dyn] \in AnswersIn(Elements(Dynamic), addr, r)
    <3> HIDE DEF r
    <3> QED
      BY <1>1, <1>3, <2>1, FoundAnswers
  <2> HIDE DEF r
  <2>9. Answer(addr, r)
    BY <2>2 DEF Answer
  <2> QED
    BY <2>9 DEF r
<1>4. CASE j = 0 /\ dyn = 0
  <2>1. r.symname = NoName
    BY <1>4, ResExcept DEF Resolved
  <2> HIDE DEF r
  <2>9. Answer(addr, r)
    BY <2>1 DEF Answer
  <2> QED
    BY <2>9 DEF r
<1> QED
  BY <1>2, <1>3, <1>4

(* A result with a name says where a symbol of that name starts that the   *)
(* address asked for lies in: what sym_resolv_addr leaves in a result of   *)
(* an earlier call never shows through.                                    *)
THEOREM SymAnswersAlways == SymSpec => []SymAnswers
<1> DEFINE Inv == SymInv /\ SymAnswers
<1>1. SymInit => Inv
  <2>1. SymInit => \A k \in Slots : sym_res[k].symname = NoName
    BY DEF SymInit
  <2> QED
    BY <2>1, SymInvInit, AnswersMeaning DEF Answer
<1>2. Inv /\ [SymNext]_sym_vars => Inv'
  <2> SUFFICES ASSUME SymInv, SymAnswers, [SymNext]_sym_vars PROVE SymAnswers'
    BY SymInvNext
  <2>0. (SymAnswers <=> \A k \in Slots : Answer(sym_asked[k], sym_res[k]))'
    BY DEF SymAnswers, Answer, AnswersIn, Elements, Namesakes
  <2>1. CASE UNCHANGED <<sym_exe, sym_asked, sym_res>>
    <3>1. (\A k \in Slots : Answer(sym_asked[k], sym_res[k]))'
      BY <2>1, AnswersMeaning DEF Answer, Namesakes, sym_resolv_symbol
    <3> QED
      BY <2>0, <3>1
  <2>2. ASSUME NEW addr \in [Slots -> Addrs], sym_resolv_addr(addr) PROVE SymAnswers'
    <3>1. sym_exe' = sym_exe /\ \A k \in Slots : sym_asked'[k] = addr[k] /\ sym_res'[k] = Resolved(addr[k], sym_res[k])
      BY <2>2 DEF sym_resolv_addr
    <3>2. \A k \in Slots : Answer(sym_asked'[k], sym_res'[k])
      BY <3>1, ResolvedAnswers DEF SymInv, SymTypeOK
    <3>3. (\A k \in Slots : Answer(sym_asked[k], sym_res[k]))'
      BY <3>1, <3>2 DEF Answer, Namesakes, sym_resolv_symbol
    <3> QED
      BY <2>0, <3>3
  <2> QED
    BY <2>1, <2>2 DEF SymNext, sym_vars, __sym_resolv_open, sym_resolv_close, stdin
<1>3. Inv => SymAnswers
  OBVIOUS
<1> QED
  BY <1>1, <1>2, <1>3, PTL DEF SymSpec

----------------------------------------------------------------------------
(* Tables of relocations                                                   *)

(* Sections I at off, size units long and read as if they had reach, W the *)
(* units that refer to a symbol.                                           *)
Within(from, n, W) == {k \in from .. from + n - 1 : k \in W}
OwnUnits(I, off, size, W) == UNION {Within(off[m], size[m], W) : m \in I}
HitIn(I, off, reach, W) == {m \in I : Within(off[m], reach[m], W) # {}}

(* The sections lie one behind the other.                                  *)
Consecutive(I, off, size) ==
    \A m, n \in I : m < n =>
        /\ off[m] + size[m] <= off[n]
        /\ \A k \in off[m] .. off[n] - 1 : \E l \in I : k \in off[l] .. off[l] + size[l] - 1

(* Then the first hit in the first section with a hit is the first unit    *)
(* there is, though sections are read too far; and where there is none it  *)
(* lies behind all sections.                                               *)
LEMMA FirstHit ==
    ASSUME NEW I \in SUBSET Nat, NEW off \in [I -> Nat], NEW size \in [I -> Nat], NEW reach \in [I -> Nat],
           \A m \in I : size[m] <= reach[m], Consecutive(I, off, size), NEW W,
           HitIn(I, off, reach, W) # {},
           NEW f, f = Min(HitIn(I, off, reach, W)),
           NEW k, k = Min(Within(off[f], reach[f], W))
    PROVE  /\ k \in Nat /\ f \in I
           /\ OwnUnits(I, off, size, W) # {} => k = Min(OwnUnits(I, off, size, W))
           /\ OwnUnits(I, off, size, W) = {} => \A m \in I : k >= off[m] + size[m]
<1> DEFINE own == OwnUnits(I, off, size, W)
           In(x, m) == off[m] <= x /\ x < off[m] + size[m]
<1>1. /\ f \in I /\ Within(off[f], reach[f], W) # {}
      /\ \A m \in I : Within(off[m], reach[m], W) # {} => f <= m
  <2>1. HitIn(I, off, reach, W) \in SUBSET Nat
    BY DEF HitIn
  <2>2. f \in HitIn(I, off, reach, W) /\ \A m \in HitIn(I, off, reach, W) : f <= m
    BY <2>1, NatMin
  <2> QED
    BY <2>2 DEF HitIn
<1>2. off[f] \in Nat /\ reach[f] \in Nat /\ size[f] \in Nat /\ f \in Nat
  BY <1>1
<1>3. /\ k \in Nat /\ k \in W /\ off[f] <= k /\ k < off[f] + reach[f]
      /\ \A x \in Nat : off[f] <= x /\ x < off[f] + reach[f] /\ x \in W => k <= x
  <2>1. Within(off[f], reach[f], W) \in SUBSET Nat
    BY <1>2 DEF Within
  <2>2. k \in Within(off[f], reach[f], W) /\ \A x \in Within(off[f], reach[f], W) : k <= x
    BY <1>1, <2>1, NatMin
  <2>3. k \in Nat
    BY <2>1, <2>2
  <2> QED
    BY <1>2, <2>2, <2>3 DEF Within
<1>4. \A x : x \in own <=> x \in Nat /\ x \in W /\ \E m \in I : In(x, m)
  <2>1. \A m \in I : \A x : x \in Within(off[m], size[m], W) <=> x \in Nat /\ x \in W /\ In(x, m)
    <3> SUFFICES ASSUME NEW m \in I, NEW x
                 PROVE  x \in Within(off[m], size[m], W) <=> x \in Nat /\ x \in W /\ In(x, m)
      OBVIOUS
    <3>1. off[m] \in Nat /\ size[m] \in Nat
      OBVIOUS
    <3> QED
      BY <3>1 DEF Within
  <2> QED
    BY <2>1 DEF OwnUnits
<1>5. ASSUME NEW m \in I, NEW n \in I, m < n
      PROVE  /\ off[m] + size[m] <= off[n]
             /\ \A x \in Nat : off[m] <= x /\ x < off[n] => \E l \in I : In(x, l)
  <2>1. off[m] \in Nat /\ off[n] \in Nat
    OBVIOUS
  <2>2. \A l \in I : off[l] \in Nat /\ size[l] \in Nat
    OBVIOUS
  <2> QED
    BY <1>5, <2>1, <2>2 DEF Consecutive
<1> HIDE DEF own
<1>6. ASSUME own # {} PROVE k = Min(own)
  <2>1. own \in SUBSET Nat
    BY <1>4
  <2> DEFINE x == Min(own)
  <2>2. x \in own /\ \A y \in own : x <= y
    BY <1>6, <2>1, NatMin
  <2> HIDE DEF x
  <2>3. PICK n \in I : In(x, n)
    BY <1>4, <2>2
  <2>4. x \in Nat /\ x \in W /\ off[n] \in Nat /\ size[n] \in Nat /\ reach[n] \in Nat /\ size[n] <= reach[n]
    BY <1>4, <2>2
  <2>5. f <= n
    <3>1. x \in Within(off[n], reach[n], W)
      BY <2>3, <2>4 DEF Within
    <3> QED
      BY <1>1, <3>1
  <2>6. k \in own => x <= k
    BY <2>2
  <2>7. CASE f = n
    <3>1. k <= x
      BY <1>3, <2>3, <2>4, <2>7
    <3>2. In(k, n)
      BY <1>3, <2>3, <2>4, <2>7, <3>1
    <3>3. k \in own
      BY <1>3, <1>4, <3>2
    <3> QED
      BY <1>3, <2>4, <2>6, <3>1, <3>3 DEF x
  <2>8. CASE f # n
    <3>1. f < n
      BY <1>2, <2>5, <2>8
    <3>2. \A y \in Nat : off[f] <= y /\ y < off[n] => \E l \in I : In(y, l)
      BY <1>1, <1>5, <3>1
    <3>3. ~ (k < off[n])
      <4> SUFFICES ASSUME k < off[n] PROVE FALSE
        OBVIOUS
      <4>1. k \in own
        BY <1>3, <1>4, <3>2
      <4> QED
        BY <1>3, <2>3, <2>4, <2>6, <4>1
    <3>4. ~ (x < k)
      <4> SUFFICES ASSUME x < k PROVE FALSE
        OBVIOUS
      <4>1. off[f] <= off[n]
        BY <1>1, <1>2, <1>5, <2>4, <3>1
      <4> QED
        BY <1>2, <1>3, <2>3, <2>4, <4>1
    <3>5. In(k, n)
      BY <1>3, <2>3, <2>4, <3>3, <3>4
    <3>6. k \in own
      BY <1>3, <1>4, <3>5
    <3> QED
      BY <1>3, <2>4, <2>6, <3>4, <3>6 DEF x
  <2> QED
    BY <2>7, <2>8
<1>7. ASSUME own = {}, NEW m \in I PROVE k >= off[m] + size[m]
  <2>1. \A l \in I : ~ In(k, l)
    BY <1>3, <1>4, <1>7
  <2>2. off[m] \in Nat /\ size[m] \in Nat /\ m \in Nat
    OBVIOUS
  <2>3. CASE m = f
    BY <1>3, <2>1, <2>2, <2>3
  <2>4. CASE m < f
    BY <1>1, <1>2, <1>3, <1>5, <2>2, <2>4
  <2>5. CASE f < m
    <3>1. ~ (k < off[m])
      BY <1>1, <1>3, <1>5, <2>1, <2>5
    <3> QED
      BY <1>3, <2>1, <2>2, <3>1
  <2> QED
    BY <1>2, <2>2, <2>3, <2>4, <2>5
<1> QED
  BY <1>1, <1>3, <1>6, <1>7 DEF own

----------------------------------------------------------------------------
(* dslelf                                                                  *)

DlsInv ==
    /\ dls_maps \in Maps /\ dls_file \in Libraries
    /\ DlsHolds
    /\ dls_pc \in {"dlopen", "search"} => dls_f = NULL
    /\ dls_pc \in {"tables", "patch", "call"} =>
           dls_f # NULL /\ Found # NULL /\ dls_vec = dls_maps[Found].start
    /\ dls_out \in {{}, {Entry(j) : j \in External}}
    /\ dls_pc = "call" => dls_patched = {<<dls_vec, e.rel>> : e \in Funky}

LEMMA FoundIn ==
    ASSUME dls_maps \in Maps, Found # NULL
    PROVE  /\ Found \in DOMAIN dls_maps /\ dls_maps[Found].off = 0 /\ PathAt(Found) \in SameName
           /\ PathAt(Found) # NULL
           /\ \A j \in MapHits : Found <= j
<1>1. MapHits \in SUBSET Nat /\ MapHits # {}
  BY MapsAssumption DEF MapHits, Found
<1>2. Found \in MapHits /\ \A j \in MapHits : Found <= j
  BY <1>1, NatMin DEF Found
<1> QED
  BY <1>2, MapsAssumption DEF MapHits

LEMMA DlsInvInit == DlsInit => DlsInv
BY DEF DlsInit, DlsInv, DlsHolds

LEMMA DlsInvNext == DlsInv /\ [DlsNext]_dls_vars => DlsInv'
<1> SUFFICES ASSUME DlsInv, [DlsNext]_dls_vars PROVE DlsInv'
  OBVIOUS
<1>1. UNCHANGED given => (Found' = Found /\ External' = External /\ \A j : Entry(j)' = Entry(j))
  BY DEF given, Found, MapHits, PathAt, External, Entry, dls_get_rel_sym, DlsHits, DlsWord, dls_numrel,
         dls_get_shdr_by_name
<1>2. UNCHANGED given => dls_maps' = dls_maps /\ dls_file' = dls_file
  BY DEF given
<1>3. UNCHANGED given => {Entry(j) : j \in External}' = {Entry(j) : j \in External}
  BY <1>1
<1>4. CASE UNCHANGED dls_vars
  BY <1>1, <1>2, <1>3, <1>4 DEF dls_vars, DlsInv, DlsHolds, Funky
<1>5. CASE dlopen
  BY <1>1, <1>2, <1>3, <1>5 DEF dlopen, DlsInv, DlsHolds
<1>6. CASE dls_search_dso
  <2>1. dls_f = NULL /\ dls_held = [fds |-> 0, maps |-> 0]
    BY <1>6 DEF dls_search_dso, DlsInv, DlsHolds
  <2>2. CASE Found # NULL /\ dls_f' = PathAt(Found) /\ dls_vec' = dls_maps[Found].start
             /\ dls_held' = [fds |-> dls_held.fds + 1, maps |-> dls_held.maps + 1]
    <3>1. dls_held' = [fds |-> 1, maps |-> 1] /\ dls_f' # NULL
      BY <2>1, <2>2, FoundIn DEF DlsInv
    <3> QED
      BY <1>1, <1>2, <1>3, <1>6, <2>2, <3>1 DEF dls_search_dso, DlsInv, DlsHolds
  <2>3. CASE UNCHANGED <<dls_f, dls_held>>
    BY <1>1, <1>2, <1>3, <1>6, <2>1, <2>3 DEF dls_search_dso, DlsInv, DlsHolds
  <2> QED
    BY <1>6, <2>2, <2>3 DEF dls_search_dso, dls_file_open
<1>7. CASE dls_get_external_syms
  BY <1>1, <1>2, <1>3, <1>7 DEF dls_get_external_syms, DlsInv, DlsHolds
<1>8. CASE patch
  <2>1. Funky' = Funky
    BY <1>8 DEF patch, Funky
  <2> QED
    BY <1>1, <1>2, <1>3, <1>8, <2>1 DEF patch, DlsInv, DlsHolds
<1>9. CASE finish
  <2>1. dls_held = [fds |-> 1, maps |-> 1]
    BY <1>9 DEF finish, DlsInv, DlsHolds
  <2>2. dls_held' = [fds |-> 0, maps |-> 0]
    BY <1>9, <2>1 DEF finish, dls_file_close
  <2> QED
    BY <1>1, <1>2, <1>3, <1>9, <2>2 DEF finish, DlsInv, DlsHolds
<1> QED
  BY <1>4, <1>5, <1>6, <1>7, <1>8, <1>9 DEF DlsNext

(* The invariant of dslelf's run from dlopen to dlclose is inductive.       *)
THEOREM DlsInvariant == DlsSpec => []DlsInv
BY DlsInvInit, DlsInvNext, PTL DEF DlsSpec

(* Descriptor and mapping of dslelf are held exactly while f says so,      *)
(* whatever step of dls_file_open fails.                                   *)
THEOREM DlsHoldsAlways == DlsSpec => []DlsHolds
<1>1. DlsInv => DlsHolds
  BY DEF DlsInv
<1> QED
  BY <1>1, DlsInvariant, PTL

(* The entry of a symbol: its first relocation, if it has one.             *)
LEMMA EntryRight ==
    ASSUME DlsInv, LaidOut, NEW ind, NEW rel,
           rel = dls_get_rel_sym(dls_get_shdr_by_name(".dynsym") - 1, ind)
    PROVE  /\ RelocationsOf(ind) # {} => rel = Min(RelocationsOf(ind))
           /\ RelocationsOf(ind) = {} =>
                  \/ rel = NULL
                  \/ \A m \in DlsRelSections : rel >= dls_file.sections[m].off + dls_file.sections[m].size
<1> DEFINE secs == dls_file.sections
           I == DlsRelSections
           off == [m \in I |-> secs[m].off]
           size == [m \in I |-> secs[m].size]
           reach == [m \in I |-> dls_numrel(secs[m])]
           Words == {k \in Nat : DlsWord(k) = ind}
           hit == HitIn(I, off, reach, Words)
<1>1. /\ I \in SUBSET Nat /\ I \in SUBSET DOMAIN secs
      /\ \A m \in I : secs[m].off \in Nat /\ secs[m].size \in Nat
  BY LibrariesAssumption DEF DlsInv, DlsRelSections
<1>2. \A m \in I : dls_numrel(secs[m]) \in Nat /\ secs[m].size <= dls_numrel(secs[m])
  <2>1. \A x \in Nat : (3 * x) \div 2 \in Nat /\ x <= (3 * x) \div 2
    OBVIOUS
  <2> QED
    BY <1>1, <2>1 DEF dls_numrel
<1>3. off \in [I -> Nat] /\ size \in [I -> Nat] /\ reach \in [I -> Nat] /\ \A m \in I : size[m] <= reach[m]
  BY <1>1, <1>2
<1>4. Consecutive(I, off, size)
  BY <1>1 DEF LaidOut, Consecutive
<1>5. \A m \in I : Within(off[m], reach[m], Words) = DlsHits(secs[m], ind)
  BY <1>1, <1>2 DEF Within, DlsHits
<1>6. \A m \in I : Within(off[m], size[m], Words)
                   = {k \in secs[m].off .. secs[m].off + secs[m].size - 1 : DlsWord(k) = ind}
  BY <1>1 DEF Within
<1>7. RelocationsOf(ind) = OwnUnits(I, off, size, Words)
  <2> HIDE DEF I, off, size, Words
  <2> QED
    BY <1>6 DEF RelocationsOf, OwnUnits, I, secs
<1>8. hit = {m \in DOMAIN secs : /\ secs[m].type = "RELA" /\ secs[m].link = dls_get_shdr_by_name(".dynsym") - 1
                                  /\ DlsHits(secs[m], ind) # {}}
  BY <1>5 DEF HitIn, DlsRelSections
<1>9. /\ hit = {} => rel = NULL
      /\ hit # {} => Min(hit) \in I /\ rel = Min(Within(off[Min(hit)], reach[Min(hit)], Words))
  <2>1. hit # {} => Min(hit) \in I
    <3>1. hit \in SUBSET I
      BY DEF HitIn
    <3>2. hit \in SUBSET Nat
      BY <1>1, <3>1
    <3> HIDE DEF hit, I
    <3> QED
      BY <3>1, <3>2, NatMin
  <2>2. rel = IF hit = {} THEN NULL ELSE Min(DlsHits(secs[Min(hit)], ind))
    BY <1>8 DEF dls_get_rel_sym
  <2> HIDE DEF hit, I, off, reach, Words, secs
  <2> QED
    BY <1>5, <2>1, <2>2
<1> HIDE DEF hit, I, off, reach, size, Words
<1>10. CASE hit = {}
  <2>1. \A m \in I : Within(off[m], reach[m], Words) = {}
    BY <1>10 DEF hit, HitIn
  <2>2. \A m \in I : Within(off[m], size[m], Words) = {}
    <3> SUFFICES ASSUME NEW m \in I, NEW k \in Within(off[m], size[m], Words) PROVE FALSE
      OBVIOUS
    <3>1. off[m] \in Nat /\ size[m] \in Nat /\ reach[m] \in Nat /\ size[m] <= reach[m]
      BY <1>3
    <3>2. k \in Within(off[m], reach[m], Words)
      BY <3>1 DEF Within
    <3> QED
      BY <2>1, <3>2
  <2>3. RelocationsOf(ind) = {}
    BY <1>7, <2>2 DEF OwnUnits
  <2> QED
    BY <1>9, <1>10, <2>3
<1>11. CASE hit # {}
  <2> DEFINE f == Min(hit)
  <2>1. rel = Min(Within(off[f], reach[f], Words))
    BY <1>9, <1>11
  <2>2. /\ OwnUnits(I, off, size, Words) # {} => rel = Min(OwnUnits(I, off, size, Words))
        /\ OwnUnits(I, off, size, Words) = {} => \A m \in I : rel >= off[m] + size[m]
    <3>1. hit = HitIn(I, off, reach, Words)
      BY DEF hit
    <3> HIDE DEF f
    <3> QED
      BY <1>1, <1>3, <1>4, <1>11, <2>1, <3>1, FirstHit DEF f
  <2>3. \A m \in I : off[m] = secs[m].off /\ size[m] = secs[m].size
    BY DEF off, size
  <2> QED
    BY <1>7, <2>2, <2>3 DEF I, secs
<1> QED
  BY <1>10, <1>11

LEMMA EntryRel ==
    ASSUME DlsInv, NEW e \in dls_out
    PROVE  \E j \in External : /\ e = Entry(j) /\ e.ind = j - 1 /\ e.name = dls_file.symbols[j].name
                               /\ e.rel = dls_get_rel_sym(dls_get_shdr_by_name(".dynsym") - 1, e.ind)
<1>1. PICK j \in External : e = Entry(j)
  BY DEF DlsInv
<1> QED
  BY <1>1 DEF Entry

(* The relocation that dls_get_external_syms finds for an external symbol  *)
(* is the first one of that symbol, although it reads every section half   *)
(* its size too far; one that has none gets NULL or what lies behind.      *)
THEOREM DlsRelocationsRight == DlsSpec => []DlsRelocations
<1>1. DlsInv => DlsRelocations
  <2> SUFFICES ASSUME DlsInv, LaidOut, NEW e \in dls_out
               PROVE  IF RelocationsOf(e.ind) # {} THEN e.rel = Min(RelocationsOf(e.ind))
                      ELSE e.rel = NULL \/ \A m \in DlsRelSections :
                               e.rel >= dls_file.sections[m].off + dls_file.sections[m].size
    BY DEF DlsRelocations
  <2>1. e.rel = dls_get_rel_sym(dls_get_shdr_by_name(".dynsym") - 1, e.ind)
    BY EntryRel
  <2> QED
    BY <2>1, EntryRight
<1> QED
  BY <1>1, DlsInvariant, PTL

(* The line before, or at, line n that gave lib its value.                 *)
LEMMA PathFrom ==
    ASSUME dls_maps \in Maps, NEW n \in DOMAIN dls_maps, PathAt(n) # NULL
    PROVE  \E j \in DOMAIN dls_maps : j <= n /\ dls_maps[j].path = PathAt(n) /\ dls_maps[j].path # NULL
<1> DEFINE named == {j \in 1 .. n : dls_maps[j].path # NULL}
<1>1. DOMAIN dls_maps = 1 .. Len(dls_maps) /\ Len(dls_maps) \in Nat
  BY MapsAssumption
<1>2. named \in SUBSET Nat /\ n \in Nat /\ \A j \in named : j <= n /\ j \in DOMAIN dls_maps
  BY <1>1
<1>3. named # {} /\ PathAt(n) = dls_maps[Max(named)].path
  BY DEF PathAt
<1>4. Max(named) \in named
  <2> HIDE DEF named
  <2> QED
    BY <1>2, <1>3, NatMax
<1> QED
  BY <1>2, <1>3, <1>4

LEMMA PathOwn ==
    ASSUME dls_maps \in Maps, NEW n \in DOMAIN dls_maps, dls_maps[n].path # NULL
    PROVE  PathAt(n) = dls_maps[n].path
<1> DEFINE named == {j \in 1 .. n : dls_maps[j].path # NULL}
<1>1. DOMAIN dls_maps = 1 .. Len(dls_maps) /\ Len(dls_maps) \in Nat
  BY MapsAssumption
<1>2. named \in SUBSET Nat /\ n \in Nat /\ n \in named /\ \A j \in named : j <= n
  BY <1>1
<1>3. PathAt(n) = dls_maps[Max(named)].path
  BY <1>2 DEF PathAt
<1>4. Max(named) = n
  <2> HIDE DEF named
  <2>1. Max(named) \in named /\ Max(named) >= n
    BY <1>2, NatMax
  <2>2. Max(named) \in Nat /\ Max(named) <= n
    BY <1>2, <2>1
  <2> QED
    BY <1>2, <2>1, <2>2
<1> QED
  BY <1>3, <1>4

LEMMA FoundFirst ==
    ASSUME DlsInv, Found # NULL,
           \A j \in DOMAIN dls_maps : dls_maps[j].path \in SameName => dls_maps[j].path = LibPath,
           NEW first, first = CHOOSE j \in DOMAIN dls_maps : dls_maps[j].path = LibPath /\ dls_maps[j].off = 0
    PROVE  Found = first
<1>1. PICK n \in DOMAIN dls_maps :
          /\ dls_maps[n].path = LibPath /\ dls_maps[n].off = 0
          /\ \A j \in DOMAIN dls_maps : dls_maps[j].path = LibPath => n <= j /\ (dls_maps[j].off = 0 => n = j)
  BY MapsAssumption DEF DlsInv
<1>2. first = n
  BY <1>1
<1>3. n \in Nat /\ Found \in Nat
  BY FoundIn, MapsAssumption DEF DlsInv
<1>4. Found <= n
  <2>1. PathAt(n) = LibPath
    BY <1>1, PathOwn, MapsAssumption DEF DlsInv
  <2>2. n \in MapHits
    BY <1>1, <2>1, MapsAssumption DEF MapHits
  <2> QED
    BY <2>2, FoundIn DEF DlsInv
<1>5. n <= Found
  <2>1. PICK j \in DOMAIN dls_maps : j <= Found /\ dls_maps[j].path = PathAt(Found)
    BY FoundIn, PathFrom DEF DlsInv
  <2>2. n <= j
    BY <1>1, <2>1, FoundIn DEF DlsInv
  <2>3. j \in Nat
    BY MapsAssumption DEF DlsInv
  <2> QED
    BY <1>3, <2>1, <2>2, <2>3
<1> QED
  BY <1>2, <1>3, <1>4, <1>5

LEMMA FirstRelocation ==
    ASSUME DlsInv, NEW ind, RelocationsOf(ind) # {}
    PROVE  Min(RelocationsOf(ind)) \in RelocationsOf(ind)
<1>1. \A m \in DlsRelSections : dls_file.sections[m].off \in Nat /\ dls_file.sections[m].size \in Nat
  BY LibrariesAssumption DEF DlsInv, DlsRelSections
<1>2. RelocationsOf(ind) \in SUBSET Nat
  BY <1>1 DEF RelocationsOf
<1> QED
  BY <1>2, NatMin

(* What main overwrites is the library's own slot for funky at the address *)
(* where dlopen mapped it, although dls_search_dso takes an anonymous      *)
(* mapping for part of the file named before it.                           *)
THEOREM DlsPatchesRight == DlsSpec => []DlsPatchesLibrary
<1>1. DlsInv => DlsPatchesLibrary
  <2> SUFFICES ASSUME DlsInv, dls_pc = "call", LaidOut,
                      \A j \in DOMAIN dls_maps : dls_maps[j].path \in SameName => dls_maps[j].path = LibPath,
                      NEW first,
                      first = CHOOSE j \in DOMAIN dls_maps : dls_maps[j].path = LibPath /\ dls_maps[j].off = 0,
                      NEW funky,
                      funky = {j - 1 : j \in {k \in External : dls_file.symbols[k].name = "funky"}},
                      NEW p \in dls_patched
               PROVE  /\ p[1] = dls_maps[first].start
                      /\ (\A ind \in funky : RelocationsOf(ind) # {}) =>
                             p[2] \in UNION {RelocationsOf(ind) : ind \in funky}
    BY DEF DlsPatchesLibrary
  <2>1. PICK e \in Funky : p = <<dls_vec, e.rel>>
    BY DEF DlsInv
  <2>2. dls_vec = dls_maps[first].start
    BY FoundFirst DEF DlsInv
  <2>3. PICK k \in External : /\ e.ind = k - 1 /\ e.name = dls_file.symbols[k].name
                              /\ e.rel = dls_get_rel_sym(dls_get_shdr_by_name(".dynsym") - 1, e.ind)
    BY EntryRel DEF Funky
  <2>4. e.ind \in funky
    BY <2>3 DEF Funky
  <2>5. RelocationsOf(e.ind) # {} => e.rel \in RelocationsOf(e.ind)
    BY <2>3, EntryRight, FirstRelocation
  <2> QED
    BY <2>1, <2>2, <2>4, <2>5
<1> QED
  BY <1>1, DlsInvariant, PTL

----------------------------------------------------------------------------
(* got_modifier: the phases of the injection                               *)

Tracees(pid) ==
    [traced : BOOLEAN, pending : BOOLEAN, run : {"running", "stopped", "halted"},
     report : BOOLEAN, regs : {"own", "code", "mapped", "lost"},
     text : {"own", "code", "lost"}, slots : [0 .. Len(Exe[pid].words) - 1 -> Int \cup {NotFound}]]

(* The stop signal of PTRACE_ATTACH is on its way, or has stopped it.      *)
Stopping(t) == IF t.pending THEN t.run = "running" ELSE t.run = "stopped"

Free(t) == ~ t.traced /\ ~ t.pending /\ t.run = "running"

(* What tracee and main hold at each step if no request came too early,    *)
(* and if no signal of the tracee's own was taken either.                  *)
OnTime ==
    /\ gm_pc = "GETREGS" => gm_tracee.traced
    /\ gm_pc \in {"PEEK", "POKE", "SETREGS", "CONT", "eax", "unPOKE", "unSETREGS", "DETACH", "undo"} =>
           gm_tracee.traced /\ gm_tracee.run = "stopped"
    /\ gm_pc \in {"PEEK", "POKE", "SETREGS", "CONT", "wait", "eax", "unPOKE", "unSETREGS"} => gm_bck.regs = "own"
    /\ gm_pc \in {"POKE", "SETREGS", "CONT", "wait", "eax", "unPOKE", "unSETREGS"} => gm_bck.text = "own"
    /\ gm_pc \in {"SETREGS", "CONT", "wait"} => gm_tracee.text = "code"
    /\ gm_pc = "CONT" => gm_tracee.regs = "code"
    /\ gm_pc = "wait" => gm_tracee.traced
    /\ gm_pc = "slot" => gm_tracee.traced
    /\ gm_pc \in {"unSETREGS", "DETACH", "replace", "slot", "undo", "exiting"} => gm_tracee.text = "own"
    /\ gm_pc \in {"DETACH", "replace", "slot", "undo", "exiting"} => gm_tracee.regs = "own"

Calm ==
    /\ gm_pc \in {"GETREGS", "slot"} => Stopping(gm_tracee)
    /\ gm_pc \in {"PEEK", "POKE", "SETREGS", "CONT", "wait", "eax", "unPOKE", "unSETREGS", "DETACH", "undo"} =>
           ~ gm_tracee.pending
    /\ gm_pc = "wait" /\ gm_tracee.run = "stopped" => gm_tracee.regs = "mapped"
    /\ gm_pc = "eax" => gm_tracee.regs = "mapped"
    /\ gm_pc \in {"unPOKE", "unSETREGS", "DETACH", "replace", "slot"} => gm_vaddr = LoadAddr
    /\ gm_pc \in {"replace", "exiting", "exit"} => Free(gm_tracee)

GmPhase ==
    /\ gm_pc \in {"init", "attach"} => Free(gm_tracee)
    /\ gm_pc \in {"init", "attach", "GETREGS", "PEEK", "POKE", "SETREGS"} => gm_tracee.regs = "own"
    /\ gm_pc \in {"init", "attach", "GETREGS", "PEEK", "POKE"} => gm_tracee.text = "own"
    /\ ~ gm_late => OnTime
    /\ ~ gm_late /\ ~ gm_signal => Calm

GmTypes ==
    /\ GmTypeOK
    /\ gm_tracee \in Tracees(gm_pid)
    /\ gm_late \in BOOLEAN /\ gm_signal \in BOOLEAN

LEMMA GmInit1 == GmInit => GmTypes /\ GmPhase
<1> SUFFICES ASSUME GmInit PROVE GmTypes /\ GmPhase
  OBVIOUS
<1>1. gm_tracee \in Tracees(gm_pid)
  BY DEF GmInit, Tracees
<1>2. GmTypes
  BY <1>1 DEF GmInit, GmTypes, GmTypeOK, Tracees
<1>3. GmPhase
  BY DEF GmInit, GmPhase, Free, OnTime, Calm
<1> QED
  BY <1>2, <1>3

LEMMA InitSteps ==
    ASSUME GmTypes, GmPhase, map_parser_init \/ map_parser_init_lib_hooker
    PROVE  (GmTypes /\ GmPhase)'
<1>1. UNCHANGED <<gm_pid, gm_bck, gm_vaddr, gm_tracee, gm_late, gm_signal>>
  BY DEF map_parser_init, map_parser_init_lib_hooker
<1>2. gm_pc = "init" /\ gm_pc' \in {"init", "exit", "attach", "undefined"}
  BY DEF map_parser_init, map_parser_init_lib_hooker, GoTo
<1>3. GmTypes'
  BY <1>1, <1>2 DEF GmTypes, GmTypeOK, Tracees
<1>4. GmPhase'
  BY <1>1, <1>2 DEF GmPhase, Free, OnTime, Calm
<1> QED
  BY <1>3, <1>4

LEMMA AttachSteps ==
    ASSUME GmTypes, GmPhase, NEW from, NEW done, NEW failed, Attach(from, done, failed),
           \/ from = "attach" /\ done = "GETREGS" /\ failed = "exit"
           \/ from = "replace" /\ done = "slot" /\ failed = "exiting"
    PROVE  (GmTypes /\ GmPhase)' /\ gm_tracee'.slots = gm_tracee.slots
<1> DEFINE t == gm_tracee
<1>1. UNCHANGED <<gm_pid, gm_bck, gm_vaddr, gm_late, gm_signal>> /\ gm_pc = from
  BY DEF Attach, tracer
<1>2. CASE gm_pc' = failed /\ UNCHANGED gm_tracee
  <2>1. GmTypes'
    BY <1>1, <1>2 DEF GmTypes, GmTypeOK, Tracees
  <2>2. GmPhase'
    BY <1>1, <1>2 DEF GmPhase, Free, OnTime, Calm
  <2> QED
    BY <1>2, <2>1, <2>2
<1>3. CASE /\ ~ t.traced /\ gm_pc' = done
           /\ gm_tracee' = [gm_tracee EXCEPT !.traced = TRUE, !.pending = TRUE,
                                             !.run = IF @ = "halted" THEN "stopped" ELSE @,
                                             !.report = gm_tracee.run = "halted"]
  <2>1. t \in Tracees(gm_pid)
    BY DEF GmTypes
  <2>2. t' \in Tracees(gm_pid)
    BY <1>3, <2>1 DEF Tracees
  <2>3. /\ t'.traced /\ t'.pending /\ t'.regs = t.regs /\ t'.text = t.text /\ t'.slots = t.slots
        /\ t'.run = (IF t.run = "halted" THEN "stopped" ELSE t.run) /\ (t'.report <=> t.run = "halted")
    BY <1>3, <2>1 DEF Tracees
  <2>4. t.run = "stopped" => t.traced
    BY DEF GmTypes, GmTypeOK
  <2> HIDE DEF t
  <2>5. GmTypes'
    BY <1>1, <1>3, <2>1, <2>2, <2>3, <2>4 DEF GmTypes, GmTypeOK, Tracees, t
  <2>6. GmPhase'
    BY <1>1, <1>3, <2>1, <2>2, <2>3, <2>4 DEF GmPhase, Free, OnTime, Calm, Stopping, GmTypes, Tracees, t
  <2> QED
    BY <2>3, <2>5, <2>6 DEF t
<1> QED
  BY <1>2, <1>3 DEF Attach, GoTo

(* A request that comes too early changes nothing and is remembered.       *)
LEMMA TooEarly ==
    ASSUME GmTypes, GmPhase, NEW pc, gm_pc' = pc, gm_late' = TRUE,
           UNCHANGED <<gm_tracee, gm_signal, gm_pid>>,
           \/ gm_pc = "GETREGS" /\ pc = "PEEK"
           \/ gm_pc = "PEEK" /\ pc = "POKE"
           \/ gm_pc = "POKE" /\ pc = "SETREGS"
           \/ pc \in {"CONT", "wait", "unPOKE", "unSETREGS", "DETACH", "replace", "undo", "exiting"},
           gm_bck' \in [regs : {"own", "lost"}, text : {"own", "lost"}], gm_vaddr' \in {LoadAddr, NotFound}
    PROVE  (GmTypes /\ GmPhase)'
<1>1. GmTypes'
  BY DEF GmTypes, GmTypeOK, Tracees
<1>2. GmPhase'
  BY DEF GmPhase
<1> QED
  BY <1>1, <1>2

(* A request changes at most text and registers, when it is not too early. *)
LEMMA GetregsStep == ASSUME GmTypes, GmPhase, GETREGS PROVE (GmTypes /\ GmPhase)' /\ gm_tracee'.slots = gm_tracee.slots
<1>1. /\ gm_pc = "GETREGS" /\ gm_pc' = "PEEK" /\ UNCHANGED <<gm_signal, gm_pid, gm_vaddr, gm_tracee>>
      /\ gm_bck' = [gm_bck EXCEPT !.regs = IF Stopped THEN gm_tracee.regs ELSE "lost"]
  BY DEF GETREGS, Request, GoTo
<1>2. gm_bck \in [regs : {"own", "lost"}, text : {"own", "lost"}] /\ gm_tracee.regs = "own"
  BY <1>1 DEF GmTypes, GmTypeOK, GmPhase
<1>3. /\ gm_bck' \in [regs : {"own", "lost"}, text : {"own", "lost"}]
      /\ Stopped => gm_bck'.regs = "own"
  BY <1>1, <1>2
<1>4. CASE ~ Stopped
  BY <1>1, <1>3, <1>4, TooEarly DEF GETREGS, Request, Stopped, GmTypes, GmTypeOK
<1>5. CASE Stopped
  <2>1. gm_late' = gm_late
    BY <1>5 DEF GETREGS, Request, Stopped
  <2>2. GmTypes'
    BY <1>1, <1>3, <2>1 DEF GmTypes, GmTypeOK, Tracees
  <2>3. GmPhase'
    BY <1>1, <1>3, <1>5, <2>1 DEF GmPhase, Free, OnTime, Calm, Stopping, Stopped
  <2> QED
    BY <1>1, <2>2, <2>3
<1> QED
  BY <1>4, <1>5

LEMMA PeekStep ==
    ASSUME GmTypes, GmPhase, process_injector_read_at
    PROVE  (GmTypes /\ GmPhase)' /\ gm_tracee'.slots = gm_tracee.slots
<1>1. /\ gm_pc = "PEEK" /\ gm_pc' = "POKE" /\ UNCHANGED <<gm_signal, gm_pid, gm_vaddr, gm_tracee>>
      /\ gm_bck' = [gm_bck EXCEPT !.text = IF Stopped THEN gm_tracee.text ELSE "lost"]
  BY DEF process_injector_read_at, Request, GoTo
<1>2. gm_bck \in [regs : {"own", "lost"}, text : {"own", "lost"}] /\ gm_tracee.text = "own"
  BY <1>1 DEF GmTypes, GmTypeOK, GmPhase
<1>3. /\ gm_bck' \in [regs : {"own", "lost"}, text : {"own", "lost"}] /\ gm_bck'.regs = gm_bck.regs
      /\ Stopped => gm_bck'.text = "own"
  BY <1>1, <1>2
<1>4. CASE ~ Stopped
  BY <1>1, <1>3, <1>4, TooEarly DEF process_injector_read_at, Request, Stopped, GmTypes, GmTypeOK
<1>5. CASE Stopped
  <2>1. gm_late' = gm_late
    BY <1>5 DEF process_injector_read_at, Request, Stopped
  <2>2. GmTypes'
    BY <1>1, <1>3, <2>1 DEF GmTypes, GmTypeOK, Tracees
  <2>3. GmPhase'
    BY <1>1, <1>3, <1>5, <2>1 DEF GmPhase, Free, OnTime, Calm, Stopping, Stopped
  <2> QED
    BY <1>1, <2>2, <2>3
<1> QED
  BY <1>4, <1>5

LEMMA EaxStep ==
    ASSUME GmTypes, GmPhase, GETREGS_eax
    PROVE  (GmTypes /\ GmPhase)' /\ gm_tracee'.slots = gm_tracee.slots
<1>1. /\ gm_pc = "eax" /\ gm_pc' = "unPOKE" /\ UNCHANGED <<gm_signal, gm_pid, gm_bck, gm_tracee>>
      /\ gm_vaddr' = IF gm_tracee.regs = "mapped" THEN LoadAddr ELSE NotFound
  BY DEF GETREGS_eax, Request, GoTo
<1>2. CASE ~ Stopped
  BY <1>1, <1>2, TooEarly DEF GETREGS_eax, Request, Stopped, GmTypes, GmTypeOK
<1>3. CASE Stopped
  <2>1. gm_late' = gm_late
    BY <1>3 DEF GETREGS_eax, Request, Stopped
  <2>2. GmTypes'
    BY <1>1, <2>1 DEF GmTypes, GmTypeOK, Tracees
  <2>3. GmPhase'
    BY <1>1, <1>3, <2>1 DEF GmPhase, Free, OnTime, Calm, Stopping, Stopped
  <2> QED
    BY <1>1, <2>2, <2>3
<1> QED
  BY <1>2, <1>3

(* Those that write text or registers, or let the tracee go on.            *)
LEMMA PokeSteps ==
    ASSUME GmTypes, GmPhase, NEW from, NEW done, NEW x,
           Request(from, done, [gm_tracee EXCEPT !.text = x]), UNCHANGED tracer,
           \/ from = "POKE" /\ done = "SETREGS" /\ x = "code"
           \/ from = "unPOKE" /\ done = "unSETREGS" /\ x = gm_bck.text
    PROVE  (GmTypes /\ GmPhase)' /\ gm_tracee'.slots = gm_tracee.slots
<1>1. gm_pc = from /\ gm_pc' = done /\ UNCHANGED <<gm_signal, gm_pid, gm_vaddr, gm_bck>>
  BY DEF Request, GoTo, tracer
<1>2. CASE ~ Stopped
  BY <1>1, <1>2, TooEarly DEF Request, Stopped, GmTypes, GmTypeOK
<1>3. CASE Stopped
  <2>1. gm_late' = gm_late /\ gm_tracee' = [gm_tracee EXCEPT !.text = x]
    BY <1>3 DEF Request, Stopped
  <2>2. gm_tracee \in Tracees(gm_pid) /\ x \in {"own", "code", "lost"}
    BY DEF GmTypes, GmTypeOK
  <2>3. gm_tracee' \in Tracees(gm_pid)
    BY <2>1, <2>2 DEF Tracees
  <2>4. /\ gm_tracee'.text = x /\ gm_tracee'.regs = gm_tracee.regs /\ gm_tracee'.slots = gm_tracee.slots
        /\ gm_tracee'.run = gm_tracee.run /\ gm_tracee'.traced = gm_tracee.traced
        /\ gm_tracee'.pending = gm_tracee.pending /\ gm_tracee'.report = gm_tracee.report
    BY <2>1, <2>2 DEF Tracees
  <2>5. GmTypes'
    <3>1. gm_pc' \in {"SETREGS", "unSETREGS"}
      BY <1>1
    <3>2. UNCHANGED <<gm_pid, gm_bck, gm_vaddr, gm_late, gm_signal>>
      BY <1>1, <2>1
    <3> QED
      BY <2>3, <2>4, <3>1, <3>2 DEF GmTypes, GmTypeOK, Tracees
  <2>6. GmPhase'
    BY <1>1, <1>3, <2>1, <2>4 DEF GmPhase, Free, OnTime, Calm, Stopping, Stopped, GmTypes, GmTypeOK
  <2> QED
    BY <2>4, <2>5, <2>6
<1> QED
  BY <1>2, <1>3

LEMMA SetregsSteps ==
    ASSUME GmTypes, GmPhase, NEW from, NEW done, NEW x,
           Request(from, done, [gm_tracee EXCEPT !.regs = x]), UNCHANGED tracer,
           \/ from = "SETREGS" /\ done = "CONT" /\ x = IF gm_bck.regs = "own" THEN "code" ELSE "lost"
           \/ from = "unSETREGS" /\ done = "DETACH" /\ x = gm_bck.regs
    PROVE  (GmTypes /\ GmPhase)' /\ gm_tracee'.slots = gm_tracee.slots
<1>1. gm_pc = from /\ gm_pc' = done /\ UNCHANGED <<gm_signal, gm_pid, gm_vaddr, gm_bck>>
  BY DEF Request, GoTo, tracer
<1>2. CASE ~ Stopped
  BY <1>1, <1>2, TooEarly DEF Request, Stopped, GmTypes, GmTypeOK
<1>3. CASE Stopped
  <2>1. gm_late' = gm_late /\ gm_tracee' = [gm_tracee EXCEPT !.regs = x]
    BY <1>3 DEF Request, Stopped
  <2>2. gm_tracee \in Tracees(gm_pid) /\ x \in {"own", "code", "lost"}
    BY DEF GmTypes, GmTypeOK
  <2>3. gm_tracee' \in Tracees(gm_pid)
    BY <2>1, <2>2 DEF Tracees
  <2>4. /\ gm_tracee'.regs = x /\ gm_tracee'.text = gm_tracee.text /\ gm_tracee'.slots = gm_tracee.slots
        /\ gm_tracee'.run = gm_tracee.run /\ gm_tracee'.traced = gm_tracee.traced
        /\ gm_tracee'.pending = gm_tracee.pending /\ gm_tracee'.report = gm_tracee.report
    BY <2>1, <2>2 DEF Tracees
  <2>5. GmTypes'
    <3>1. gm_pc' \in {"CONT", "DETACH"}
      BY <1>1
    <3>2. UNCHANGED <<gm_pid, gm_bck, gm_vaddr, gm_late, gm_signal>>
      BY <1>1, <2>1
    <3> QED
      BY <2>3, <2>4, <3>1, <3>2 DEF GmTypes, GmTypeOK, Tracees
  <2>6. GmPhase'
    BY <1>1, <1>3, <2>1, <2>4 DEF GmPhase, Free, OnTime, Calm, Stopping, Stopped, GmTypes, GmTypeOK
  <2> QED
    BY <2>4, <2>5, <2>6
<1> QED
  BY <1>2, <1>3

LEMMA ContStep == ASSUME GmTypes, GmPhase, CONT PROVE (GmTypes /\ GmPhase)' /\ gm_tracee'.slots = gm_tracee.slots
<1>1. gm_pc = "CONT" /\ gm_pc' = "wait" /\ UNCHANGED <<gm_signal, gm_pid, gm_vaddr, gm_bck>>
  BY DEF CONT, Request, GoTo, tracer
<1>2. CASE ~ Stopped
  BY <1>1, <1>2, TooEarly DEF CONT, Request, Stopped, GmTypes, GmTypeOK
<1>3. CASE Stopped
  <2>1. gm_late' = gm_late /\ gm_tracee' = [gm_tracee EXCEPT !.run = "running", !.report = FALSE]
    BY <1>3 DEF CONT, Request, Stopped
  <2>2. gm_tracee \in Tracees(gm_pid)
    BY DEF GmTypes
  <2>3. gm_tracee' \in Tracees(gm_pid)
    BY <2>1, <2>2 DEF Tracees
  <2>4. /\ gm_tracee'.regs = gm_tracee.regs /\ gm_tracee'.text = gm_tracee.text /\ gm_tracee'.slots = gm_tracee.slots
        /\ gm_tracee'.run = "running" /\ gm_tracee'.traced = gm_tracee.traced
        /\ gm_tracee'.pending = gm_tracee.pending /\ gm_tracee'.report = FALSE
    BY <2>1, <2>2 DEF Tracees
  <2>5. GmTypes'
    BY <1>1, <2>1, <2>3, <2>4 DEF GmTypes, GmTypeOK, Tracees
  <2>6. GmPhase'
    BY <1>1, <1>3, <2>1, <2>4 DEF GmPhase, Free, OnTime, Calm, Stopping, Stopped, GmTypes, GmTypeOK
  <2> QED
    BY <2>4, <2>5, <2>6
<1> QED
  BY <1>2, <1>3

LEMMA WaitStep == ASSUME GmTypes, GmPhase, Wait PROVE (GmTypes /\ GmPhase)' /\ gm_tracee'.slots = gm_tracee.slots
<1>1. /\ gm_pc = "wait" /\ gm_pc' = "eax" /\ gm_tracee.report
      /\ UNCHANGED <<gm_late, gm_signal, gm_pid, gm_vaddr, gm_bck>>
      /\ gm_tracee' = [gm_tracee EXCEPT !.report = FALSE]
  BY DEF Wait, GoTo, tracer
<1>2. gm_tracee \in Tracees(gm_pid) /\ gm_tracee.run = "stopped"
  BY <1>1 DEF GmTypes, GmTypeOK
<1>3. gm_tracee' \in Tracees(gm_pid)
  BY <1>1, <1>2 DEF Tracees
<1>4. /\ gm_tracee'.regs = gm_tracee.regs /\ gm_tracee'.text = gm_tracee.text /\ gm_tracee'.slots = gm_tracee.slots
      /\ gm_tracee'.run = gm_tracee.run /\ gm_tracee'.traced = gm_tracee.traced
      /\ gm_tracee'.pending = gm_tracee.pending /\ gm_tracee'.report = FALSE
  BY <1>1, <1>2 DEF Tracees
<1>5. GmTypes'
  BY <1>1, <1>3, <1>4 DEF GmTypes, GmTypeOK, Tracees
<1>6. GmPhase'
  BY <1>1, <1>2, <1>4 DEF GmPhase, Free, OnTime, Calm, Stopping, Stopped, GmTypes, GmTypeOK
<1> QED
  BY <1>4, <1>5, <1>6

LEMMA LetGoFields ==
    ASSUME GmTypes, NEW t, t = LetGo(gm_tracee)
    PROVE  /\ t \in Tracees(gm_pid)
           /\ ~ t.traced /\ ~ t.pending /\ ~ t.report
           /\ t.regs = gm_tracee.regs /\ t.text = gm_tracee.text /\ t.slots = gm_tracee.slots
           /\ t.run = IF gm_tracee.pending THEN "halted" ELSE "running"
BY DEF LetGo, GmTypes, Tracees

LEMMA DetachSteps ==
    ASSUME GmTypes, GmPhase, NEW from, NEW done, Detach(from, done),
           \/ from = "DETACH" /\ done = "replace"
           \/ from = "undo" /\ done = "exiting"
    PROVE  (GmTypes /\ GmPhase)' /\ gm_tracee'.slots = gm_tracee.slots
<1>1. gm_pc = from /\ gm_pc' = done /\ UNCHANGED <<gm_signal, gm_pid, gm_vaddr, gm_bck>>
  BY DEF Detach, Request, GoTo, tracer
<1>2. CASE ~ Stopped
  BY <1>1, <1>2, TooEarly DEF Detach, Request, Stopped, GmTypes, GmTypeOK
<1>3. CASE Stopped
  <2>1. gm_late' = gm_late /\ gm_tracee' = LetGo(gm_tracee)
    BY <1>3 DEF Detach, Request, Stopped
  <2>2. /\ gm_tracee' \in Tracees(gm_pid)
        /\ ~ gm_tracee'.traced /\ ~ gm_tracee'.pending /\ ~ gm_tracee'.report
        /\ gm_tracee'.regs = gm_tracee.regs /\ gm_tracee'.text = gm_tracee.text /\ gm_tracee'.slots = gm_tracee.slots
        /\ gm_tracee'.run = IF gm_tracee.pending THEN "halted" ELSE "running"
    BY <2>1, LetGoFields
  <2>3. GmTypes'
    BY <1>1, <2>1, <2>2 DEF GmTypes, GmTypeOK, Tracees
  <2>4. GmPhase'
    BY <1>1, <1>3, <2>1, <2>2 DEF GmPhase, Free, OnTime, Calm, Stopping, Stopped
  <2> QED
    BY <2>2, <2>3, <2>4
<1> QED
  BY <1>2, <1>3

LEMMA GmExitStep ==
    ASSUME GmTypes, GmPhase, map_parser_exit
    PROVE  (GmTypes /\ GmPhase)' /\ gm_tracee'.slots = gm_tracee.slots
<1>1. /\ gm_pc = "exiting" /\ gm_pc' = "exit" /\ UNCHANGED <<gm_late, gm_signal, gm_pid, gm_vaddr, gm_bck>>
      /\ gm_tracee' = IF gm_tracee.traced THEN LetGo(gm_tracee) ELSE gm_tracee
  BY DEF map_parser_exit, GoTo, tracer
<1>2. CASE gm_tracee' = gm_tracee
  <2>1. GmTypes'
    BY <1>1, <1>2 DEF GmTypes, GmTypeOK, Tracees
  <2>2. GmPhase'
    BY <1>1, <1>2 DEF GmPhase, Free, OnTime, Calm
  <2> QED
    BY <1>2, <2>1, <2>2
<1>3. CASE gm_tracee.traced /\ gm_tracee' = LetGo(gm_tracee)
  <2>1. /\ gm_tracee' \in Tracees(gm_pid)
        /\ ~ gm_tracee'.traced /\ ~ gm_tracee'.pending /\ ~ gm_tracee'.report
        /\ gm_tracee'.slots = gm_tracee.slots
        /\ gm_tracee'.run = IF gm_tracee.pending THEN "halted" ELSE "running"
    BY <1>3, LetGoFields
  <2>2. GmTypes'
    BY <1>1, <2>1 DEF GmTypes, GmTypeOK, Tracees
  <2>3. GmPhase'
    BY <1>1, <1>3, <2>1 DEF GmPhase, Free, OnTime, Calm
  <2> QED
    BY <2>1, <2>2, <2>3
<1> QED
  BY <1>1, <1>2, <1>3

(* The tracee's own steps.                                                 *)
LEMMA TraceeSteps ==
    ASSUME GmTypes, GmPhase, StopSignal \/ OwnSignal \/ RunCode
    PROVE  (GmTypes /\ GmPhase)' /\ gm_tracee'.slots = gm_tracee.slots
<1>1. /\ UNCHANGED <<gm_pc, gm_late, gm_pid, gm_vaddr, gm_bck>>
      /\ gm_tracee.run = "running" /\ gm_tracee.traced
  BY DEF StopSignal, OwnSignal, RunCode, StopsAgain, tracer
<1>2. gm_tracee \in Tracees(gm_pid)
  BY DEF GmTypes
<1>3. CASE StopSignal \/ OwnSignal
  <2>1. PICK b \in BOOLEAN : gm_tracee' = [gm_tracee EXCEPT !.pending = b, !.run = "stopped", !.report = TRUE]
             /\ (~ gm_signal' => ~ b /\ ~ gm_signal /\ gm_tracee.pending) /\ gm_signal' \in BOOLEAN
    BY <1>2, <1>3 DEF StopSignal, OwnSignal, StopsAgain, Tracees, GmTypes
  <2>2. gm_tracee' \in Tracees(gm_pid)
    BY <1>2, <2>1 DEF Tracees
  <2>3. /\ gm_tracee'.regs = gm_tracee.regs /\ gm_tracee'.text = gm_tracee.text /\ gm_tracee'.slots = gm_tracee.slots
        /\ gm_tracee'.run = "stopped" /\ gm_tracee'.traced /\ gm_tracee'.pending = b /\ gm_tracee'.report
    BY <1>1, <1>2, <2>1 DEF Tracees
  <2>4. GmTypes'
    BY <1>1, <2>1, <2>2, <2>3 DEF GmTypes, GmTypeOK, Tracees
  <2>5. GmPhase'
    BY <1>1, <2>1, <2>3 DEF GmPhase, Free, OnTime, Calm, Stopping
  <2> QED
    BY <2>3, <2>4, <2>5
<1>4. CASE RunCode
  <2>1. /\ gm_tracee' = [gm_tracee EXCEPT !.regs = "mapped", !.run = "stopped", !.report = TRUE]
        /\ gm_tracee.regs = "code" /\ gm_tracee.text = "code" /\ gm_signal' = gm_signal
    BY <1>4 DEF RunCode
  <2>2. gm_tracee' \in Tracees(gm_pid)
    BY <1>2, <2>1 DEF Tracees
  <2>3. /\ gm_tracee'.regs = "mapped" /\ gm_tracee'.text = "code" /\ gm_tracee'.slots = gm_tracee.slots
        /\ gm_tracee'.run = "stopped" /\ gm_tracee'.traced /\ gm_tracee'.pending = gm_tracee.pending
    BY <1>1, <1>2, <2>1 DEF Tracees
  <2>4. GmTypes'
    BY <1>1, <2>1, <2>2, <2>3 DEF GmTypes, GmTypeOK, Tracees
  <2>5. GmPhase'
    BY <1>1, <2>1, <2>3 DEF GmPhase, Free, OnTime, Calm, Stopping
  <2> QED
    BY <2>3, <2>4, <2>5
<1> QED
  BY <1>3, <1>4

----------------------------------------------------------------------------
(* got_modifier: the tables, and what is patched                           *)

LEMMA InfoTable ==
    ASSUME NEW o, IsObject(o), NEW info, info = lop_init_info(o), info # NotFound
    PROVE  \E n \in Nat :
               /\ n <= Len(o.symbols) /\ (Len(o.symbols) <= LOP_MAX_DYNSYM => n = Len(o.symbols))
               /\ DOMAIN info.plt = 1 .. n
               /\ \A j \in 1 .. n :
                      /\ info.plt[j].sym = j /\ info.plt[j].symname = o.symbols[j].name
                      /\ info.plt[j].rel =
                            lop_find_rel_by_sym(o, lop_get_section_by_type(o, "DYNSYM") - 1, j - 1)
<1> DEFINE dyn == lop_get_section_by_type(o, "DYNSYM")
           n == Min({Len(o.symbols), LOP_MAX_DYNSYM})
<1>1. info.plt = lop_read_dynsym_section(o) /\ lop_read_dynsym_section(o) # <<>>
  BY DEF lop_init_info
<1>2. dyn # NotFound
  BY <1>1 DEF lop_read_dynsym_section
<1>3. info.plt = [j \in 1 .. n |->
                    [sym |-> j, symname |-> o.symbols[j].name, rel |-> lop_find_rel_by_sym(o, dyn - 1, j - 1)]]
  BY <1>1, <1>2 DEF lop_read_dynsym_section, lop_build_plt_table
<1>4. n \in Nat /\ n <= Len(o.symbols) /\ (Len(o.symbols) <= LOP_MAX_DYNSYM => n = Len(o.symbols))
  <2>1. {Len(o.symbols), LOP_MAX_DYNSYM} \in SUBSET Nat /\ {Len(o.symbols), LOP_MAX_DYNSYM} # {}
    BY ObjectsAssumption DEF IsObject
  <2>2. n \in {Len(o.symbols), LOP_MAX_DYNSYM} /\ \A y \in {Len(o.symbols), LOP_MAX_DYNSYM} : n <= y
    BY <2>1, NatMin
  <2> HIDE DEF n
  <2> QED
    BY <2>1, <2>2
<1> HIDE DEF n
<1> QED
  BY <1>3, <1>4

LEMMA RelRight ==
    ASSUME NEW o, IsObject(o), Regular(o), NEW ind, NEW rel,
           rel = lop_find_rel_by_sym(o, lop_get_section_by_type(o, "DYNSYM") - 1, ind)
    PROVE  /\ LopRelocations(o, ind) # {} => rel = Min(LopRelocations(o, ind))
           /\ LopRelocations(o, ind) = {} =>
                  rel = NotFound \/ \A m \in LopRelSections(o) : rel >= o.sections[m].off + o.sections[m].size
<1> DEFINE secs == o.sections
           I == LopRelSections(o)
           off == [m \in I |-> secs[m].off]
           size == [m \in I |-> secs[m].size]
           reach == [m \in I |-> lop_numrel(o, m)]
           Words == {k \in Nat : LopWord(o, k) = ind}
           hit == HitIn(I, off, reach, Words)
<1>1. /\ I \in SUBSET Nat /\ I \in SUBSET DOMAIN secs
      /\ \A m \in I : secs[m].off \in Nat /\ secs[m].size \in Nat
  BY DEF IsObject, LopRelSections
<1>2. \A m \in I : lop_numrel(o, m) \in Nat /\ secs[m].size <= lop_numrel(o, m)
  BY <1>1 DEF lop_numrel, Regular, WithinReach
<1>3. off \in [I -> Nat] /\ size \in [I -> Nat] /\ reach \in [I -> Nat] /\ \A m \in I : size[m] <= reach[m]
  BY <1>1, <1>2
<1>4. Consecutive(I, off, size)
  BY <1>1 DEF Regular, LopLaidOut, Consecutive
<1>5. \A m \in I : Within(off[m], reach[m], Words) = LopHits(o, m, ind)
  BY <1>1, <1>2 DEF Within, LopHits
<1>6. \A m \in I : Within(off[m], size[m], Words)
                   = {k \in secs[m].off .. secs[m].off + secs[m].size - 1 : LopWord(o, k) = ind}
  BY <1>1 DEF Within
<1>7. LopRelocations(o, ind) = OwnUnits(I, off, size, Words)
  <2> HIDE DEF I, off, size, Words
  <2> QED
    BY <1>6 DEF LopRelocations, OwnUnits, I, secs
<1>8. hit = {m \in DOMAIN secs : /\ secs[m].type = "REL" /\ secs[m].link = lop_get_section_by_type(o, "DYNSYM") - 1
                                  /\ LopHits(o, m, ind) # {}}
  BY <1>5 DEF HitIn, LopRelSections
<1>9. /\ hit = {} => rel = NotFound
      /\ hit # {} => Min(hit) \in I /\ rel = Min(Within(off[Min(hit)], reach[Min(hit)], Words))
  <2>1. hit # {} => Min(hit) \in I /\ Min(hit) \in Nat
    <3>1. hit \in SUBSET I
      BY DEF HitIn
    <3>2. hit \in SUBSET Nat
      BY <1>1, <3>1
    <3> HIDE DEF hit, I
    <3> QED
      BY <3>1, <3>2, NatMin
  <2>2. rel = IF FirstOf(hit) = NotFound THEN NotFound ELSE Min(LopHits(o, FirstOf(hit), ind))
    BY <1>8 DEF lop_find_rel_by_sym
  <2>3. hit # {} => Min(hit) # NotFound
    BY <2>1, ObjectsAssumption
  <2> HIDE DEF hit, I, off, reach, Words, secs
  <2> QED
    BY <1>5, <2>1, <2>2, <2>3 DEF FirstOf
<1> HIDE DEF hit, I, off, reach, size, Words
<1>10. CASE hit = {}
  <2>1. \A m \in I : Within(off[m], reach[m], Words) = {}
    BY <1>10 DEF hit, HitIn
  <2>2. \A m \in I : Within(off[m], size[m], Words) = {}
    <3> SUFFICES ASSUME NEW m \in I, NEW k \in Within(off[m], size[m], Words) PROVE FALSE
      OBVIOUS
    <3>1. off[m] \in Nat /\ size[m] \in Nat /\ reach[m] \in Nat /\ size[m] <= reach[m]
      BY <1>3
    <3>2. k \in Within(off[m], reach[m], Words)
      BY <3>1 DEF Within
    <3> QED
      BY <2>1, <3>2
  <2>3. LopRelocations(o, ind) = {}
    BY <1>7, <2>2 DEF OwnUnits
  <2> QED
    BY <1>9, <1>10, <2>3
<1>11. CASE hit # {}
  <2> DEFINE f == Min(hit)
  <2>1. rel = Min(Within(off[f], reach[f], Words))
    BY <1>9, <1>11
  <2>2. /\ OwnUnits(I, off, size, Words) # {} => rel = Min(OwnUnits(I, off, size, Words))
        /\ OwnUnits(I, off, size, Words) = {} => \A m \in I : rel >= off[m] + size[m]
    <3>1. hit = HitIn(I, off, reach, Words)
      BY DEF hit
    <3> HIDE DEF f
    <3> QED
      BY <1>1, <1>3, <1>4, <1>11, <2>1, <3>1, FirstHit DEF f
  <2>3. \A m \in I : off[m] = secs[m].off /\ size[m] = secs[m].size
    BY DEF off, size
  <2> QED
    BY <1>7, <2>2, <2>3 DEF I, secs
<1> QED
  BY <1>10, <1>11

LEMMA InfoRight == ASSUME NEW o, IsObject(o), lop_init_info(o) # NotFound PROVE TableRight(o, lop_init_info(o))
<1> DEFINE info == lop_init_info(o)
<1>1. PICK n \in Nat :
          /\ DOMAIN info.plt = 1 .. n
          /\ \A j \in 1 .. n :
                 info.plt[j].rel = lop_find_rel_by_sym(o, lop_get_section_by_type(o, "DYNSYM") - 1, j - 1)
  BY InfoTable
<1> HIDE DEF info
<1>2. TableRight(o, info)
  BY <1>1, RelRight DEF TableRight
<1> QED
  BY <1>2 DEF info

GmTables ==
    /\ gm_td # NotFound => gm_td = lop_init_info(Exe[gm_pid % PidWidth]) /\ gm_pid % PidWidth \in Pids
    /\ gm_lib # NotFound => gm_lib = lop_init_info(Lib)
    /\ gm_pc \in {"init", "exit", "undefined"} \/ (gm_td # NotFound /\ gm_lib # NotFound)
    /\ gm_pc = "slot" => sym1 # NotFound /\ sym2 # NotFound

(* The address of the last evilprint, as patched.                          *)
evilprint == LoadAddr + Lib.symbols[gm_lib.plt[sym2].sym].value

(* What was overwritten: the slot for printf, and nothing before.          *)
Patched(slots) ==
    \A k \in DOMAIN slots :
        slots[k] # 0 =>
            /\ gm_pc \in {"undo", "exiting", "exit"} /\ gm_td # NotFound /\ gm_lib # NotFound
            /\ sym1 # NotFound /\ sym2 # NotFound /\ k = sym1
            /\ ~ gm_late /\ ~ gm_signal => slots[k] = evilprint
GmSlots == Patched(gm_tracee.slots)

GmInv == GmTypes /\ GmPhase /\ GmTables /\ GmSlots

(* Steps that leave the tables and the slots alone.                        *)
LEMMA TablesStay ==
    ASSUME GmTypes, GmTables, GmSlots, UNCHANGED <<gm_pid, gm_td, gm_lib>>, gm_tracee'.slots = gm_tracee.slots,
           gm_late => gm_late', gm_signal => gm_signal',
           gm_pc' \in {"init", "exit", "undefined"} \/ gm_pc \notin {"init", "exit", "undefined"},
           gm_pc' = "slot" => gm_pc = "slot" \/ (sym1 # NotFound /\ sym2 # NotFound),
           gm_pc \in {"undo", "exiting", "exit"} => gm_pc' \in {"undo", "exiting", "exit"}
    PROVE  (GmTables /\ GmSlots)'
<1>1. sym1' = sym1 /\ sym2' = sym2 /\ evilprint' = evilprint
  BY DEF sym1, sym2, evilprint
<1>2. GmTables'
  BY <1>1 DEF GmTables
<1>3. GmSlots'
  BY <1>1 DEF GmSlots, Patched
<1> QED
  BY <1>2, <1>3

(* The last evilprint in the library's table.                              *)
LEMMA EvilLast ==
    ASSUME GmTables, gm_lib # NotFound, sym2 # NotFound
    PROVE  /\ sym2 \in DOMAIN Lib.symbols /\ gm_lib.plt[sym2].sym = sym2 /\ evilprint \in Int
           /\ Len(Lib.symbols) <= LOP_MAX_DYNSYM =>
                  sym2 = Max({j \in DOMAIN Lib.symbols : Lib.symbols[j].name = "evilprint"})
<1> DEFINE named == Named(gm_lib, "evilprint")
<1>1. gm_lib = lop_init_info(Lib) /\ IsObject(Lib)
  BY ObjectsAssumption DEF GmTables
<1>2. PICK n \in Nat :
          /\ n <= Len(Lib.symbols) /\ (Len(Lib.symbols) <= LOP_MAX_DYNSYM => n = Len(Lib.symbols))
          /\ DOMAIN gm_lib.plt = 1 .. n
          /\ \A j \in 1 .. n : gm_lib.plt[j].sym = j /\ gm_lib.plt[j].symname = Lib.symbols[j].name
  BY <1>1, InfoTable
<1>3. DOMAIN Lib.symbols = 1 .. Len(Lib.symbols) /\ Len(Lib.symbols) \in Nat
  BY <1>1 DEF IsObject
<1>4. named \in SUBSET Nat /\ (\A j \in named : j <= n /\ j \in 1 .. n /\ j \in DOMAIN Lib.symbols)
  BY <1>2, <1>3 DEF Named
<1>5. named # {} /\ sym2 = Max(named)
  BY DEF sym2, LastOf
<1>6. sym2 \in named
  <2> HIDE DEF named
  <2> QED
    BY <1>2, <1>4, <1>5, NatMax
<1>7. sym2 \in DOMAIN Lib.symbols /\ gm_lib.plt[sym2].sym = sym2
  BY <1>2, <1>4, <1>6
<1>8. evilprint \in Int
  BY <1>1, <1>7, ObjectsAssumption DEF evilprint, IsObject
<1>9. ASSUME Len(Lib.symbols) <= LOP_MAX_DYNSYM
      PROVE  named = {j \in DOMAIN Lib.symbols : Lib.symbols[j].name = "evilprint"}
  BY <1>2, <1>3, <1>9 DEF Named
<1> QED
  BY <1>5, <1>7, <1>8, <1>9

LEMMA ReplaceStep == ASSUME GmInv, replace PROVE GmInv'
<1> DEFINE new == [k \in DOMAIN gm_tracee.slots |-> IF k = sym1 THEN new_val ELSE gm_tracee.slots[k]]
<1>1. gm_pc = "slot" /\ gm_pc' = "undo" /\ UNCHANGED <<gm_signal, gm_pid, gm_td, gm_lib, gm_vaddr, gm_bck>>
  BY DEF replace, Request, GoTo, tracer
<1>2. GmTypes /\ GmPhase /\ GmTables /\ GmSlots /\ gm_late \in BOOLEAN
  BY DEF GmInv, GmTypes
<1>3. CASE ~ Stopped
  <2>1. gm_late' = TRUE /\ UNCHANGED gm_tracee
    BY <1>3 DEF replace, Request, Stopped
  <2>2. (GmTypes /\ GmPhase)'
    BY <1>1, <1>2, <2>1, TooEarly DEF GmTypes, GmTypeOK
  <2>3. (GmTables /\ GmSlots)'
    BY <1>1, <1>2, <2>1, TablesStay
  <2> QED
    BY <2>2, <2>3 DEF GmInv
<1>4. CASE Stopped
  <2>1. gm_late' = gm_late /\ gm_tracee' = [gm_tracee EXCEPT !.slots = new]
    BY <1>4 DEF replace, Request, Stopped
  <2>2. gm_lib # NotFound /\ gm_td # NotFound /\ sym1 # NotFound /\ sym2 # NotFound
    BY <1>1, <1>2 DEF GmTables
  <2>3. new_val \in Int \cup {NotFound} /\ (gm_vaddr = LoadAddr => new_val = evilprint)
    <3>1. LoadAddr # NotFound
      BY ObjectsAssumption
    <3>2. gm_vaddr = LoadAddr => new_val = evilprint
      BY <3>1 DEF new_val, evilprint
    <3>3. gm_vaddr = NotFound => new_val = NotFound
      BY DEF new_val
    <3> QED
      BY <1>2, <2>2, <3>2, <3>3, EvilLast DEF GmTypes, GmTypeOK
  <2>4. gm_tracee \in Tracees(gm_pid)
    BY <1>2 DEF GmTypes
  <2>5. new \in [0 .. Len(Exe[gm_pid].words) - 1 -> Int \cup {NotFound}]
    <3>1. gm_tracee.slots \in [0 .. Len(Exe[gm_pid].words) - 1 -> Int \cup {NotFound}]
      BY <2>4 DEF Tracees
    <3> QED
      BY <2>3, <3>1
  <2> HIDE DEF new
  <2>6. gm_tracee' \in Tracees(gm_pid)
    BY <2>1, <2>4, <2>5 DEF Tracees
  <2>7. /\ gm_tracee'.regs = gm_tracee.regs /\ gm_tracee'.text = gm_tracee.text /\ gm_tracee'.slots = new
        /\ gm_tracee'.run = gm_tracee.run /\ gm_tracee'.traced = gm_tracee.traced
        /\ gm_tracee'.pending = gm_tracee.pending /\ gm_tracee'.report = gm_tracee.report
    BY <2>1, <2>4 DEF Tracees
  <2>8. GmTypes'
    BY <1>1, <1>2, <2>1, <2>6, <2>7 DEF GmTypes, GmTypeOK, Tracees
  <2>9. GmPhase'
    BY <1>1, <1>2, <1>4, <2>1, <2>7 DEF GmPhase, Free, OnTime, Calm, Stopping, Stopped
  <2>10. sym1' = sym1 /\ sym2' = sym2 /\ evilprint' = evilprint
    BY <1>1 DEF sym1, sym2, evilprint
  <2>11. GmTables'
    BY <1>1, <1>2, <2>10 DEF GmTables
  <2>12. GmSlots'
    <3> SUFFICES ASSUME NEW k \in DOMAIN new, new[k] # 0
                 PROVE  /\ k = sym1
                        /\ ~ gm_late /\ ~ gm_signal => new[k] = evilprint
      BY <1>1, <2>1, <2>2, <2>7, <2>10 DEF GmSlots, Patched
    <3>1. k \in DOMAIN gm_tracee.slots
      BY DEF new
    <3>2. gm_tracee.slots[k] = 0
      BY <1>1, <1>2, <3>1 DEF GmSlots, Patched
    <3>3. k = sym1 /\ new[k] = new_val
      BY <3>1, <3>2 DEF new
    <3>4. ~ gm_late /\ ~ gm_signal => gm_vaddr = LoadAddr
      BY <1>1, <1>2 DEF GmPhase, Calm
    <3> QED
      BY <2>3, <3>3, <3>4
  <2> QED
    BY <2>8, <2>9, <2>11, <2>12 DEF GmInv
<1> QED
  BY <1>3, <1>4

LEMMA GmInvInit == GmInit => GmInv
<1> SUFFICES ASSUME GmInit PROVE GmInv
  OBVIOUS
<1>1. GmTables
  BY DEF GmInit, GmTables
<1>2. GmSlots
  BY DEF GmInit, GmSlots, Patched
<1> QED
  BY <1>1, <1>2, GmInit1 DEF GmInv

LEMMA GmInvNext == GmInv /\ [GmNext]_gm_vars => GmInv'
<1> SUFFICES ASSUME GmInv, [GmNext]_gm_vars PROVE GmInv'
  OBVIOUS
<1> DEFINE Kept == gm_tracee'.slots = gm_tracee.slots
           InfosKept == UNCHANGED <<gm_pid, gm_td, gm_lib>>
<1>1. GmTypes /\ GmPhase /\ GmTables /\ GmSlots
  BY DEF GmInv
<1>2. ASSUME (GmTypes /\ GmPhase)', Kept, InfosKept, gm_late => gm_late', gm_signal => gm_signal',
             gm_pc' \in {"init", "exit", "undefined"} \/ gm_pc \notin {"init", "exit", "undefined"},
             gm_pc' = "slot" => gm_pc = "slot" \/ (sym1 # NotFound /\ sym2 # NotFound),
             gm_pc \in {"undo", "exiting", "exit"} => gm_pc' \in {"undo", "exiting", "exit"}
      PROVE  GmInv'
  BY <1>1, <1>2, TablesStay DEF GmInv
<1>3. CASE UNCHANGED gm_vars
  <2>1. gm_pc' = gm_pc /\ InfosKept /\ gm_bck' = gm_bck /\ gm_vaddr' = gm_vaddr /\ gm_tracee' = gm_tracee
        /\ gm_late' = gm_late /\ gm_signal' = gm_signal
    BY <1>3 DEF gm_vars, tracer
  <2>2. (GmTypes /\ GmPhase)'
    BY <1>1, <2>1 DEF GmTypes, GmTypeOK, Tracees, GmPhase, OnTime, Calm, Free, Stopping
  <2> QED
    BY <1>2, <2>1, <2>2
<1>4. CASE map_parser_init
  <2>1. (GmTypes /\ GmPhase)'
    BY <1>1, <1>4, InitSteps
  <2>2. gm_pc = "init" /\ gm_pc' \in {"init", "exit"} /\ UNCHANGED <<gm_pid, gm_lib, gm_tracee>>
    BY <1>4 DEF map_parser_init, GoTo
  <2>3. \A k \in DOMAIN gm_tracee.slots : gm_tracee.slots[k] = 0
    BY <1>1, <2>2 DEF GmSlots, Patched
  <2>4. GmSlots'
    BY <2>2, <2>3 DEF GmSlots, Patched
  <2>5. \/ gm_td' = gm_td
        \/ gm_td' = lop_init_info(Exe[gm_pid % PidWidth]) /\ gm_pid % PidWidth \in Pids
    BY <1>4 DEF map_parser_init
  <2>6. GmTables'
    BY <1>1, <2>2, <2>5 DEF GmTables
  <2> QED
    BY <2>1, <2>4, <2>6 DEF GmInv
<1>5. CASE map_parser_init_lib_hooker
  <2>1. (GmTypes /\ GmPhase)'
    BY <1>1, <1>5, InitSteps
  <2>2. gm_pc = "init" /\ gm_pc' \in {"exit", "attach", "undefined"} /\ gm_td # NotFound
        /\ UNCHANGED <<gm_pid, gm_td, gm_tracee>>
    BY <1>5 DEF map_parser_init_lib_hooker, GoTo
  <2>3. \A k \in DOMAIN gm_tracee.slots : gm_tracee.slots[k] = 0
    BY <1>1, <2>2 DEF GmSlots, Patched
  <2>4. GmSlots'
    BY <2>2, <2>3 DEF GmSlots, Patched
  <2>5. \/ gm_lib' = gm_lib /\ gm_pc' = "undefined"
        \/ gm_lib' = lop_init_info(Lib) /\ (gm_pc' = "attach" => gm_lib' # NotFound)
    BY <1>5 DEF map_parser_init_lib_hooker, GoTo
  <2>6. GmTables'
    BY <1>1, <2>2, <2>5 DEF GmTables
  <2> QED
    BY <2>1, <2>4, <2>6 DEF GmInv
<1>6. CASE Attach("attach", "GETREGS", "exit")
  <2>1. (GmTypes /\ GmPhase)' /\ Kept
    BY <1>1, <1>6, AttachSteps
  <2> QED
    BY <1>2, <1>6, <2>1 DEF Attach, GoTo, tracer
<1>7. CASE GETREGS
  <2>1. (GmTypes /\ GmPhase)' /\ Kept
    BY <1>1, <1>7, GetregsStep
  <2> QED
    BY <1>2, <1>7, <2>1 DEF GETREGS, Request, GoTo
<1>8. CASE process_injector_read_at
  <2>1. (GmTypes /\ GmPhase)' /\ Kept
    BY <1>1, <1>8, PeekStep
  <2> QED
    BY <1>2, <1>8, <2>1 DEF process_injector_read_at, Request, GoTo
<1>9. CASE process_injector_write_at
  <2>1. (GmTypes /\ GmPhase)' /\ Kept
    BY <1>1, <1>9, PokeSteps DEF process_injector_write_at
  <2> QED
    BY <1>2, <1>9, <2>1 DEF process_injector_write_at, Request, GoTo, tracer
<1>10. CASE SETREGS
  <2>1. (GmTypes /\ GmPhase)' /\ Kept
    BY <1>1, <1>10, SetregsSteps DEF SETREGS
  <2> QED
    BY <1>2, <1>10, <2>1 DEF SETREGS, Request, GoTo, tracer
<1>11. CASE CONT
  <2>1. (GmTypes /\ GmPhase)' /\ Kept
    BY <1>1, <1>11, ContStep
  <2> QED
    BY <1>2, <1>11, <2>1 DEF CONT, Request, GoTo, tracer
<1>12. CASE Wait
  <2>1. (GmTypes /\ GmPhase)' /\ Kept
    BY <1>1, <1>12, WaitStep
  <2> QED
    BY <1>2, <1>12, <2>1 DEF Wait, GoTo, tracer
<1>13. CASE GETREGS_eax
  <2>1. (GmTypes /\ GmPhase)' /\ Kept
    BY <1>1, <1>13, EaxStep
  <2> QED
    BY <1>2, <1>13, <2>1 DEF GETREGS_eax, Request, GoTo
<1>14. CASE Detach("DETACH", "replace")
  <2>1. (GmTypes /\ GmPhase)' /\ Kept
    BY <1>1, <1>14, DetachSteps
  <2> QED
    BY <1>2, <1>14, <2>1 DEF Detach, Request, GoTo, tracer
<1>15. CASE replace_not_found
  <2>1. /\ gm_pc = "replace" /\ gm_pc' = "exiting" /\ InfosKept /\ gm_bck' = gm_bck /\ gm_vaddr' = gm_vaddr
        /\ gm_tracee' = gm_tracee /\ gm_late' = gm_late /\ gm_signal' = gm_signal
    BY <1>15 DEF replace_not_found, GoTo, tracer
  <2>2. (GmTypes /\ GmPhase)'
    BY <1>1, <2>1 DEF GmTypes, GmTypeOK, Tracees, GmPhase, OnTime, Calm, Free
  <2> QED
    BY <1>2, <2>1, <2>2
<1>16. CASE sym1 # NotFound /\ sym2 # NotFound /\ Attach("replace", "slot", "exiting")
  <2>1. (GmTypes /\ GmPhase)' /\ Kept
    BY <1>1, <1>16, AttachSteps
  <2> QED
    BY <1>2, <1>16, <2>1 DEF Attach, GoTo, tracer
<1>17. CASE replace
  BY <1>17, ReplaceStep
<1>18. CASE Detach("undo", "exiting")
  <2>1. (GmTypes /\ GmPhase)' /\ Kept
    BY <1>1, <1>18, DetachSteps
  <2> QED
    BY <1>2, <1>18, <2>1 DEF Detach, Request, GoTo, tracer
<1>19. CASE map_parser_exit
  <2>1. (GmTypes /\ GmPhase)' /\ Kept
    BY <1>1, <1>19, GmExitStep
  <2> QED
    BY <1>2, <1>19, <2>1 DEF map_parser_exit, GoTo, tracer
<1>20. CASE StopSignal \/ OwnSignal \/ RunCode
  <2>1. (GmTypes /\ GmPhase)' /\ Kept
    BY <1>1, <1>20, TraceeSteps
  <2> QED
    BY <1>2, <1>20, <2>1 DEF StopSignal, OwnSignal, RunCode, StopsAgain, tracer
<1> QED
  BY <1>3, <1>4, <1>5, <1>6, <1>7, <1>8, <1>9, <1>10, <1>11, <1>12, <1>13, <1>14, <1>15, <1>16, <1>17, <1>18,
     <1>19, <1>20 DEF GmNext, main

(* The inductive invariant: what main and the tracee hold at each step.    *)
THEOREM GmInvariant == GmSpec => []GmInv
BY GmInvInit, GmInvNext, PTL DEF GmSpec

(* The ranges of got_modifier's state.                                     *)
THEOREM GmTypesAlways == GmSpec => []GmTypeOK
<1>1. GmInv => GmTypeOK
  BY DEF GmInv, GmTypes
<1> QED
  BY <1>1, GmInvariant, PTL

(* The injection leaves text and registers of the tracee as it found them, *)
(* whatever signals it takes meanwhile, if it had stopped by the first     *)
(* request; and at the end, without such signals, it runs untraced.        *)
THEOREM InjectionRestores == GmSpec => []GmRestored
<1>1. GmInv => GmRestored
  BY DEF GmInv, GmTypes, GmPhase, OnTime, Calm, Free, GmRestored
<1> QED
  BY <1>1, GmInvariant, PTL

(* The tables of both objects name, for every symbol with a relocation,    *)
(* its first one, although lop_find_rel_by_sym walks past the sections.    *)
THEOREM LopTablesRight == GmSpec => []LopTables
<1>1. GmInv => LopTables
  BY InfoRight, ObjectsAssumption DEF GmInv, GmTables, LopTables
<1> QED
  BY <1>1, GmInvariant, PTL

(* What replace overwrites is a relocation of printf in the tracee, and it *)
(* then leads to the last evilprint of the library.                        *)
THEOREM PatchesPrintf == GmSpec => []GmPatched
<1>1. GmInv => GmPatched
  <2> SUFFICES ASSUME GmInv, NEW k \in DOMAIN gm_tracee.slots, gm_tracee.slots[k] # 0,
                      gm_pid < PidWidth, Regular(Exe[gm_pid]),
                      NEW printf,
                      printf = {j \in DOMAIN Exe[gm_pid].symbols : Exe[gm_pid].symbols[j].name = "printf"},
                      NEW evil, evil = Max({j \in DOMAIN Lib.symbols : Lib.symbols[j].name = "evilprint"})
               PROVE  /\ (\A j \in printf : LopRelocations(Exe[gm_pid], j - 1) # {}) =>
                             k \in UNION {LopRelocations(Exe[gm_pid], j - 1) : j \in printf}
                      /\ ~ gm_late /\ ~ gm_signal /\ Len(Lib.symbols) <= LOP_MAX_DYNSYM =>
                             gm_tracee.slots[k] = LoadAddr + Lib.symbols[evil].value
    BY DEF GmPatched
  <2>1. GmTables /\ GmSlots /\ gm_pid \in Pids
    BY DEF GmInv, GmTypes, GmTypeOK
  <2>2. /\ gm_td # NotFound /\ gm_lib # NotFound /\ sym1 # NotFound /\ sym2 # NotFound /\ k = sym1
        /\ ~ gm_late /\ ~ gm_signal => gm_tracee.slots[k] = evilprint
    BY <2>1 DEF GmSlots, Patched
  <2>3. ~ gm_late /\ ~ gm_signal /\ Len(Lib.symbols) <= LOP_MAX_DYNSYM =>
            gm_tracee.slots[k] = LoadAddr + Lib.symbols[evil].value
    <3>1. gm_lib.plt[sym2].sym = sym2 /\ (Len(Lib.symbols) <= LOP_MAX_DYNSYM => sym2 = evil)
      BY <2>1, <2>2, EvilLast
    <3> QED
      BY <2>2, <3>1 DEF evilprint
  <2>4. gm_pid % PidWidth = gm_pid
    <3>1. gm_pid \in Nat /\ PidWidth \in Nat \ {0}
      BY <2>1, ObjectsAssumption
    <3> QED
      BY <3>1
  <2> DEFINE o == Exe[gm_pid]
  <2>5. gm_td = lop_init_info(o) /\ IsObject(o)
    BY <2>1, <2>2, <2>4, ObjectsAssumption DEF GmTables
  <2>6. PICK n \in Nat :
            /\ n <= Len(o.symbols) /\ DOMAIN gm_td.plt = 1 .. n
            /\ \A j \in 1 .. n :
                   /\ gm_td.plt[j].symname = o.symbols[j].name
                   /\ gm_td.plt[j].rel = lop_find_rel_by_sym(o, lop_get_section_by_type(o, "DYNSYM") - 1, j - 1)
    BY <2>2, <2>5, InfoTable
  <2> DEFINE named == Named(gm_td, "printf")
  <2>7. named \in SUBSET Nat /\ \A j \in named : j \in 1 .. n /\ j \in printf
    BY <2>5, <2>6 DEF Named, IsObject
  <2>8. PICK j \in named : sym1 = gm_td.plt[j].rel
    <3>1. named # {} => Min(named) \in named
      <4> HIDE DEF named
      <4> QED
        BY <2>7, NatMin
    <3>2. sym1 = LET m == FirstOf(named) IN IF m = NotFound THEN NotFound ELSE gm_td.plt[m].rel
      BY DEF sym1
    <3> HIDE DEF named
    <3> QED
      BY <2>2, <3>1, <3>2 DEF FirstOf
  <2> HIDE DEF named
  <2>9. ASSUME \A m \in printf : LopRelocations(o, m - 1) # {} PROVE k \in LopRelocations(o, j - 1) /\ j \in printf
    <3>1. LopRelocations(o, j - 1) # {} /\ k = Min(LopRelocations(o, j - 1))
      BY <2>2, <2>5, <2>6, <2>7, <2>8, <2>9, RelRight
    <3>2. LopRelocations(o, j - 1) \in SUBSET Nat
      <4>1. \A m \in LopRelSections(o) : o.sections[m].off \in Nat /\ o.sections[m].size \in Nat
        BY <2>5 DEF IsObject, LopRelSections
      <4> QED
        BY <4>1 DEF LopRelocations
    <3> QED
      BY <2>7, <3>1, <3>2, NatMin
  <2> QED
    BY <2>3, <2>9
<1> QED
  BY <1>1, GmInvariant, PTL

----------------------------------------------------------------------------
(* dso_plugin: the handles of the loader and the plugins that are open.   *)

(* The open plugins of file f.                                             *)
Holders(f) == {p \in dso_live : dso_vmem[p] = f}

DsoTypes ==
    /\ dso_vmem \in [Plugins -> Objects \cup {Absent}]
    /\ dso_live \subseteq Plugins
    /\ DOMAIN dso_refs = Objects
    /\ dso_broken \in BOOLEAN

(* An open plugin has a handle.                                            *)
LiveHasHandle == \A p \in dso_live : dso_vmem[p] \in Objects

DsoInv ==
    /\ DsoTypes /\ LiveHasHandle
    /\ ~ dso_broken => \A f \in Objects : dso_refs[f] = Cardinality(Holders(f))

LEMMA HoldersFinite ==
    ASSUME DsoTypes, NEW f PROVE IsFiniteSet(Holders(f)) /\ Cardinality(Holders(f)) \in Nat
<1>1. Holders(f) \subseteq Plugins
  BY DEF Holders, DsoTypes
<1> QED
  BY <1>1, PluginsAssumption, FS_Subset, FS_CardinalityType

LEMMA DsoInvInit == DsoInit => DsoInv
<1> SUFFICES ASSUME DsoInit PROVE DsoInv
  OBVIOUS
<1>1. \A f : Holders(f) = {}
  BY DEF DsoInit, Holders
<1>2. DsoTypes /\ LiveHasHandle
  BY DEF DsoInit, DsoTypes, LiveHasHandle
<1> QED
  BY <1>1, <1>2, FS_EmptySet DEF DsoInit, DsoInv

LEMMA OpenStep ==
    ASSUME DsoInv, NEW p \in Plugins, NEW f \in Objects, NEW ent \in Symbols, dso_plugin_init(p, f, ent)
    PROVE  DsoInv'
<1>1. p \notin dso_live /\ dso_broken' = dso_broken
  BY DEF dso_plugin_init
<1>2. \A q \in Plugins \ {p} : dso_vmem'[q] = dso_vmem[q]
  BY DEF DsoInv, DsoTypes, dso_plugin_init
<1>3. CASE dso_live' = dso_live /\ dso_refs' = dso_refs /\ dso_vmem'[p] \in Objects \cup {Absent}
  <2>1. DsoTypes' /\ LiveHasHandle'
    BY <1>1, <1>2, <1>3 DEF DsoInv, DsoTypes, LiveHasHandle, dso_plugin_init
  <2>2. \A g \in Objects : Holders(g)' = Holders(g)
    BY <1>1, <1>2, <1>3 DEF Holders, DsoInv, DsoTypes
  <2> QED
    BY <1>1, <1>3, <2>1, <2>2 DEF DsoInv
<1>4. CASE /\ dso_live' = dso_live \cup {p} /\ dso_vmem'[p] = f
           /\ dso_refs' = [dso_refs EXCEPT ![f] = @ + 1]
  <2>1. DsoTypes' /\ LiveHasHandle'
    BY <1>1, <1>2, <1>4 DEF DsoInv, DsoTypes, LiveHasHandle, dso_plugin_init
  <2>2. \A g \in Objects \ {f} : Holders(g)' = Holders(g)
    BY <1>1, <1>2, <1>4 DEF Holders, DsoInv, DsoTypes
  <2>3. Holders(f)' = Holders(f) \cup {p} /\ p \notin Holders(f)
    BY <1>1, <1>2, <1>4 DEF Holders, DsoInv, DsoTypes
  <2>4. Cardinality(Holders(f)') = Cardinality(Holders(f)) + 1
    BY <2>3, HoldersFinite, FS_AddElement DEF DsoInv
  <2>5. ~ dso_broken' => \A g \in Objects : dso_refs'[g] = Cardinality(Holders(g)')
    BY <1>1, <1>4, <2>2, <2>4 DEF DsoInv, DsoTypes
  <2> QED
    BY <2>1, <2>5 DEF DsoInv
<1> QED
  <2>1. p \in Plugins /\ dso_vmem \in [Plugins -> Objects \cup {Absent}]
    BY DEF DsoInv, DsoTypes
  <2> QED
    BY <1>3, <1>4, <2>1 DEF dso_plugin_init

LEMMA ExitStep == ASSUME DsoInv, NEW p \in Plugins, dso_plugin_exit(p) PROVE DsoInv'
<1>1. dso_vmem' = dso_vmem /\ dso_live' = dso_live \ {p}
  BY DEF dso_plugin_exit
<1>2. DsoTypes' /\ LiveHasHandle'
  BY <1>1 DEF DsoInv, DsoTypes, LiveHasHandle, dso_plugin_exit
<1>3. CASE p \in dso_live
  <2>1. PICK f \in Objects : f = dso_vmem[p] /\ f # Absent
    BY <1>3, AbsentAssumption DEF DsoInv, LiveHasHandle, Objects
  <2>2. dso_broken' = dso_broken
    BY <1>3 DEF dso_plugin_exit, DsoInv, DsoTypes
  <2>3. Holders(f)' = Holders(f) \ {p} /\ p \in Holders(f)
    BY <1>1, <1>3, <2>1 DEF Holders
  <2>4. /\ Cardinality(Holders(f)') = Cardinality(Holders(f)) - 1
        /\ Cardinality(Holders(f)) \in Nat /\ Cardinality(Holders(f)) # 0
    <3>1. IsFiniteSet(Holders(f)) /\ Cardinality(Holders(f)) \in Nat
      BY HoldersFinite DEF DsoInv
    <3>2. Cardinality(Holders(f)) # 0
      BY <2>3, <3>1, FS_EmptySet
    <3> QED
      BY <2>3, <3>1, <3>2, FS_RemoveElement
  <2>5. \A g \in Objects \ {f} : Holders(g)' = Holders(g)
    BY <1>1, <2>1 DEF Holders
  <2>6. ~ dso_broken' => \A g \in Objects : dso_refs'[g] = Cardinality(Holders(g)')
    <3> SUFFICES ASSUME ~ dso_broken, NEW g \in Objects PROVE dso_refs'[g] = Cardinality(Holders(g)')
      BY <2>2
    <3>1. dso_refs' = [dso_refs EXCEPT ![f] = @ - 1]
      BY <2>1, <2>4 DEF dso_plugin_exit, DsoInv
    <3>2. dso_refs'[g] = IF g = f THEN dso_refs[f] - 1 ELSE dso_refs[g]
      BY <2>1, <3>1 DEF DsoInv, DsoTypes
    <3>3. dso_refs[g] = Cardinality(Holders(g)) /\ dso_refs[f] = Cardinality(Holders(f))
      BY <2>1 DEF DsoInv
    <3>4. CASE g = f
      BY <2>4, <3>2, <3>3, <3>4
    <3>5. CASE g # f
      BY <2>5, <3>2, <3>3, <3>5
    <3> QED
      BY <3>4, <3>5
  <2> QED
    BY <1>2, <2>6 DEF DsoInv
<1>4. CASE p \notin dso_live /\ dso_vmem[p] = Absent
  <2>1. dso_refs' = dso_refs /\ dso_broken' = dso_broken
    BY <1>4 DEF dso_plugin_exit, DsoInv, DsoTypes
  <2>2. \A g \in Objects : Holders(g)' = Holders(g)
    BY <1>1, <1>4 DEF Holders
  <2> QED
    BY <1>2, <2>1, <2>2 DEF DsoInv
<1>5. CASE p \notin dso_live /\ dso_vmem[p] # Absent
  BY <1>2, <1>5 DEF dso_plugin_exit, DsoInv
<1> QED
  BY <1>3, <1>4, <1>5

LEMMA DsoInvNext == DsoInv /\ [DsoNext]_dso_vars => DsoInv'
<1> SUFFICES ASSUME DsoInv, [DsoNext]_dso_vars PROVE DsoInv'
  OBVIOUS
<1>1. CASE UNCHANGED dso_vars
  BY <1>1 DEF dso_vars, DsoInv, DsoTypes, LiveHasHandle, Holders
<1>2. ASSUME NEW p \in Plugins, NEW ent \in Symbols, dso_plugin_get_sym(p, ent) PROVE DsoInv'
  BY <1>2 DEF dso_plugin_get_sym, DsoInv, DsoTypes, LiveHasHandle, Holders
<1> QED
  BY <1>1, <1>2, OpenStep, ExitStep DEF DsoNext

(* The inductive invariant: an open plugin has a handle, and it is counted.*)
THEOREM DsoInvariant == DsoSpec => []DsoInv
BY DsoInvInit, DsoInvNext, PTL DEF DsoSpec

(* The loader counts one handle for each open plugin, whatever step of an  *)
(* open failed, until a descriptor that is not open is closed.             *)
THEOREM DsoBalanced == DsoSpec => []DsoRefsBalance
<1>1. DsoInv => DsoRefsBalance
  BY DEF DsoInv, DsoRefsBalance, Holders
<1> QED
  BY <1>1, DsoInvariant, PTL

----------------------------------------------------------------------------
(* The composition.  No step of one program changes what another one has,  *)
(* so a behaviour of ObjectsSpec is one of each of them, stuttering where  *)
(* another was chosen.                                                     *)

LEMMA ObjectsParts ==
    ASSUME [ObjectsNext]_objects_vars
    PROVE  /\ [SymNext]_sym_vars /\ [DlsNext]_dls_vars /\ [DsoNext]_dso_vars
           /\ [GmNext]_gm_vars /\ [Next]_vars
BY DEF ObjectsNext, objects_vars

GmSafe == GmInit /\ [][GmNext]_gm_vars

(* What is proved of each program above holds of the composition.          *)
THEOREM ObjectsImplementParts == ObjectsSpec => Spec /\ SymSpec /\ DlsSpec /\ DsoSpec /\ GmSafe
<1>1. ObjectsInit => SymInit /\ DlsInit /\ DsoInit /\ GmInit /\ Init
  BY DEF ObjectsInit
<1> QED
  BY <1>1, ObjectsParts, PTL DEF ObjectsSpec, Spec, SymSpec, DlsSpec, DsoSpec, GmSafe

(* What each program keeps has its type, whichever of them runs.           *)
THEOREM ObjectsTypes == ObjectsSpec => []ObjectsTypeOK
<1>1. GmSafe => []GmInv
  BY GmInvInit, GmInvNext, PTL DEF GmSafe
<1>2. GmInv => GmTypeOK
  BY DEF GmInv, GmTypes
<1>3. TypeOK /\ SymTypeOK /\ GmTypeOK => ObjectsTypeOK
  BY DEF ObjectsTypeOK
<1> QED
  BY <1>1, <1>2, <1>3, ObjectsImplementParts, LayoutTypes, SymTypes, PTL

(* Whatever step of an open failed, sym_resolv and dslelf hold descriptors *)
(* and mappings exactly while their structures say so.                     *)
THEOREM DescriptorsAlwaysHeld == ObjectsSpec => []DescriptorsHeld
<1>1. SymHolds /\ DlsHolds => DescriptorsHeld
  BY DEF DescriptorsHeld
<1> QED
  BY <1>1, ObjectsImplementParts, SymHoldsAlways, DlsHoldsAlways, PTL
=============================================================================
