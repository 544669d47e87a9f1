------------------------ MODULE HeapPoolLayoutProofs ------------------------
(***************************************************************************)
(* Proofs about HeapPoolLayout, for any page, word and requests: where the *)
(* chunks are, and that the words in memory are the pool of HeapPool.      *)
(***************************************************************************)
EXTENDS HeapPoolLayout, TLAPS

----------------------------------------------------------------------------
(* Rounding up.                                                            *)

LEMMA Quotient ==
    ASSUME NEW x \in Int, NEW y \in Nat \ {0}
    PROVE  /\ x \div y \in Int /\ x % y \in 0 .. y - 1
           /\ x = y * (x \div y) + (x % y)
OBVIOUS

LEMMA Whole ==
    ASSUME NEW k \in Int, NEW y \in Nat \ {0}
    PROVE  (k * y) % y = 0 /\ (k * y) \div y = k
OBVIOUS

LEMMA Multiple ==
    ASSUME NEW x \in Int, NEW y \in Nat \ {0}, x % y = 0
    PROVE  x \div y \in Int /\ x = (x \div y) * y
<1>1. x = y * (x \div y) + (x % y) /\ x \div y \in Int
  BY Quotient
<1> QED
  BY <1>1

LEMMA Divides ==
    ASSUME NEW x \in Int, NEW y \in Nat \ {0}, x % y = 0
    PROVE  \E k \in Int : x = k * y
BY Multiple

LEMMA TimesMonotone ==
    ASSUME NEW k \in Int, NEW m \in Int, k <= m, NEW s \in Nat
    PROVE  k * s <= m * s
<1>1. (m - k) * s >= 0 /\ (m - k) * s = m * s - k * s
  OBVIOUS
<1> QED
  BY <1>1

LEMMA TimesLess ==
    ASSUME NEW k \in Int, NEW m \in Int, NEW s \in Nat \ {0}, k * s < m * s
    PROVE  k < m
<1>1. m <= k => m * s <= k * s
  BY TimesMonotone
<1> QED
  BY <1>1

LEMMA AlignUp ==
    ASSUME NEW x \in Int, NEW y \in Nat \ {0}
    PROVE  /\ __ALIGN(x, y) \in Int /\ x <= __ALIGN(x, y) /\ __ALIGN(x, y) < x + y
           /\ __ALIGN(x, y) % y = 0
           /\ (x + y - 1) \div y \in Int /\ __ALIGN(x, y) = ((x + y - 1) \div y) * y
<1>1. __ALIGN(x, y) \in Int /\ x <= __ALIGN(x, y) /\ __ALIGN(x, y) < x + y
  BY DEF __ALIGN
<1>2. __ALIGN(x, y) % y = 0
  BY DEF __ALIGN
<1>3. (x + y - 1) \div y \in Int /\ __ALIGN(x, y) = ((x + y - 1) \div y) * y
  BY DEF __ALIGN
<1> QED
  BY <1>1, <1>2, <1>3

LEMMA AlignLeast ==
    ASSUME NEW x \in Int, NEW y \in Nat \ {0}, NEW k \in Int, x <= k * y
    PROVE  __ALIGN(x, y) <= k * y
<1> DEFINE q == (x + y - 1) \div y
<1>1. q \in Int /\ __ALIGN(x, y) = q * y /\ q * y < x + y
  BY AlignUp
<1> HIDE DEF q
<1>2. q * y < (k + 1) * y
  BY <1>1
<1>3. q < k + 1
  BY <1>1, <1>2, TimesLess
<1> QED
  BY <1>1, <1>3, TimesMonotone

LEMMA AlignExact ==
    ASSUME NEW y \in Nat \ {0}, NEW k \in Int, NEW x, x = k * y
    PROVE  __ALIGN(x, y) = x
<1>1. x \in Int /\ x <= k * y
  OBVIOUS
<1>2. __ALIGN(x, y) <= x
  BY <1>1, AlignLeast
<1>3. __ALIGN(x, y) \in Int /\ x <= __ALIGN(x, y)
  BY <1>1, AlignUp
<1> QED
  BY <1>1, <1>2, <1>3

----------------------------------------------------------------------------
(* The layout of one pool.                                                 *)

(* Both numbers of the request, apart from it.                            *)
NewAlignment(a) == IF a = 0 THEN Word ELSE __compute_new_alignment(a)

LEMMA NewAlignmentRight ==
    ASSUME NEW a \in Nat, a # 0 /\ a < Word => Word % a = 0, a # 0 => Page % a = 0
    PROVE  /\ NewAlignment(a) \in Nat /\ NewAlignment(a) >= Word /\ Page % NewAlignment(a) = 0
           /\ a <= Word => NewAlignment(a) = Word
           /\ a > Word => NewAlignment(a) = a
           /\ a # 0 => NewAlignment(a) % a = 0
<1>1. Word \in Nat \ {0} /\ Page \in Nat /\ Page % Word = 0
  BY SizesAssumption
<1>2. CASE a = 0
  BY <1>1, <1>2 DEF NewAlignment
<1>3. CASE a # 0 /\ a < Word
  <2> DEFINE k == Word \div a
  <2>1. k \in Int /\ Word = k * a
    BY <1>1, <1>3, Multiple
  <2> HIDE DEF k
  <2>2. __ALIGN(Word, a) = Word
    BY <1>3, <2>1, AlignExact
  <2>3. a + (Word - a) = Word
    BY <1>1
  <2>4. NewAlignment(a) = Word
    BY <1>1, <1>3, <2>2, <2>3 DEF NewAlignment, __compute_new_alignment
  <2> QED
    BY <1>1, <1>3, <2>4
<1>4. CASE a >= Word
  <2>1. NewAlignment(a) = a /\ a # 0
    BY <1>1, <1>4 DEF NewAlignment, __compute_new_alignment
  <2>2. a % a = 0
    <3>1. (1 * a) % a = 0 /\ 1 * a = a
      BY <1>1, <1>4, Whole
    <3> QED
      BY <3>1
  <2> QED
    BY <1>1, <1>4, <2>1, <2>2
<1> QED
  BY <1>1, <1>2, <1>3, <1>4

Gap(sz, a) == IF a > 1 THEN __ALIGN(sz + Word, a) - (sz + Word) ELSE 0

LEMMA GapRight ==
    ASSUME NEW a \in Nat, NEW sz \in Nat
    PROVE  /\ Gap(sz, a) \in Nat /\ (a > 0 => Gap(sz, a) < a) /\ (a = 0 => Gap(sz, a) = 0)
           /\ a # 0 => ((Word + Gap(sz, a)) + sz) % a = 0
<1>1. Word \in Nat \ {0}
  BY SizesAssumption
<1>2. CASE a <= 1
  <2>1. \A x \in Int : x % 1 = 0
    OBVIOUS
  <2> QED
    BY <1>1, <1>2, <2>1 DEF Gap
<1>3. CASE a > 1
  <2> DEFINE up == __ALIGN(sz + Word, a)
  <2>1. up \in Int /\ sz + Word <= up /\ up < sz + Word + a /\ up % a = 0
    <3>1. sz + Word \in Int
      BY <1>1
    <3> QED
      BY <1>3, <3>1, AlignUp
  <2>2. Gap(sz, a) = up - (sz + Word)
    BY <1>1, <1>3 DEF Gap
  <2> HIDE DEF up
  <2>3. (Word + Gap(sz, a)) + sz = up
    BY <1>1, <2>1, <2>2
  <2> QED
    BY <1>1, <1>3, <2>1, <2>2, <2>3
<1> QED
  BY <1>2, <1>3

(* The numbers the layout is made of.                                      *)
LEMMA RequestSizes ==
    ASSUME NEW r \in Accepted
    PROVE  /\ r.nb \in Nat \ {0} /\ r.size \in Nat /\ r.align \in Nat
           /\ align(r) \in Nat \ {0} /\ align(r) >= Word /\ Page % align(r) = 0
           /\ r.align <= Word => align(r) = Word
           /\ r.align > Word => align(r) = r.align
           /\ r.align # 0 => align(r) % r.align = 0
           /\ holesize(r) \in Nat /\ holesize(r) >= Word
           /\ r.align # 0 => (holesize(r) + r.size) % r.align = 0
<1>1. /\ r.nb \in Nat \ {0} /\ r.size \in Nat /\ r.align \in Nat
      /\ r.align # 0 => Page % r.align = 0
      /\ r.align # 0 /\ r.align < Word => Word % r.align = 0
      /\ Word \in Nat \ {0}
  BY SizesAssumption, RequestsAssumption
<1>2. PICK a \in Nat : a = r.align
  BY <1>1
<1>3. PICK sz \in Nat : sz = r.size
  BY <1>1
<1>4. align(r) = NewAlignment(a)
  BY <1>2 DEF align, NewAlignment
<1>5. holesize(r) = Word + Gap(sz, a)
  BY <1>2, <1>3 DEF holesize, Gap
<1>6. /\ NewAlignment(a) \in Nat /\ NewAlignment(a) >= Word /\ Page % NewAlignment(a) = 0
      /\ a <= Word => NewAlignment(a) = Word
      /\ a > Word => NewAlignment(a) = a
      /\ a # 0 => NewAlignment(a) % a = 0
  BY <1>1, <1>2, NewAlignmentRight
<1>7. Gap(sz, a) \in Nat /\ (a # 0 => ((Word + Gap(sz, a)) + sz) % a = 0)
  BY GapRight
<1>8. Word + Gap(sz, a) \in Nat /\ Word + Gap(sz, a) >= Word
  BY <1>1, <1>7
<1>9. NewAlignment(a) \in Nat \ {0}
  BY <1>1, <1>6
<1> QED
  BY <1>1, <1>2, <1>3, <1>4, <1>5, <1>6, <1>7, <1>8, <1>9

(* As many chunks as the mapping has room for, none of it miscounted:     *)
(* al the alignment, hole the gap of nb chunks of sz bytes.                *)
LEMMA Rooms ==
    ASSUME NEW al \in Nat, NEW hole \in Nat, NEW nb \in Nat \ {0}, NEW sz \in Nat, hole >= Word,
           Desc + al + nb * (Word + sz + hole) + Page <= Width,
           NEW A, A = __ALIGN((Desc + al - hole + nb * (Word + sz + hole)) % Width, Page),
           NEW n, n = ((A - al - Desc) % Width) \div (Word + hole + sz)
    PROVE  /\ n \in Nat /\ A \in Nat /\ A % Page = 0
           /\ Desc + al + n * (Word + (hole + sz)) <= A
<1> DEFINE unit == Word + sz + hole
           x == Desc + al - hole + nb * unit
<1>1. Page \in Nat \ {0} /\ Word \in Nat \ {0} /\ Desc \in Nat \ {0} /\ Width \in Nat \ {0}
  BY SizesAssumption
<1>2. /\ unit \in Nat \ {0} /\ unit = Word + (hole + sz) /\ unit = Word + hole + sz
      /\ unit >= hole
  BY <1>1
<1>3. /\ Desc + al + nb * unit + Page <= Width
      /\ A = __ALIGN(x % Width, Page) /\ n = ((A - al - Desc) % Width) \div unit
  BY <1>2
<1> HIDE DEF unit
<1>4. nb * unit \in Nat /\ unit <= nb * unit
  <2>1. 1 * unit <= nb * unit
    BY <1>2, TimesMonotone
  <2> QED
    BY <1>2, <2>1
<1>5. x \in Nat /\ x + Page <= Width /\ Desc + al <= x
  BY <1>1, <1>2, <1>3, <1>4
<1> HIDE DEF x
<1>6. x % Width = x
  BY <1>1, <1>5
<1>7. A \in Nat /\ x <= A /\ A < x + Page /\ A % Page = 0
  <2>1. A = __ALIGN(x, Page)
    BY <1>3, <1>6
  <2>2. /\ __ALIGN(x, Page) \in Int /\ x <= __ALIGN(x, Page) /\ __ALIGN(x, Page) < x + Page
        /\ __ALIGN(x, Page) % Page = 0
    <3>1. x \in Int
      BY <1>5
    <3> QED
      BY <1>1, <3>1, AlignUp
  <2> QED
    BY <1>1, <1>5, <2>1, <2>2
<1> DEFINE y == A - al - Desc
<1>8. y \in Nat /\ y < Width
  BY <1>1, <1>5, <1>7
<1>9. n = (y % Width) \div unit
  BY <1>3
<1>10. Desc + al + y = A
  BY <1>1, <1>7
<1> HIDE DEF y
<1>11. y % Width = y
  BY <1>1, <1>8
<1>12. n = y \div unit
  BY <1>9, <1>11
<1>13. n \in Nat /\ n * unit <= y
  BY <1>2, <1>8, <1>12
<1>14. Desc + al + n * unit <= A
  BY <1>1, <1>2, <1>7, <1>8, <1>10, <1>13
<1> QED
  BY <1>2, <1>7, <1>13, <1>14

LEMMA Room ==
    ASSUME NEW r \in Accepted
    PROVE  /\ nrel(r) \in Nat /\ allocsize(r) \in Nat /\ allocsize(r) % Page = 0
           /\ Desc + align(r) + nrel(r) * (Word + (holesize(r) + r.size)) <= allocsize(r)
<1>1. /\ align(r) \in Nat /\ holesize(r) \in Nat /\ r.nb \in Nat \ {0} /\ r.size \in Nat
      /\ holesize(r) >= Word
      /\ Desc + align(r) + r.nb * (Word + r.size + holesize(r)) + Page <= Width
  BY RequestSizes, RequestsAssumption
<1>2. allocsize(r) =
          __ALIGN((Desc + align(r) - holesize(r) + r.nb * (Word + r.size + holesize(r))) % Width, Page)
  BY DEF allocsize
<1>3. nrel(r) = ((allocsize(r) - align(r) - Desc) % Width) \div (Word + holesize(r) + r.size)
  BY DEF nrel
<1>4. PICK al \in Nat, hole \in Nat, nb \in Nat \ {0}, sz \in Nat :
          al = align(r) /\ hole = holesize(r) /\ nb = r.nb /\ sz = r.size
  BY <1>1
<1>5. /\ hole >= Word /\ Desc + al + nb * (Word + sz + hole) + Page <= Width
      /\ allocsize(r) = __ALIGN((Desc + al - hole + nb * (Word + sz + hole)) % Width, Page)
      /\ nrel(r) = ((allocsize(r) - al - Desc) % Width) \div (Word + hole + sz)
  BY <1>1, <1>2, <1>3, <1>4
<1>6. /\ nrel(r) \in Nat /\ allocsize(r) \in Nat /\ allocsize(r) % Page = 0
      /\ Desc + al + nrel(r) * (Word + (hole + sz)) <= allocsize(r)
  BY <1>5, Rooms
<1> QED
  BY <1>4, <1>6

(* The chunks of a mapping of A bytes at addr: behind the array of links,  *)
(* the last one in the mapping, each on its alignment.                     *)
LEMMA Places ==
    ASSUME NEW addr \in Nat, addr % Page = 0, NEW A \in Nat, A % Page = 0,
           NEW a \in Nat, NEW al \in Nat \ {0}, al >= Word, Page % al = 0,
           a <= Word => al = Word, a > Word => al = a, a # 0 => al % a = 0,
           NEW S \in Nat, NEW hole \in Nat, hole >= Word, a # 0 => S % a = 0,
           NEW n \in Nat, Desc + al + n * (Word + S) <= A,
           NEW f, f = __ALIGN(addr + Desc + Word * n + al, al)
    PROVE  /\ f \in Nat
           /\ addr + Desc + Word * n + Word <= f
           /\ f + n * S - hole <= addr + A
           /\ a # 0 => f % a = 0
<1> DEFINE x == addr + Desc + Word * n + al
           y == Word * n
           z == n * S
<1>1. Page \in Nat \ {0} /\ Word \in Nat \ {0} /\ Desc \in Nat \ {0}
  BY SizesAssumption
<1>2. /\ addr \in Int /\ A \in Int /\ S \in Int /\ al \in Int /\ Page \in Int /\ Desc \in Int
      /\ Page % Word = 0 /\ Desc % Word = 0 /\ addr % Page = 0 /\ A % Page = 0 /\ Page % al = 0
  BY <1>1, SizesAssumption
<1>3. y \in Nat /\ z \in Nat /\ Desc + al + (y + z) <= A
  <2>1. n * (Word + S) = Word * n + n * S
    BY <1>1
  <2>2. y \in Nat /\ z \in Nat
    BY <1>1
  <2> QED
    BY <2>1, <2>2
<1>4. x \in Nat /\ x = addr + Desc + y + al /\ x + z <= addr + A
  BY <1>1, <1>3
<1>5. f = __ALIGN(x, al)
  OBVIOUS
<1> HIDE DEF x
<1>6. f \in Nat /\ x <= f /\ f % al = 0
  <2>1. x \in Int
    BY <1>4
  <2>2. /\ __ALIGN(x, al) \in Int /\ x <= __ALIGN(x, al) /\ __ALIGN(x, al) % al = 0
    BY <2>1, AlignUp
  <2> QED
    BY <1>4, <1>5, <2>2
<1>7. f \in Int
  BY <1>6
<1>8. addr + Desc + Word * n + Word <= f
  BY <1>1, <1>3, <1>4, <1>6
<1>9. a # 0 => f % a = 0
  <2> SUFFICES ASSUME a # 0 PROVE f % a = 0
    OBVIOUS
  <2>1. a # 0
    OBVIOUS
  <2>2. PICK k \in Int : f = k * al
    BY <1>6, <1>7, Divides
  <2>3. PICK m \in Int : al = m * a
    <3>1. a \in Nat \ {0} /\ al % a = 0
      BY <2>1
    <3> QED
      BY <1>2, <3>1, Divides
  <2>4. f = (k * m) * a
    BY <2>2, <2>3
  <2>5. k * m \in Int
    OBVIOUS
  <2> QED
    BY <2>4, <2>5, Whole
<1> HIDE DEF y, z
<1>10. f + z - hole <= addr + A
  <2>1. CASE a <= Word
    <3>1. al = Word
      BY <2>1
    <3>2. PICK ka \in Int : addr = ka * Page
      BY <1>2, <1>1, Divides
    <3>3. PICK kp \in Int : Page = kp * Word
      BY <1>2, <1>1, Divides
    <3>4. PICK kd \in Int : Desc = kd * Word
      BY <1>2, <1>1, Divides
    <3>5. PICK q \in Int : q = ka * kp
      OBVIOUS
    <3>6. addr = q * Word
      BY <1>1, <3>2, <3>3, <3>5
    <3>7. x = (q + kd + n + 1) * Word
      BY <1>1, <1>4, <3>1, <3>4, <3>6 DEF y
    <3>8. q + kd + n + 1 \in Int
      OBVIOUS
    <3>9. f = x
      BY <1>1, <1>5, <3>1, <3>7, <3>8, AlignExact
    <3> QED
      BY <1>3, <1>4, <3>9
  <2>2. CASE a > Word
    <3>1. al = a /\ a \in Nat \ {0} /\ Page % a = 0 /\ S % a = 0
      BY <1>1, <2>2
    <3>2. PICK ka \in Int : addr = ka * Page
      BY <1>2, <1>1, Divides
    <3>3. PICK kl \in Int : A = kl * Page
      BY <1>2, <1>1, Divides
    <3>4. PICK kp \in Int : Page = kp * a
      BY <1>2, <3>1, Divides
    <3>5. PICK ks \in Int : S = ks * a
      BY <1>2, <3>1, Divides
    <3>6. PICK u \in Int : u = (ka + kl) * kp
      OBVIOUS
    <3>7. PICK v \in Int : v = n * ks
      OBVIOUS
    <3>8. addr + A = u * a
      <4>1. addr + A = (ka + kl) * Page
        BY <1>1, <3>2, <3>3
      <4>2. PICK w \in Int : w = ka + kl
        OBVIOUS
      <4>3. addr + A = w * (kp * a) /\ u = w * kp
        BY <3>4, <3>6, <4>1, <4>2
      <4> QED
        BY <4>3
    <3>9. z = v * a
      BY <3>5, <3>7 DEF z
    <3>10. PICK t \in Int : t = u - v
      OBVIOUS
    <3>11. x <= t * a
      <4>1. t * a = u * a - v * a
        BY <3>10
      <4> QED
        BY <1>3, <1>4, <3>8, <3>9, <4>1
    <3>12. f <= t * a
      <4>1. x \in Int
        BY <1>4
      <4>2. __ALIGN(x, a) <= t * a
        BY <3>1, <3>11, <4>1, AlignLeast
      <4> QED
        BY <1>5, <3>1, <4>2
    <3>13. t * a = u * a - v * a
      BY <3>10
    <3> QED
      BY <1>3, <1>4, <1>6, <3>8, <3>9, <3>12, <3>13
  <2> QED
    BY <1>1, <2>1, <2>2
<1> QED
  BY <1>6, <1>8, <1>9, <1>10 DEF z

szck(r) == holesize(r) + r.size

LEMMA Layout ==
    ASSUME NEW r \in Accepted, NEW addr \in Bases
    PROVE  /\ szck(r) \in Nat /\ firstelem(r, addr) \in Nat
           /\ addr + Desc + Word * nrel(r) + Word <= firstelem(r, addr)
           /\ firstelem(r, addr) + nrel(r) * szck(r) - holesize(r) <= addr + allocsize(r)
           /\ r.align # 0 => firstelem(r, addr) % r.align = 0 /\ szck(r) % r.align = 0
<1>1. addr \in Nat /\ addr % Page = 0
  BY SizesAssumption
<1>2. /\ r.size \in Nat /\ r.align \in Nat
      /\ align(r) \in Nat \ {0} /\ align(r) >= Word /\ Page % align(r) = 0
      /\ r.align <= Word => align(r) = Word
      /\ r.align > Word => align(r) = r.align
      /\ r.align # 0 => align(r) % r.align = 0
      /\ holesize(r) \in Nat /\ holesize(r) >= Word
      /\ r.align # 0 => szck(r) % r.align = 0
  BY RequestSizes DEF szck
<1>3. szck(r) \in Nat
  BY <1>2 DEF szck
<1>4. /\ nrel(r) \in Nat /\ allocsize(r) \in Nat /\ allocsize(r) % Page = 0
      /\ Desc + align(r) + nrel(r) * (Word + szck(r)) <= allocsize(r)
  BY Room DEF szck
<1>5. firstelem(r, addr) = __ALIGN(addr + Desc + Word * nrel(r) + align(r), align(r))
  BY DEF firstelem
<1>6. PICK a \in Nat, al \in Nat \ {0}, S \in Nat, hole \in Nat, n \in Nat, A \in Nat :
          /\ a = r.align /\ al = align(r) /\ S = szck(r) /\ hole = holesize(r)
          /\ n = nrel(r) /\ A = allocsize(r)
  BY <1>2, <1>3, <1>4
<1>7. /\ A % Page = 0 /\ al >= Word /\ Page % al = 0
      /\ a <= Word => al = Word
      /\ a > Word => al = a
      /\ a # 0 => al % a = 0
      /\ hole >= Word
      /\ a # 0 => S % a = 0
      /\ Desc + al + n * (Word + S) <= A
      /\ firstelem(r, addr) = __ALIGN(addr + Desc + Word * n + al, al)
  BY <1>2, <1>4, <1>5, <1>6
<1>8. /\ firstelem(r, addr) \in Nat
      /\ addr + Desc + Word * n + Word <= firstelem(r, addr)
      /\ firstelem(r, addr) + n * S - hole <= addr + A
      /\ a # 0 => firstelem(r, addr) % a = 0
  BY <1>1, <1>7, Places
<1> QED
  BY <1>2, <1>3, <1>6, <1>8

----------------------------------------------------------------------------
(* Memory.                                                                 *)

Clear(x, y) == x + Word <= y \/ y + Word <= x

LEMMA StoreRight ==
    ASSUME NEW m, NEW addr, NEW val
    PROVE  /\ addr \in DOMAIN Store(m, addr, val) /\ Store(m, addr, val)[addr] = val
           /\ \A x \in DOMAIN m :
                  x # addr /\ Clear(x, addr) =>
                      x \in DOMAIN Store(m, addr, val) /\ Store(m, addr, val)[x] = m[x]
           /\ \A x \in DOMAIN Store(m, addr, val) :
                  x # addr => x \in DOMAIN m /\ Store(m, addr, val)[x] = m[x]
BY DEF Store, Spoil, Clear

LEMMA SpoilRight ==
    ASSUME NEW m, NEW addr, NEW len
    PROVE  /\ \A x \in DOMAIN m :
                  x + Word <= addr \/ addr + len <= x =>
                      x \in DOMAIN Spoil(m, addr, len) /\ Spoil(m, addr, len)[x] = m[x]
           /\ \A x \in DOMAIN Spoil(m, addr, len) :
                  x \in DOMAIN m /\ Spoil(m, addr, len)[x] = m[x]
BY DEF Spoil

(* The words of a pool: c's link, and the word in front of chunk c, of a   *)
(* mapping at b with n chunks of S bytes, the first at f.                  *)
LEMMA WordsApart ==
    ASSUME NEW b \in Nat, NEW n \in Nat, NEW S \in Nat, NEW f \in Nat, NEW W \in Nat, NEW D \in Nat,
           NEW sz \in Nat, S >= W + sz, W > 0,
           b + D + W * n + W <= f,
           NEW c \in 0 .. n - 1, NEW d \in 0 .. n - 1
    PROVE  /\ (b + D) + W * c \in Nat /\ f + c * S \in Nat
           /\ ((b + D) + W * c) + W <= (f + d * S) - W
           /\ c # d => \/ ((b + D) + W * c) + W <= (b + D) + W * d
                       \/ ((b + D) + W * d) + W <= (b + D) + W * c
           /\ c # d => \/ ((f + c * S) - W) + W <= (f + d * S) - W
                       \/ ((f + d * S) - W) + W <= (f + c * S) - W
           /\ \/ (f + c * S) + sz <= (f + d * S) - W
              \/ ((f + d * S) - W) + W <= f + c * S
<1>1. \A k, m \in Nat : k < m => k * S + S <= m * S /\ W * k + W <= W * m
  <2> SUFFICES ASSUME NEW k \in Nat, NEW m \in Nat, k < m PROVE k * S + S <= m * S /\ W * k + W <= W * m
    OBVIOUS
  <2>1. (k + 1) * S <= m * S /\ (k + 1) * W <= m * W
    BY TimesMonotone
  <2> QED
    BY <2>1
<1>2. PICK cs \in Nat, ds \in Nat, cw \in Nat, dw \in Nat, nw \in Nat :
          cs = c * S /\ ds = d * S /\ cw = W * c /\ dw = W * d /\ nw = W * n
  OBVIOUS
<1>3. /\ c < d => cs + S <= ds /\ cw + W <= dw
      /\ d < c => ds + S <= cs /\ dw + W <= cw
      /\ cw + W <= nw
  BY <1>1, <1>2
<1>4. c < d \/ d < c \/ (c = d /\ cs = ds)
  BY <1>2
<1>5. b + D + nw + W <= f
  BY <1>2
<1>6. /\ (b + D) + cw \in Nat /\ f + cs \in Nat
      /\ ((b + D) + cw) + W <= (f + ds) - W
      /\ c # d => \/ ((b + D) + cw) + W <= (b + D) + dw
                  \/ ((b + D) + dw) + W <= (b + D) + cw
      /\ c # d => \/ ((f + cs) - W) + W <= (f + ds) - W
                  \/ ((f + ds) - W) + W <= (f + cs) - W
      /\ \/ (f + cs) + sz <= (f + ds) - W
         \/ ((f + ds) - W) + W <= f + cs
  BY <1>3, <1>4, <1>5
<1> QED
  BY <1>2, <1>6

----------------------------------------------------------------------------
(* The invariant of the words.                                             *)

Chunk(c) == HEAP_POOL_GET_NTH_CHUNK(c)
Mark(c) == Chunk(c) - Word

(* The chunks that the loop of heap_pool_create has been through have      *)
(* their link and their mark.                                              *)
Linked(k) ==
    \A c \in 0 .. k - 1 :
        /\ Mark(c) \in DOMAIN mem /\ mem[Mark(c)] = c
        /\ LinkAddr(c) \in DOMAIN mem

Created ==
    /\ asked \in Accepted
    /\ hpd = descriptor(asked, base, hpd.nralloc, hpd.firstfree)
    /\ i \in 0 .. hpd.nrel
    /\ ptr = firstelem(asked, base) + i * szck(asked)
    /\ Linked(i)
    /\ hpd.firstfree \in 0 .. hpd.nrel
    /\ \A x \in DOMAIN mem : mem[x] \in 0 .. hpd.nrel
    /\ held \subseteq {Chunk(c) : c \in Chunks}
    /\ i < hpd.nrel =>
          /\ hpd.nralloc = 0 /\ hpd.firstfree = 0 /\ held = {} /\ result = None
          /\ \A c \in 0 .. i - 1 : mem[LinkAddr(c)] = c + 1

Nothing ==
    /\ asked = None /\ held = {} /\ i = 0 /\ ptr = 0
    /\ DOMAIN mem = {}
    /\ result \in {None, EINVAL}

WordsInv ==
    /\ base \in Bases
    /\ hpd = None => Nothing
    /\ hpd # None => Created

(* Where everything is, while there is a pool.                             *)
LEMMA Geometry ==
    ASSUME WordsInv, hpd # None
    PROVE  /\ hpd.nrel = nrel(asked) /\ hpd.nrel \in Nat /\ hpd.szel = asked.size /\ asked.size \in Nat
           /\ hpd.szck = szck(asked) /\ hpd.szck \in Nat \ {0} /\ base \in Nat
           /\ hpd.offfirstelem = firstelem(asked, base) - base /\ hpd.allocsize = allocsize(asked)
           /\ firstelem(asked, base) \in Nat
           /\ \A c \in Nat : Chunk(c) = firstelem(asked, base) + c * szck(asked)
<1>1. /\ asked \in Accepted /\ base \in Bases
      /\ hpd = descriptor(asked, base, hpd.nralloc, hpd.firstfree)
  BY DEF WordsInv, Created
<1>2. /\ hpd.nrel = nrel(asked) /\ hpd.szel = asked.size
      /\ hpd.szck = szck(asked)
      /\ hpd.offfirstelem = firstelem(asked, base) - base /\ hpd.allocsize = allocsize(asked)
  BY <1>1 DEF descriptor, szck
<1>3. /\ nrel(asked) \in Nat /\ asked.size \in Nat /\ szck(asked) \in Nat
      /\ firstelem(asked, base) \in Nat /\ base \in Nat
  BY <1>1, RequestSizes, Room, Layout, SizesAssumption
<1>4. szck(asked) # 0
  <2>1. /\ holesize(asked) \in Nat /\ holesize(asked) >= Word /\ Word \in Nat \ {0}
        /\ asked.size \in Nat
    BY <1>1, RequestSizes, SizesAssumption
  <2> QED
    BY <2>1 DEF szck
<1>5. \A c \in Nat : Chunk(c) = firstelem(asked, base) + c * szck(asked)
  <2> SUFFICES ASSUME NEW c \in Nat PROVE Chunk(c) = firstelem(asked, base) + c * szck(asked)
    OBVIOUS
  <2>1. Chunk(c) = base + (firstelem(asked, base) - base) + c * szck(asked)
    BY <1>2 DEF Chunk, HEAP_POOL_GET_NTH_CHUNK
  <2>2. c * szck(asked) \in Nat
    BY <1>3
  <2> QED
    BY <1>3, <2>1, <2>2
<1> QED
  BY <1>2, <1>3, <1>4, <1>5

LEMMA WordsClear ==
    ASSUME WordsInv, hpd # None, NEW c \in Chunks, NEW d \in Chunks
    PROVE  /\ LinkAddr(c) \in Int /\ Chunk(c) \in Int /\ Mark(c) \in Int
           /\ Clear(LinkAddr(c), Mark(d)) /\ LinkAddr(c) # Mark(d)
           /\ LinkAddr(c) + Word <= Chunk(d)
           /\ c # d => Clear(LinkAddr(c), LinkAddr(d)) /\ LinkAddr(c) # LinkAddr(d)
           /\ c # d => Clear(Mark(c), Mark(d)) /\ Mark(c) # Mark(d)
           /\ Chunk(c) + hpd.szel <= Mark(d) \/ Mark(d) + Word <= Chunk(c)
           /\ ChunkOf(Chunk(c)) = c
           /\ Chunk(c) = Chunk(d) => c = d
<1>1. /\ hpd.nrel \in Nat /\ hpd.szel \in Nat
      /\ hpd.szck = szck(asked) /\ hpd.szck \in Nat \ {0} /\ base \in Nat
      /\ firstelem(asked, base) \in Nat
      /\ hpd.offfirstelem = firstelem(asked, base) - base
      /\ Word \in Nat \ {0} /\ Desc \in Nat
      /\ \A m \in Nat : Chunk(m) = firstelem(asked, base) + m * szck(asked)
  BY Geometry, SizesAssumption
<1>2. c \in Nat /\ d \in Nat
  BY <1>1 DEF Chunks
<1>3. hpd.szck >= Word + hpd.szel
  <2>1. /\ holesize(asked) \in Nat /\ holesize(asked) >= Word /\ asked.size \in Nat
    BY RequestSizes DEF WordsInv, Created
  <2>2. hpd.szel = asked.size /\ hpd.szck = holesize(asked) + asked.size
    BY Geometry DEF szck
  <2> QED
    BY <1>1, <2>1, <2>2
<1>4. base + Desc + Word * hpd.nrel + Word <= firstelem(asked, base)
  <2>1. asked \in Accepted /\ base \in Bases
    BY DEF WordsInv, Created
  <2> QED
    BY <2>1, Layout, Geometry
<1>5. PICK n \in Nat, S \in Nat \ {0}, f \in Nat, sz \in Nat, W \in Nat \ {0}, D \in Nat, b \in Nat :
          /\ n = hpd.nrel /\ S = hpd.szck /\ f = firstelem(asked, base) /\ sz = hpd.szel
          /\ W = Word /\ D = Desc /\ b = base
  BY <1>1
<1>6. /\ LinkAddr(c) = (b + D) + W * c /\ LinkAddr(d) = (b + D) + W * d
      /\ Chunk(c) = f + c * S /\ Chunk(d) = f + d * S
      /\ Mark(c) = (f + c * S) - W /\ Mark(d) = (f + d * S) - W
  BY <1>1, <1>2, <1>5 DEF LinkAddr, raw, Mark
<1>7. /\ S >= W + sz /\ W > 0 /\ b + D + W * n + W <= f
      /\ c \in 0 .. n - 1 /\ d \in 0 .. n - 1
  BY <1>3, <1>4, <1>5 DEF Chunks
<1>8. /\ (b + D) + W * c \in Nat /\ f + c * S \in Nat /\ (b + D) + W * d \in Nat /\ f + d * S \in Nat
      /\ ((b + D) + W * c) + W <= (f + d * S) - W
      /\ c # d => \/ ((b + D) + W * c) + W <= (b + D) + W * d
                  \/ ((b + D) + W * d) + W <= (b + D) + W * c
      /\ c # d => \/ ((f + c * S) - W) + W <= (f + d * S) - W
                  \/ ((f + d * S) - W) + W <= (f + c * S) - W
      /\ \/ (f + c * S) + sz <= (f + d * S) - W
         \/ ((f + d * S) - W) + W <= f + c * S
  BY <1>7, WordsApart
<1>9. PICK lc \in Nat, ld \in Nat, cc \in Nat, cd \in Nat :
          lc = LinkAddr(c) /\ ld = LinkAddr(d) /\ cc = Chunk(c) /\ cd = Chunk(d)
  BY <1>6, <1>8
<1>10. /\ Mark(c) = cc - W /\ Mark(d) = cd - W
       /\ lc + W <= cd - W
       /\ c # d => (lc + W <= ld \/ ld + W <= lc)
       /\ c # d => ((cc - W) + W <= cd - W \/ (cd - W) + W <= cc - W)
       /\ cc + sz <= cd - W \/ (cd - W) + W <= cc
  BY <1>6, <1>8, <1>9
<1>11. /\ LinkAddr(c) \in Int /\ Chunk(c) \in Int /\ Mark(c) \in Int
       /\ Clear(LinkAddr(c), Mark(d)) /\ LinkAddr(c) # Mark(d)
       /\ LinkAddr(c) + Word <= Chunk(d)
       /\ c # d => Clear(LinkAddr(c), LinkAddr(d)) /\ LinkAddr(c) # LinkAddr(d)
       /\ c # d => Clear(Mark(c), Mark(d)) /\ Mark(c) # Mark(d)
       /\ Chunk(c) + hpd.szel <= Mark(d) \/ Mark(d) + Word <= Chunk(c)
  BY <1>5, <1>9, <1>10 DEF Clear
<1>12. ChunkOf(Chunk(c)) = c
  <2>1. Chunk(c) - base - hpd.offfirstelem = c * S
    <3>1. c * S \in Nat
      BY <1>2
    <3> QED
      BY <1>1, <1>5, <1>6, <3>1
  <2>2. ChunkOf(Chunk(c)) = (c * S) \div S
    BY <1>5, <2>1 DEF ChunkOf
  <2> QED
    BY <1>2, <2>2, Whole
<1>13. Chunk(c) = Chunk(d) => c = d
  BY <1>9, <1>10
<1> QED
  BY <1>11, <1>12, <1>13

----------------------------------------------------------------------------
(* What is known of HeapPool, of the pool that the words stand for.        *)

PoolProofs == INSTANCE HeapPoolProofs WITH
    hpd_nrel <- pool_nrel, hpd_nralloc <- pool_nralloc, hpd_firstfree <- pool_firstfree,
    array_index <- pool_index, held <- pool_held, result <- pool_result

PoolInv == PoolProofs!IInv

LEMMA PoolInvInit == Pool!Init => PoolInv
<1>1. Pool!Init => PoolProofs!Init
  BY DEF Pool!Init, PoolProofs!Init
<1> QED
  BY <1>1, PoolProofs!IInvInit, SizesAssumption, ValuesAssumption DEF PoolInv

LEMMA PoolInvNext == PoolInv /\ [Pool!Next]_(Pool!vars) => PoolInv'
<1>1. Pool!Next => PoolProofs!Next
  BY DEF Pool!Next, Pool!heap_pool_create, Pool!heap_pool_alloc, Pool!heap_pool_alloc_fails,
         Pool!heap_pool_free, Pool!heap_pool_destroy, Pool!nb_free, Pool!Links,
         PoolProofs!Next, PoolProofs!heap_pool_create, PoolProofs!heap_pool_alloc,
         PoolProofs!heap_pool_alloc_fails, PoolProofs!heap_pool_free,
         PoolProofs!heap_pool_destroy, PoolProofs!nb_free, PoolProofs!Links
<1>2. UNCHANGED Pool!vars => UNCHANGED PoolProofs!vars
  BY DEF Pool!vars, PoolProofs!vars
<1> QED
  BY <1>1, <1>2, PoolProofs!IInvStep, SizesAssumption, ValuesAssumption DEF PoolInv

LEMMA PoolFacts ==
    ASSUME WordsInv, Ready, PoolInv
    PROVE  /\ pool_nrel = hpd.nrel /\ pool_nralloc = hpd.nralloc /\ pool_firstfree = hpd.firstfree
           /\ pool_index = [c \in Chunks |-> Load(LinkAddr(c))]
           /\ pool_held = {ChunkOf(a) : a \in held}
           /\ hpd.nralloc \in 0 .. hpd.nrel
           /\ hpd.nrel - hpd.nralloc # 0 => hpd.firstfree \in Chunks
           /\ held # {} => hpd.nralloc # 0
<1>1. /\ pool_nrel = hpd.nrel /\ pool_nralloc = hpd.nralloc /\ pool_firstfree = hpd.firstfree
      /\ pool_index = [c \in Chunks |-> Load(LinkAddr(c))]
      /\ pool_held = {ChunkOf(a) : a \in held}
  BY DEF pool_nrel, pool_nralloc, pool_firstfree, pool_index, pool_held
<1>2. hpd.nrel \in Nat /\ hpd.nrel # None
  BY Geometry, ValuesAssumption DEF Ready
<1>3. PoolProofs!nb_free = hpd.nrel - hpd.nralloc /\ PoolProofs!Chunks = Chunks
  BY <1>1, <1>2 DEF PoolProofs!nb_free, PoolProofs!Chunks, Chunks
<1>4. /\ pool_nralloc \in 0 .. pool_nrel
      /\ PoolProofs!nb_free # 0 => pool_firstfree \in PoolProofs!Chunks
      /\ pool_held # {} => pool_nralloc # 0
  BY <1>1, <1>2, PoolProofs!Counts, SizesAssumption, ValuesAssumption DEF PoolInv
<1>5. held # {} => pool_held # {}
  BY <1>1
<1> QED
  BY <1>1, <1>3, <1>4, <1>5

(* Until the loop is through there is no pool to HeapPool.                 *)
LEMMA NoPoolYet ==
    ASSUME ~ Ready, ~ Ready', (result = ENOMEM) <=> (result' = ENOMEM)
    PROVE  UNCHANGED Pool!vars
<1>1. /\ pool_nrel = None /\ pool_nralloc = 0 /\ pool_firstfree = 0 /\ pool_held = {}
      /\ pool_index = [c \in {} |-> Load(LinkAddr(c))]
      /\ pool_result = IF result = ENOMEM THEN ENOMEM ELSE None
  BY DEF pool_nrel, pool_nralloc, pool_firstfree, pool_index, pool_held, pool_result
<1>2. /\ pool_nrel' = None /\ pool_nralloc' = 0 /\ pool_firstfree' = 0 /\ pool_held' = {}
      /\ pool_index' = [c \in {} |-> Load(LinkAddr(c))']
      /\ pool_result' = IF result' = ENOMEM THEN ENOMEM ELSE None
  BY DEF pool_nrel, pool_nralloc, pool_firstfree, pool_index, pool_held, pool_result
<1>3. pool_index' = pool_index
  BY <1>1, <1>2
<1> QED
  BY <1>1, <1>2, <1>3 DEF Pool!vars

(* The step that ends the loop is heap_pool_create to HeapPool.            *)
LEMMA PoolCreated ==
    ASSUME ~ Ready, Ready', NEW n \in 0 .. MaxNrel, hpd'.nrel = n, hpd'.nralloc = 0, hpd'.firstfree = 0,
           \A c \in 0 .. n - 1 : Load(LinkAddr(c))' = c + 1,
           held' = {}, result' = None
    PROVE  Pool!Next
<1>1. pool_nrel = None
  BY DEF pool_nrel
<1>2. pool_nrel' = n /\ pool_nralloc' = 0 /\ pool_firstfree' = 0 /\ pool_held' = {}
  BY DEF pool_nrel, pool_nralloc, pool_firstfree, pool_held
<1>3. pool_result' = None
  BY ValuesAssumption DEF pool_result
<1>4. pool_index' = [c \in 0 .. n - 1 |-> c + 1]
  BY DEF pool_index, Chunks
<1> QED
  BY <1>1, <1>2, <1>3, <1>4 DEF Pool!Next, Pool!heap_pool_create, Pool!Links

LEMMA CreateStep ==
    ASSUME WordsInv, NEW r \in Requests, NEW addr \in Bases, heap_pool_create(r, addr)
    PROVE  WordsInv' /\ [Pool!Next]_(Pool!vars)
<1>1. /\ hpd = None /\ r \in Accepted /\ asked' = r /\ base' = addr /\ hpd' = descriptor(r, addr, 0, 0)
      /\ i' = 0 /\ ptr' = firstelem(r, addr) /\ result' = None /\ mem' = mem /\ held' = held
  BY DEF heap_pool_create, Accepted, layout
<1>2. Nothing
  BY <1>1 DEF WordsInv
<1>3. nrel(r) \in Nat /\ nrel(r) <= MaxNrel /\ MaxNrel \in Nat
  BY <1>1, Room, RequestsAssumption, SizesAssumption
<1>4. hpd'.nrel = nrel(r) /\ hpd'.nralloc = 0 /\ hpd'.firstfree = 0
  BY <1>1 DEF descriptor
<1>5. hpd' # None
  BY <1>1, <1>3, ValuesAssumption
<1>6. firstelem(r, addr) = firstelem(r, addr) + 0 * szck(r)
  BY <1>1, Layout
<1>7. Created'
  BY <1>1, <1>2, <1>3, <1>4, <1>6 DEF Created, Nothing, Linked
<1>8. ~ Ready
  BY <1>1 DEF Ready
<1>9. CASE nrel(r) = 0
  <2>1. Ready'
    BY <1>1, <1>4, <1>5, <1>9 DEF Ready
  <2>2. \A c \in 0 .. 0 - 1 : Load(LinkAddr(c))' = c + 1
    OBVIOUS
  <2>3. 0 \in 0 .. MaxNrel /\ hpd'.nrel = 0 /\ held' = {}
    BY <1>1, <1>2, <1>3, <1>4, <1>9 DEF Nothing
  <2>4. Pool!Next
    BY <1>1, <1>4, <1>8, <2>1, <2>2, <2>3, PoolCreated
  <2> QED
    BY <1>1, <1>5, <1>7, <2>4 DEF WordsInv
<1>10. CASE nrel(r) # 0
  <2>1. ~ Ready'
    BY <1>1, <1>3, <1>4, <1>10 DEF Ready
  <2>2. result # ENOMEM /\ result' # ENOMEM
    BY <1>1, <1>2, ValuesAssumption DEF Nothing
  <2> QED
    BY <1>1, <1>5, <1>7, <1>8, <2>1, <2>2, NoPoolYet DEF WordsInv
<1> QED
  BY <1>9, <1>10

LEMMA InitChunkStep ==
    ASSUME WordsInv, init_chunk
    PROVE  WordsInv' /\ [Pool!Next]_(Pool!vars)
<1>1. /\ hpd # None /\ i < hpd.nrel /\ asked' = asked /\ base' = base /\ hpd' = hpd
      /\ held' = held /\ result' = result /\ i' = i + 1
      /\ ptr' = ptr + hpd.szel + holesize(asked)
      /\ mem' = Store(Store(mem, LinkAddr(i), i + 1), ptr - Word, i)
  BY DEF init_chunk
<1>2. Created
  BY <1>1 DEF WordsInv
<1>3. /\ hpd.nrel \in Nat /\ i \in Nat /\ i \in Chunks /\ asked \in Accepted
      /\ hpd.szel = asked.size /\ hpd.szel \in Nat
      /\ firstelem(asked, base) \in Nat /\ szck(asked) \in Nat /\ holesize(asked) \in Nat
  BY <1>1, <1>2, Geometry, RequestSizes DEF Created, Chunks
<1>4. ptr - Word = Mark(i)
  BY <1>1, <1>2, <1>3, Geometry DEF Created, Mark
<1>5. \A c : Chunk(c)' = Chunk(c) /\ Mark(c)' = Mark(c) /\ LinkAddr(c)' = LinkAddr(c)
  BY <1>1 DEF Chunk, Mark, LinkAddr, HEAP_POOL_GET_NTH_CHUNK, raw
<1> DEFINE m1 == Store(mem, LinkAddr(i), i + 1)
<1>6. mem' = Store(m1, Mark(i), i)
  BY <1>1, <1>4
<1>7. /\ LinkAddr(i) \in DOMAIN m1 /\ m1[LinkAddr(i)] = i + 1
      /\ \A x \in DOMAIN mem : x # LinkAddr(i) /\ Clear(x, LinkAddr(i)) => x \in DOMAIN m1 /\ m1[x] = mem[x]
      /\ \A x \in DOMAIN m1 : x # LinkAddr(i) => x \in DOMAIN mem /\ m1[x] = mem[x]
  BY StoreRight
<1> HIDE DEF m1
<1>8. /\ Mark(i) \in DOMAIN mem' /\ mem'[Mark(i)] = i
      /\ \A x \in DOMAIN m1 : x # Mark(i) /\ Clear(x, Mark(i)) => x \in DOMAIN mem' /\ mem'[x] = m1[x]
      /\ \A x \in DOMAIN mem' : x # Mark(i) => x \in DOMAIN m1 /\ mem'[x] = m1[x]
  BY <1>6, StoreRight
<1>9. \A c \in 0 .. i - 1 :
         /\ Mark(c) \in DOMAIN mem' /\ mem'[Mark(c)] = c
         /\ LinkAddr(c) \in DOMAIN mem' /\ mem'[LinkAddr(c)] = mem[LinkAddr(c)]
  <2> SUFFICES ASSUME NEW c \in 0 .. i - 1
               PROVE  /\ Mark(c) \in DOMAIN mem' /\ mem'[Mark(c)] = c
                      /\ LinkAddr(c) \in DOMAIN mem' /\ mem'[LinkAddr(c)] = mem[LinkAddr(c)]
    OBVIOUS
  <2>1. c \in Chunks /\ c # i
    BY <1>1, <1>3 DEF Chunks
  <2>2. /\ Mark(c) \in DOMAIN mem /\ mem[Mark(c)] = c /\ LinkAddr(c) \in DOMAIN mem
    BY <1>2 DEF Created, Linked
  <2>3. /\ Clear(LinkAddr(i), Mark(c)) /\ LinkAddr(i) # Mark(c)
        /\ Clear(LinkAddr(c), Mark(i)) /\ LinkAddr(c) # Mark(i)
        /\ Clear(LinkAddr(c), LinkAddr(i)) /\ LinkAddr(c) # LinkAddr(i)
        /\ Clear(Mark(c), Mark(i)) /\ Mark(c) # Mark(i)
    BY <1>1, <1>3, <2>1, WordsClear
  <2>4. Clear(Mark(c), LinkAddr(i))
    BY <2>3 DEF Clear
  <2> QED
    BY <1>7, <1>8, <2>2, <2>3, <2>4
<1>10. LinkAddr(i) \in DOMAIN mem' /\ mem'[LinkAddr(i)] = i + 1
  <2>1. Clear(LinkAddr(i), Mark(i)) /\ LinkAddr(i) # Mark(i)
    BY <1>1, <1>3, WordsClear
  <2> QED
    BY <1>7, <1>8, <2>1
<1>11. \A c \in 0 .. i' - 1 : c \in 0 .. i - 1 \/ c = i
  BY <1>1, <1>3
<1>12. Linked(i)'
  <2>1. \A c \in 0 .. i' - 1 :
            /\ Mark(c)' \in DOMAIN mem' /\ mem'[Mark(c)'] = c
            /\ LinkAddr(c)' \in DOMAIN mem'
    BY <1>5, <1>8, <1>9, <1>10, <1>11
  <2> QED
    BY <2>1 DEF Linked
<1>13. \A c \in 0 .. i' - 1 : mem'[LinkAddr(c)'] = c + 1
  BY <1>1, <1>2, <1>5, <1>9, <1>10, <1>11 DEF Created
<1>14. \A x \in DOMAIN mem' : mem'[x] \in 0 .. hpd.nrel
  <2>1. i \in 0 .. hpd.nrel /\ i + 1 \in 0 .. hpd.nrel
    BY <1>1, <1>3
  <2> QED
    BY <1>2, <1>7, <1>8, <2>1 DEF Created
<1>15. ptr' = firstelem(asked, base) + i' * szck(asked)
  <2>1. (i + 1) * szck(asked) = i * szck(asked) + szck(asked) /\ i * szck(asked) \in Nat
    BY <1>3
  <2>2. szck(asked) = holesize(asked) + hpd.szel
    BY <1>3 DEF szck
  <2>3. ptr = firstelem(asked, base) + i * szck(asked)
    BY <1>2 DEF Created
  <2> QED
    BY <1>1, <1>3, <2>1, <2>2, <2>3
<1>16. Created'
  <2>1. held' \subseteq {Chunk(c)' : c \in Chunks'} /\ i' \in 0 .. hpd'.nrel
    BY <1>1, <1>2, <1>3, <1>5 DEF Created, Chunks
  <2> QED
    BY <1>1, <1>2, <1>12, <1>13, <1>14, <1>15, <2>1 DEF Created
<1>17. WordsInv'
  BY <1>1, <1>16 DEF WordsInv
<1>18. ~ Ready
  BY <1>1, <1>3 DEF Ready
<1>19. CASE i + 1 = hpd.nrel
  <2>1. Ready'
    BY <1>1, <1>19 DEF Ready
  <2>2. hpd.nrel \in 0 .. MaxNrel
    BY <1>1, <1>3, Geometry, RequestsAssumption, SizesAssumption
  <2>3. ASSUME NEW c \in 0 .. hpd.nrel - 1 PROVE Load(LinkAddr(c))' = c + 1
    <3>1. Load(LinkAddr(c))' = IF LinkAddr(c)' \in DOMAIN mem' THEN mem'[LinkAddr(c)'] ELSE None
      BY DEF Load
    <3>2. c \in 0 .. i' - 1
      BY <1>1, <1>19
    <3>3. LinkAddr(c)' \in DOMAIN mem'
      BY <1>5, <1>9, <1>10, <1>11, <3>2
    <3> QED
      BY <1>13, <3>1, <3>2, <3>3
  <2>4. hpd'.nrel = hpd.nrel /\ hpd'.nralloc = 0 /\ hpd'.firstfree = 0 /\ held' = {} /\ result' = None
    BY <1>1, <1>2 DEF Created
  <2>5. Pool!Next
    BY <1>18, <2>1, <2>2, <2>3, <2>4, PoolCreated
  <2> QED
    BY <1>17, <2>5
<1>20. CASE i + 1 # hpd.nrel
  <2>1. ~ Ready'
    BY <1>1, <1>20 DEF Ready
  <2> QED
    BY <1>1, <1>17, <1>18, <2>1, NoPoolYet
<1> QED
  BY <1>19, <1>20

(* Steps of a pool that is in use.                                         *)

LEMMA SamePlaces ==
    ASSUME base' = base, hpd'.offfirstelem = hpd.offfirstelem, hpd'.szck = hpd.szck,
           hpd'.nrel = hpd.nrel
    PROVE  /\ \A c : Chunk(c)' = Chunk(c) /\ Mark(c)' = Mark(c) /\ LinkAddr(c)' = LinkAddr(c)
           /\ \A a : ChunkOf(a)' = ChunkOf(a)
           /\ Chunks' = Chunks
BY DEF Chunk, Mark, LinkAddr, HEAP_POOL_GET_NTH_CHUNK, raw, ChunkOf, Chunks

LEMMA ReadyFacts ==
    ASSUME WordsInv, Ready
    PROVE  /\ hpd # None /\ Created /\ i = hpd.nrel /\ hpd.nrel \in Nat
           /\ hpd.firstfree \in 0 .. hpd.nrel
           /\ \A c \in Chunks :
                 /\ Load(Mark(c)) = c /\ Mark(c) \in DOMAIN mem
                 /\ LinkAddr(c) \in DOMAIN mem /\ Load(LinkAddr(c)) = mem[LinkAddr(c)]
                 /\ Load(LinkAddr(c)) \in 0 .. hpd.nrel
           /\ \A a \in held : \E c \in Chunks : a = Chunk(c) /\ a \in Int
<1>1. hpd # None /\ Created /\ i = hpd.nrel /\ hpd.nrel \in Nat
  BY Geometry DEF Ready, WordsInv
<1>2. Linked(hpd.nrel) /\ hpd.firstfree \in 0 .. hpd.nrel
  BY <1>1 DEF Created
<1>3. \A c \in Chunks : /\ Load(Mark(c)) = c /\ Mark(c) \in DOMAIN mem
                        /\ LinkAddr(c) \in DOMAIN mem /\ Load(LinkAddr(c)) = mem[LinkAddr(c)]
  BY <1>2 DEF Linked, Load, Chunks
<1>4. \A c \in Chunks : Load(LinkAddr(c)) \in 0 .. hpd.nrel
  BY <1>1, <1>3 DEF Created
<1>5. \A a \in held : \E c \in Chunks : a = Chunk(c) /\ a \in Int
  BY <1>1, WordsClear DEF Created
<1> QED
  BY <1>1, <1>2, <1>3, <1>4, <1>5

Counted(d, k, first) == [d EXCEPT !.nralloc = k, !.firstfree = first]

LEMMA DescriptorCounted ==
    ASSUME NEW r, NEW addr, NEW k, NEW first, NEW k1, NEW first1,
           NEW d, d = descriptor(r, addr, k1, first1)
    PROVE  Counted(d, k, first) = descriptor(r, addr, k, first)
<1> DEFINE e == descriptor(r, addr, k, first1)
<1>1. Counted(d, k, first) = [[d EXCEPT !.nralloc = k] EXCEPT !.firstfree = first]
  BY DEF Counted
<1>2. [d EXCEPT !.nralloc = k] = e
  BY DEF descriptor
<1>3. [e EXCEPT !.firstfree = first] = descriptor(r, addr, k, first)
  BY DEF descriptor
<1> HIDE DEF e
<1> QED
  BY <1>1, <1>2, <1>3

(* A descriptor that differs in the counter and the first free chunk.      *)
LEMMA DescriptorKept ==
    ASSUME WordsInv, Ready, asked' = asked, base' = base, NEW k \in 0 .. hpd.nrel, NEW first \in 0 .. hpd.nrel,
           hpd' = [hpd EXCEPT !.nralloc = k, !.firstfree = first]
    PROVE  /\ hpd' = descriptor(asked, base, k, first) /\ hpd' # None
           /\ hpd'.nrel = hpd.nrel /\ hpd'.nralloc = k /\ hpd'.firstfree = first
           /\ hpd'.offfirstelem = hpd.offfirstelem /\ hpd'.szck = hpd.szck
           /\ hpd' = descriptor(asked', base', hpd'.nralloc, hpd'.firstfree)
<1>1. /\ hpd = descriptor(asked, base, hpd.nralloc, hpd.firstfree)
      /\ asked \in Accepted /\ base \in Bases /\ hpd.nrel = nrel(asked)
  BY ReadyFacts, Geometry DEF WordsInv, Created
<1>2. hpd' = descriptor(asked, base, k, first)
  <2>1. hpd' = Counted(hpd, k, first)
    BY DEF Counted
  <2> QED
    BY <1>1, <2>1, DescriptorCounted
<1>3. hpd' # None
  BY <1>1, <1>2, ValuesAssumption
<1>4. /\ hpd'.nrel = hpd.nrel /\ hpd'.nralloc = k /\ hpd'.firstfree = first
      /\ hpd'.offfirstelem = hpd.offfirstelem /\ hpd'.szck = hpd.szck
  BY <1>1, <1>2 DEF descriptor
<1> QED
  BY <1>2, <1>3, <1>4

LEMMA AllocStep ==
    ASSUME WordsInv, PoolInv, heap_pool_alloc
    PROVE  WordsInv' /\ Pool!Next
<1> DEFINE c == hpd.firstfree
<1>1. /\ Ready /\ hpd.nrel - hpd.nralloc # 0
      /\ hpd' = [hpd EXCEPT !.firstfree = Load(LinkAddr(c)), !.nralloc = @ + 1]
      /\ result' = Chunk(c) /\ held' = held \cup {Chunk(c)}
      /\ asked' = asked /\ base' = base /\ i' = i /\ ptr' = ptr /\ mem' = mem
  BY DEF heap_pool_alloc, heap_pool_nb_free, Chunk
<1>2. /\ pool_nrel = hpd.nrel /\ pool_nralloc = hpd.nralloc /\ pool_firstfree = c
      /\ pool_index = [d \in Chunks |-> Load(LinkAddr(d))]
      /\ pool_held = {ChunkOf(a) : a \in held}
      /\ hpd.nralloc \in 0 .. hpd.nrel /\ c \in Chunks
  BY <1>1, PoolFacts
<1>3. /\ hpd # None /\ Created /\ i = hpd.nrel /\ hpd.nrel \in Nat
      /\ Load(LinkAddr(c)) \in 0 .. hpd.nrel
  BY <1>1, <1>2, ReadyFacts
<1>4. hpd.nralloc + 1 \in 0 .. hpd.nrel
  BY <1>1, <1>2, <1>3
<1>5. /\ hpd' # None
      /\ hpd'.nrel = hpd.nrel /\ hpd'.nralloc = hpd.nralloc + 1 /\ hpd'.firstfree = Load(LinkAddr(c))
      /\ hpd'.offfirstelem = hpd.offfirstelem /\ hpd'.szck = hpd.szck
      /\ hpd' = descriptor(asked', base', hpd'.nralloc, hpd'.firstfree)
  <2>1. hpd' = [hpd EXCEPT !.nralloc = hpd.nralloc + 1, !.firstfree = Load(LinkAddr(c))]
    BY <1>1
  <2> QED
    BY <1>1, <1>3, <1>4, <2>1, DescriptorKept
<1>6. /\ \A d : Chunk(d)' = Chunk(d) /\ Mark(d)' = Mark(d) /\ LinkAddr(d)' = LinkAddr(d)
      /\ \A a : ChunkOf(a)' = ChunkOf(a)
      /\ Chunks' = Chunks
  BY <1>1, <1>5, SamePlaces
<1>7. Linked(i)'
  BY <1>1, <1>3, <1>6 DEF Created, Linked
<1>8. Created'
  <2>1. held' \subseteq {Chunk(d)' : d \in Chunks'}
    BY <1>1, <1>2, <1>3, <1>6 DEF Created
  <2>2. ~ (i' < hpd'.nrel)
    BY <1>1, <1>3, <1>5
  <2> QED
    BY <1>1, <1>3, <1>5, <1>7, <2>1, <2>2 DEF Created
<1>9. WordsInv'
  BY <1>1, <1>5, <1>8 DEF WordsInv
<1>10. Ready'
  BY <1>1, <1>3, <1>5 DEF Ready
<1>11. ChunkOf(Chunk(c)) = c /\ Chunk(c) \in Int
  BY <1>2, <1>3, WordsClear
<1>12. /\ pool_nrel' = pool_nrel /\ pool_nralloc' = pool_nralloc + 1
       /\ pool_firstfree' = Load(LinkAddr(c))
  BY <1>2, <1>5, <1>10 DEF pool_nrel, pool_nralloc, pool_firstfree
<1>13. pool_index' = pool_index
  <2>1. pool_index' = [d \in Chunks' |-> Load(LinkAddr(d))']
    BY <1>10 DEF pool_index
  <2>2. \A d : Load(LinkAddr(d))' = Load(LinkAddr(d))
    BY <1>1, <1>6 DEF Load
  <2> QED
    BY <1>2, <1>6, <2>1, <2>2
<1>14. pool_held' = pool_held \cup {c}
  <2>1. pool_held' = {ChunkOf(a)' : a \in held'}
    BY <1>10 DEF pool_held
  <2> QED
    BY <1>1, <1>2, <1>6, <1>11, <2>1
<1>15. pool_result' = c
  BY <1>1, <1>6, <1>10, <1>11 DEF pool_result
<1>16. Load(LinkAddr(c)) = pool_index[c]
  BY <1>2
<1>17. pool_nrel # None
  BY <1>2, <1>3, ValuesAssumption
<1> QED
  BY <1>1, <1>2, <1>9, <1>12, <1>13, <1>14, <1>15, <1>16, <1>17
  DEF Pool!Next, Pool!heap_pool_alloc, Pool!nb_free

LEMMA FreeStep ==
    ASSUME WordsInv, PoolInv, NEW addr \in held, heap_pool_free(addr)
    PROVE  WordsInv' /\ Pool!Next
<1>1. Ready
  BY DEF heap_pool_free
<1>2. PICK c \in Chunks : addr = Chunk(c) /\ addr \in Int
  BY <1>1, ReadyFacts
<1>3. /\ hpd # None /\ Created /\ i = hpd.nrel /\ hpd.nrel \in Nat /\ hpd.firstfree \in 0 .. hpd.nrel
      /\ Load(Mark(c)) = c /\ Mark(c) = addr - Word
  BY <1>1, <1>2, ReadyFacts DEF Mark
<1>4. /\ hpd' = [hpd EXCEPT !.firstfree = c, !.nralloc = @ - 1]
      /\ mem' = Store(mem, LinkAddr(c), hpd.firstfree)
      /\ result' = None /\ held' = held \ {addr}
      /\ asked' = asked /\ base' = base /\ i' = i /\ ptr' = ptr
  BY <1>3 DEF heap_pool_free
<1>5. /\ pool_nrel = hpd.nrel /\ pool_nralloc = hpd.nralloc /\ pool_firstfree = hpd.firstfree
      /\ pool_index = [d \in Chunks |-> Load(LinkAddr(d))]
      /\ pool_held = {ChunkOf(a) : a \in held}
      /\ hpd.nralloc \in 0 .. hpd.nrel /\ hpd.nralloc # 0
  BY <1>1, PoolFacts
<1>6. hpd.nralloc - 1 \in 0 .. hpd.nrel /\ c \in 0 .. hpd.nrel
  BY <1>2, <1>3, <1>5 DEF Chunks
<1>7. /\ hpd' # None
      /\ hpd'.nrel = hpd.nrel /\ hpd'.nralloc = hpd.nralloc - 1 /\ hpd'.firstfree = c
      /\ hpd'.offfirstelem = hpd.offfirstelem /\ hpd'.szck = hpd.szck
      /\ hpd' = descriptor(asked', base', hpd'.nralloc, hpd'.firstfree)
  <2>1. hpd' = [hpd EXCEPT !.nralloc = hpd.nralloc - 1, !.firstfree = c]
    BY <1>4
  <2> QED
    BY <1>1, <1>4, <1>6, <2>1, DescriptorKept
<1>8. /\ \A d : Chunk(d)' = Chunk(d) /\ Mark(d)' = Mark(d) /\ LinkAddr(d)' = LinkAddr(d)
      /\ \A a : ChunkOf(a)' = ChunkOf(a)
      /\ Chunks' = Chunks
  BY <1>4, <1>7, SamePlaces
<1>9. /\ LinkAddr(c) \in DOMAIN mem' /\ mem'[LinkAddr(c)] = hpd.firstfree
      /\ \A x \in DOMAIN mem : x # LinkAddr(c) /\ Clear(x, LinkAddr(c)) => x \in DOMAIN mem' /\ mem'[x] = mem[x]
      /\ \A x \in DOMAIN mem' : x # LinkAddr(c) => x \in DOMAIN mem /\ mem'[x] = mem[x]
  BY <1>4, StoreRight
<1>10. ASSUME NEW d \in Chunks
       PROVE  /\ Mark(d) \in DOMAIN mem' /\ mem'[Mark(d)] = d
              /\ LinkAddr(d) \in DOMAIN mem'
              /\ d # c => mem'[LinkAddr(d)] = Load(LinkAddr(d))
  <2>1. /\ Mark(d) \in DOMAIN mem /\ mem[Mark(d)] = d
        /\ LinkAddr(d) \in DOMAIN mem /\ Load(LinkAddr(d)) = mem[LinkAddr(d)]
    BY <1>1, ReadyFacts DEF Load
  <2>2. /\ Clear(LinkAddr(c), Mark(d)) /\ LinkAddr(c) # Mark(d)
        /\ d # c => Clear(LinkAddr(d), LinkAddr(c)) /\ LinkAddr(d) # LinkAddr(c)
    BY <1>2, <1>3, WordsClear
  <2>3. Clear(Mark(d), LinkAddr(c))
    BY <2>2 DEF Clear
  <2> QED
    BY <1>9, <2>1, <2>2, <2>3
<1>11. Linked(i)'
  <2>1. \A d \in 0 .. i' - 1 :
            /\ Mark(d)' \in DOMAIN mem' /\ mem'[Mark(d)'] = d
            /\ LinkAddr(d)' \in DOMAIN mem'
    BY <1>3, <1>4, <1>8, <1>10 DEF Chunks
  <2> QED
    BY <2>1 DEF Linked
<1>12. Created'
  <2>1. held' \subseteq {Chunk(d)' : d \in Chunks'}
    BY <1>3, <1>4, <1>8 DEF Created
  <2>2. ~ (i' < hpd'.nrel)
    BY <1>3, <1>4, <1>7
  <2>3. \A x \in DOMAIN mem' : mem'[x] \in 0 .. hpd'.nrel
    BY <1>3, <1>7, <1>9 DEF Created
  <2> QED
    BY <1>3, <1>4, <1>6, <1>7, <1>11, <2>1, <2>2, <2>3 DEF Created
<1>13. WordsInv'
  BY <1>4, <1>7, <1>12 DEF WordsInv
<1>14. Ready'
  BY <1>3, <1>4, <1>7 DEF Ready
<1>15. /\ pool_nrel' = pool_nrel /\ pool_nralloc' = pool_nralloc - 1
       /\ pool_firstfree' = c
  BY <1>5, <1>7, <1>14 DEF pool_nrel, pool_nralloc, pool_firstfree
<1>16. pool_index' = [pool_index EXCEPT ![c] = hpd.firstfree]
  <2>1. pool_index' = [d \in Chunks' |-> Load(LinkAddr(d))']
    BY <1>14 DEF pool_index
  <2>2. \A d : Load(LinkAddr(d))' = IF LinkAddr(d) \in DOMAIN mem' THEN mem'[LinkAddr(d)] ELSE None
    BY <1>8 DEF Load
  <2>3. \A d \in Chunks : Load(LinkAddr(d))' = IF d = c THEN hpd.firstfree ELSE Load(LinkAddr(d))
    BY <1>9, <1>10, <2>2
  <2> QED
    BY <1>2, <1>5, <1>8, <2>1, <2>3
<1>17. ChunkOf(addr) = c /\ c \in pool_held
  BY <1>2, <1>3, <1>5, WordsClear
<1>18. \A a \in held : ChunkOf(a) = c => a = addr
  <2> SUFFICES ASSUME NEW a \in held, ChunkOf(a) = c PROVE a = addr
    OBVIOUS
  <2>1. PICK d \in Chunks : a = Chunk(d)
    BY <1>1, ReadyFacts
  <2>2. ChunkOf(a) = d
    BY <1>3, <2>1, WordsClear
  <2> QED
    BY <1>2, <2>1, <2>2
<1>19. pool_held' = pool_held \ {c}
  <2>1. pool_held' = {ChunkOf(a)' : a \in held'}
    BY <1>14 DEF pool_held
  <2>2. pool_held' = {ChunkOf(a) : a \in held \ {addr}}
    BY <1>4, <1>8, <2>1
  <2> QED
    BY <1>5, <1>17, <1>18, <2>2
<1>20. pool_result' = None
  BY <1>4, ValuesAssumption DEF pool_result
<1> QED
  BY <1>5, <1>13, <1>15, <1>16, <1>17, <1>19, <1>20 DEF Pool!Next, Pool!heap_pool_free

LEMMA FillStep ==
    ASSUME WordsInv, NEW addr \in held, client_fill(addr)
    PROVE  WordsInv' /\ UNCHANGED Pool!vars
<1>1. /\ Ready /\ mem' = Spoil(mem, addr, hpd.szel)
      /\ hpd' = hpd /\ result' = result /\ held' = held
      /\ asked' = asked /\ base' = base /\ i' = i /\ ptr' = ptr
  BY DEF client_fill
<1>2. PICK c \in Chunks : addr = Chunk(c)
  BY <1>1, ReadyFacts
<1>3. hpd # None /\ Created /\ i = hpd.nrel /\ hpd.nrel \in Nat
  BY <1>1, ReadyFacts
<1>4. /\ \A d : Chunk(d)' = Chunk(d) /\ Mark(d)' = Mark(d) /\ LinkAddr(d)' = LinkAddr(d)
      /\ \A a : ChunkOf(a)' = ChunkOf(a)
      /\ Chunks' = Chunks
  BY <1>1, SamePlaces
<1>5. ASSUME NEW d \in Chunks
      PROVE  /\ Mark(d) \in DOMAIN mem' /\ mem'[Mark(d)] = d
             /\ LinkAddr(d) \in DOMAIN mem' /\ mem'[LinkAddr(d)] = Load(LinkAddr(d))
  <2>1. /\ Mark(d) \in DOMAIN mem /\ mem[Mark(d)] = d
        /\ LinkAddr(d) \in DOMAIN mem /\ Load(LinkAddr(d)) = mem[LinkAddr(d)]
    BY <1>1, ReadyFacts DEF Load
  <2>2. /\ LinkAddr(d) + Word <= Chunk(c)
        /\ Chunk(c) + hpd.szel <= Mark(d) \/ Mark(d) + Word <= Chunk(c)
    BY <1>2, <1>3, WordsClear
  <2> QED
    BY <1>1, <1>2, <2>1, <2>2, SpoilRight
<1>6. \A x \in DOMAIN mem' : mem'[x] \in 0 .. hpd'.nrel
  BY <1>1, <1>3, SpoilRight DEF Created
<1>7. Linked(i)'
  <2>1. \A d \in 0 .. i' - 1 :
            /\ Mark(d)' \in DOMAIN mem' /\ mem'[Mark(d)'] = d
            /\ LinkAddr(d)' \in DOMAIN mem'
    BY <1>1, <1>3, <1>4, <1>5 DEF Chunks
  <2> QED
    BY <2>1 DEF Linked
<1>8. Created'
  <2>1. held' \subseteq {Chunk(d)' : d \in Chunks'}
    BY <1>1, <1>3, <1>4 DEF Created
  <2>2. ~ (i' < hpd'.nrel)
    BY <1>1, <1>3
  <2> QED
    BY <1>1, <1>3, <1>6, <1>7, <2>1, <2>2 DEF Created
<1>9. WordsInv'
  BY <1>1, <1>3, <1>8 DEF WordsInv
<1>10. Ready'
  BY <1>1 DEF Ready
<1>11. pool_index' = pool_index
  <2>1. pool_index' = [d \in Chunks' |-> Load(LinkAddr(d))'] /\ pool_index = [d \in Chunks |-> Load(LinkAddr(d))]
    BY <1>1, <1>10 DEF pool_index
  <2>2. \A d : Load(LinkAddr(d))' = IF LinkAddr(d) \in DOMAIN mem' THEN mem'[LinkAddr(d)] ELSE None
    BY <1>4 DEF Load
  <2>3. \A d \in Chunks : Load(LinkAddr(d))' = Load(LinkAddr(d))
    BY <1>5, <2>2
  <2> QED
    BY <1>4, <2>1, <2>3
<1>12. pool_held' = pool_held
  <2>1. pool_held' = {ChunkOf(a)' : a \in held'} /\ pool_held = {ChunkOf(a) : a \in held}
    BY <1>1, <1>10 DEF pool_held
  <2> QED
    BY <1>1, <1>4, <2>1
<1>13. /\ pool_nrel' = pool_nrel /\ pool_nralloc' = pool_nralloc /\ pool_firstfree' = pool_firstfree
       /\ pool_result' = pool_result
  BY <1>1, <1>4, <1>10 DEF pool_nrel, pool_nralloc, pool_firstfree, pool_result
<1> QED
  BY <1>9, <1>11, <1>12, <1>13 DEF Pool!vars

(* Steps that leave the words alone.                                       *)

LEMMA ErrorStep ==
    ASSUME WordsInv, heap_pool_alloc_enomem
    PROVE  WordsInv' /\ Pool!Next
<1>1. /\ Ready /\ hpd.nrel - hpd.nralloc = 0 /\ result' = ENOMEM
      /\ UNCHANGED <<asked, base, hpd, i, ptr, mem, held>>
  BY DEF heap_pool_alloc_enomem, heap_pool_nb_free
<1>2. hpd # None /\ Created /\ i = hpd.nrel /\ hpd.nrel \in Nat
  BY <1>1, ReadyFacts
<1>3. \A d : Mark(d)' = Mark(d) /\ LinkAddr(d)' = LinkAddr(d) /\ Chunk(d)' = Chunk(d)
  BY <1>1, SamePlaces
<1>4. Created'
  <2>1. ~ (i' < hpd'.nrel)
    BY <1>1, <1>2
  <2>2. Linked(i)' /\ held' \subseteq {Chunk(d)' : d \in Chunks'}
    BY <1>1, <1>2, <1>3 DEF Created, Linked, Chunks
  <2> QED
    BY <1>1, <1>2, <2>1, <2>2 DEF Created
<1>5. Ready' /\ pool_result' = ENOMEM
  BY <1>1, ValuesAssumption DEF Ready, pool_result
<1>6. /\ pool_nrel' = pool_nrel /\ pool_nralloc' = pool_nralloc /\ pool_firstfree' = pool_firstfree
      /\ pool_index' = pool_index /\ pool_held' = pool_held
  BY <1>1 DEF pool_nrel, pool_nralloc, pool_firstfree, pool_index, pool_held, Ready, Chunks, Load,
              LinkAddr, raw, ChunkOf
<1>7. pool_nrel # None /\ pool_nrel - pool_nralloc = 0
  BY <1>1, <1>2, ValuesAssumption DEF pool_nrel, pool_nralloc
<1> QED
  BY <1>1, <1>2, <1>4, <1>5, <1>6, <1>7 DEF WordsInv, Pool!Next, Pool!heap_pool_alloc_fails, Pool!nb_free

LEMMA EinvalStep ==
    ASSUME WordsInv, NEW r \in Requests, heap_pool_create_einval(r)
    PROVE  WordsInv' /\ UNCHANGED Pool!vars
<1>1. /\ hpd = None /\ result' = EINVAL /\ UNCHANGED <<asked, base, hpd, i, ptr, mem, held>>
  BY DEF heap_pool_create_einval
<1>2. Nothing /\ base \in Bases
  BY <1>1 DEF WordsInv
<1>3. WordsInv'
  BY <1>1, <1>2 DEF WordsInv, Nothing
<1>4. ~ Ready /\ ~ Ready' /\ result # ENOMEM /\ result' # ENOMEM
  BY <1>1, <1>2, ValuesAssumption DEF Ready, Nothing
<1> QED
  BY <1>3, <1>4, NoPoolYet

LEMMA DestroyStep ==
    ASSUME WordsInv, heap_pool_destroy
    PROVE  WordsInv' /\ Pool!Next
<1>1. /\ Ready /\ asked' = None /\ hpd' = None /\ i' = 0 /\ ptr' = 0 /\ held' = {} /\ result' = None
      /\ base' = base /\ mem' = [a \in {} |-> 0]
  BY DEF heap_pool_destroy
<1>2. hpd.nrel \in Nat /\ hpd # None
  BY <1>1, ReadyFacts
<1>3. WordsInv'
  BY <1>1 DEF WordsInv, Nothing
<1>4. ~ Ready' /\ pool_nrel # None
  BY <1>1, <1>2, ValuesAssumption DEF Ready, pool_nrel
<1>5. /\ pool_nrel' = None /\ pool_nralloc' = 0 /\ pool_firstfree' = 0 /\ pool_held' = {}
      /\ pool_result' = None
  BY <1>1, <1>4, ValuesAssumption DEF pool_nrel, pool_nralloc, pool_firstfree, pool_held, pool_result
<1>6. pool_index' = [c \in {} |-> 0]
  <2>1. pool_index' = [c \in {} |-> Load(LinkAddr(c))']
    BY <1>4 DEF pool_index
  <2> QED
    BY <2>1
<1> QED
  BY <1>3, <1>4, <1>5, <1>6 DEF Pool!Next, Pool!heap_pool_destroy

LEMMA InitStep == Init => WordsInv /\ Pool!Init
<1> SUFFICES ASSUME Init PROVE WordsInv /\ Pool!Init
  OBVIOUS
<1>1. WordsInv
  BY DEF Init, WordsInv, Nothing
<1>2. ~ Ready /\ result # ENOMEM
  BY ValuesAssumption DEF Init, Ready
<1>3. /\ pool_nrel = None /\ pool_nralloc = 0 /\ pool_firstfree = 0 /\ pool_held = {}
      /\ pool_result = None /\ pool_index = [c \in {} |-> Load(LinkAddr(c))]
  BY <1>2 DEF pool_nrel, pool_nralloc, pool_firstfree, pool_held, pool_result, pool_index
<1>4. pool_index = [c \in {} |-> 0]
  BY <1>3
<1> QED
  BY <1>1, <1>3, <1>4 DEF Pool!Init

(* The inductive invariant: the words say what they should, and the pool   *)
(* they stand for is one that HeapPool allows.                             *)
LayoutInv == WordsInv /\ PoolInv

LEMMA LayoutStep == LayoutInv /\ [Next]_vars => LayoutInv' /\ [Pool!Next]_(Pool!vars)
<1> SUFFICES ASSUME LayoutInv, [Next]_vars PROVE LayoutInv' /\ [Pool!Next]_(Pool!vars)
  OBVIOUS
<1>1. WordsInv /\ PoolInv
  BY DEF LayoutInv
<1>2. WordsInv' /\ [Pool!Next]_(Pool!vars)
  <2>1. CASE UNCHANGED vars
    <3>1. UNCHANGED <<asked, base, hpd, i, ptr, mem, held, result>>
      BY <2>1 DEF vars
    <3>2. WordsInv'
      BY <1>1, <3>1 DEF WordsInv, Nothing, Created, Linked, Mark, Chunk, HEAP_POOL_GET_NTH_CHUNK,
                        LinkAddr, raw, Chunks
    <3>3. UNCHANGED Pool!vars
      BY <3>1 DEF Pool!vars, pool_nrel, pool_nralloc, pool_firstfree, pool_index, pool_held,
                  pool_result, Ready, Chunks, Load, LinkAddr, raw, ChunkOf
    <3> QED
      BY <3>2, <3>3
  <2>2. CASE \E r \in Requests, addr \in Bases : heap_pool_create(r, addr)
    BY <1>1, <2>2, CreateStep
  <2>3. CASE \E r \in Requests : heap_pool_create_einval(r)
    BY <1>1, <2>3, EinvalStep
  <2>4. CASE init_chunk
    BY <1>1, <2>4, InitChunkStep
  <2>5. CASE heap_pool_alloc
    BY <1>1, <2>5, AllocStep
  <2>6. CASE heap_pool_alloc_enomem
    BY <1>1, <2>6, ErrorStep
  <2>7. CASE \E addr \in held : heap_pool_free(addr)
    BY <1>1, <2>7, FreeStep
  <2>8. CASE \E addr \in held : client_fill(addr)
    BY <1>1, <2>8, FillStep
  <2>9. CASE heap_pool_destroy
    BY <1>1, <2>9, DestroyStep
  <2> QED
    BY <2>1, <2>2, <2>3, <2>4, <2>5, <2>6, <2>7, <2>8, <2>9 DEF Next
<1> QED
  BY <1>1, <1>2, PoolInvNext DEF LayoutInv

LEMMA LayoutInvariant == Spec => []LayoutInv
<1>1. Init => LayoutInv
  BY InitStep, PoolInvInit DEF LayoutInv
<1> QED
  BY <1>1, LayoutStep, PTL DEF Spec

----------------------------------------------------------------------------

LEMMA LayoutInvTypes == LayoutInv => TypeOK
<1> SUFFICES ASSUME LayoutInv PROVE TypeOK
  OBVIOUS
<1>1. WordsInv /\ PoolInv
  BY DEF LayoutInv
<1>2. CASE hpd = None
  BY <1>1, <1>2 DEF WordsInv, Nothing, TypeOK
<1>3. CASE hpd # None
  <2>1. Created /\ base \in Bases /\ hpd.nrel \in Nat
    BY <1>1, <1>3, Geometry DEF WordsInv
  <2>2. asked \in Requests /\ asked # None
    BY <2>1, ValuesAssumption DEF Created, Accepted
  <2>3. hpd.nralloc \in 0 .. hpd.nrel
    <3>1. CASE i < hpd.nrel
      BY <2>1, <3>1 DEF Created
    <3>2. CASE ~ (i < hpd.nrel)
      <4>1. Ready
        BY <1>3, <2>1, <3>2 DEF Ready, Created
      <4> QED
        BY <1>1, <4>1, PoolFacts
    <3> QED
      BY <3>1, <3>2
  <2> QED
    BY <1>3, <2>1, <2>2, <2>3 DEF TypeOK, Created, Chunk
<1> QED
  BY <1>2, <1>3

(* The counter and the first free chunk stay in range, the client holds    *)
(* chunks of the pool, and the words that are known are numbers of chunks. *)
THEOREM LayoutTypes == Spec => []TypeOK
BY LayoutInvTypes, LayoutInvariant, PTL

(* Every chunk is aligned as asked, inside the mapping and behind the      *)
(* array of links, and the word in front of it names it whatever the       *)
(* client stores, so that heap_pool_free finds the chunk again.            *)
THEOREM ChunksStayInPlace == Spec => []ChunksInPlace
<1>1. LayoutInv => ChunksInPlace
  <2> SUFFICES ASSUME LayoutInv PROVE ChunksInPlace
    OBVIOUS
  <2>1. WordsInv
    BY DEF LayoutInv
  <2>2. MarksHold
    BY <2>1, ReadyFacts DEF MarksHold, Mark, Chunk
  <2>3. ChunksAligned
    <3> SUFFICES ASSUME hpd # None, asked.align # 0, NEW c \in Chunks
                 PROVE  HEAP_POOL_GET_NTH_CHUNK(c) % asked.align = 0
      BY DEF ChunksAligned
    <3>1. asked \in Accepted /\ base \in Bases
      BY <2>1 DEF WordsInv, Created
    <3>2. /\ szck(asked) \in Nat /\ firstelem(asked, base) \in Nat /\ asked.align \in Nat
          /\ firstelem(asked, base) % asked.align = 0 /\ szck(asked) % asked.align = 0
      BY <3>1, Layout, RequestSizes
    <3>3. c \in Nat /\ HEAP_POOL_GET_NTH_CHUNK(c) = firstelem(asked, base) + c * szck(asked)
      BY <2>1, Geometry DEF Chunks, Chunk
    <3>4. PICK a \in Nat \ {0} : a = asked.align
      BY <3>2
    <3>5. PICK f \in Nat : f = firstelem(asked, base) /\ f % a = 0
      BY <3>2, <3>4
    <3>6. PICK S \in Nat : S = szck(asked) /\ S % a = 0
      BY <3>2, <3>4
    <3>7. PICK kf \in Int : f = kf * a
      <4>1. f \in Int
        BY <3>5
      <4> QED
        BY <3>5, <4>1, Divides
    <3>8. PICK ks \in Int : S = ks * a
      <4>1. S \in Int
        BY <3>6
      <4> QED
        BY <3>6, <4>1, Divides
    <3>9. f + c * S = (kf + c * ks) * a /\ kf + c * ks \in Int
      BY <3>3, <3>7, <3>8
    <3>10. ((kf + c * ks) * a) % a = 0
      BY <3>9, Whole
    <3> QED
      BY <3>3, <3>4, <3>5, <3>6, <3>9, <3>10
  <2>4. ChunksInBounds
    <3> SUFFICES ASSUME hpd # None, NEW c \in Chunks
                 PROVE  /\ HEAP_POOL_GET_NTH_CHUNK(c) - Word >= LinkAddr(hpd.nrel)
                        /\ HEAP_POOL_GET_NTH_CHUNK(c) + hpd.szel <= base + hpd.allocsize
      BY DEF ChunksInBounds
    <3>1. asked \in Accepted /\ base \in Bases
      BY <2>1 DEF WordsInv, Created
    <3>2. /\ hpd.nrel = nrel(asked) /\ hpd.nrel \in Nat /\ hpd.szel = asked.size /\ asked.size \in Nat
          /\ base \in Nat /\ hpd.allocsize = allocsize(asked) /\ firstelem(asked, base) \in Nat
      BY <2>1, Geometry
    <3>3. c \in Nat /\ HEAP_POOL_GET_NTH_CHUNK(c) = firstelem(asked, base) + c * szck(asked)
      BY <2>1, <3>2, Geometry DEF Chunks, Chunk
    <3>4. /\ szck(asked) \in Nat
          /\ base + Desc + Word * nrel(asked) + Word <= firstelem(asked, base)
          /\ firstelem(asked, base) + nrel(asked) * szck(asked) - holesize(asked) <= base + allocsize(asked)
      BY <3>1, Layout
    <3>5. /\ holesize(asked) \in Nat /\ allocsize(asked) \in Nat /\ Word \in Nat /\ Desc \in Nat
          /\ szck(asked) = holesize(asked) + asked.size
      BY <3>1, RequestSizes, Room, SizesAssumption DEF szck
    <3>6. PICK S \in Nat, f \in Nat, hole \in Nat, n \in Nat :
              /\ S = szck(asked) /\ f = firstelem(asked, base) /\ hole = holesize(asked) /\ n = hpd.nrel
      BY <3>2, <3>4, <3>5
    <3>7. c + 1 <= n
      BY <3>2, <3>6 DEF Chunks
    <3>8. c * S \in Nat /\ n * S \in Nat /\ c * S + S <= n * S
      <4>1. (c + 1) * S <= n * S
        BY <3>3, <3>7, TimesMonotone
      <4> QED
        BY <3>3, <4>1
    <3>9. HEAP_POOL_GET_NTH_CHUNK(c) - Word >= LinkAddr(hpd.nrel)
      <4>1. LinkAddr(hpd.nrel) = (base + Desc) + Word * n /\ Word * n \in Nat
        BY <3>5, <3>6 DEF LinkAddr, raw
      <4>2. base + Desc + Word * n + Word <= f
        BY <3>2, <3>4, <3>6
      <4> QED
        BY <3>2, <3>3, <3>5, <3>6, <3>8, <4>1, <4>2
    <3>10. HEAP_POOL_GET_NTH_CHUNK(c) + hpd.szel <= base + hpd.allocsize
      <4>1. f + n * S - hole <= base + hpd.allocsize /\ S = hole + hpd.szel
        BY <3>2, <3>4, <3>5, <3>6
      <4> QED
        BY <3>2, <3>3, <3>5, <3>6, <3>8, <4>1
    <3> QED
      BY <3>9, <3>10
  <2> QED
    BY <2>2, <2>3, <2>4 DEF ChunksInPlace
<1> QED
  BY <1>1, LayoutInvariant, PTL

(* Every step on the words is a step of the pool of HeapPool, or none: the *)
(* loop builds its free list, and clients never show.                      *)
THEOREM LayoutImplementsPool == Spec => ImplementsHeapPool
<1>1. Init => Pool!Init
  BY InitStep
<1> QED
  BY <1>1, LayoutStep, LayoutInvariant, PTL DEF Spec, ImplementsHeapPool, Pool!Spec
=============================================================================
