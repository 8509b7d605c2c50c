------------------------------- MODULE BusProofs -------------------------------
(* The bus for every layout of memory and devices: where the page tables of bus.c *)
(* put an address, which registers an access reaches, and that each operation of   *)
(* Bus is one of FlatMemory.                                                      *)
EXTENDS Bus, TLAPS

-----------------------------------------------------------------------------
(* Division, and products of page numbers.                                   *)

LEMMA Division ==
    ASSUME NEW a \in Nat, NEW m \in Nat \ {0}
    PROVE  /\ a \div m \in Nat /\ a % m \in 0 .. m - 1
           /\ a = (a \div m) * m + (a % m)
BY SMT

LEMMA Monotone ==
    ASSUME NEW a \in Nat, NEW b \in Nat, NEW m \in Nat, a < b
    PROVE  a * m + m <= b * m
<1>1. PICK c \in Nat : b = a + 1 + c
    BY SMT
<1>2. b * m = a * m + m + c * m /\ c * m \in Nat
    BY <1>1, SMT
<1> QED BY <1>2, SMT

\* A quotient and a remainder are the ones of the division.
LEMMA Unique ==
    ASSUME NEW m \in Nat \ {0}, NEW q \in Nat, NEW o \in 0 .. m - 1
    PROVE  (q * m + o) \div m = q /\ (q * m + o) % m = o
<1> DEFINE a == q * m + o
           d == a \div m
           e == a % m
<1>1. a \in Nat /\ q * m \in Nat
    BY SMT
<1> HIDE DEF a
<1>2. d \in Nat /\ e \in 0 .. m - 1 /\ a = d * m + e
    BY <1>1, Division
<1> HIDE DEF d, e
<1>3. d * m \in Nat /\ a = q * m + o
    BY <1>2, SMT DEF a
<1>4. ~(d < q)
    <2> SUFFICES ASSUME d < q PROVE FALSE
        OBVIOUS
    <2>1. d * m + m <= q * m
        BY <1>2, Monotone
    <2> QED BY <2>1, <1>1, <1>2, <1>3, SMT
<1>5. ~(q < d)
    <2> SUFFICES ASSUME q < d PROVE FALSE
        OBVIOUS
    <2>1. q * m + m <= d * m
        BY <1>2, Monotone
    <2> QED BY <2>1, <1>1, <1>2, <1>3, SMT
<1>6. d = q
    BY <1>2, <1>4, <1>5, SMT
<1>7. e = o
    BY <1>1, <1>2, <1>3, <1>6, SMT
<1> QED BY <1>6, <1>7 DEF d, e, a

LEMMA Small == \A m \in Nat \ {0} : \A o \in 0 .. m - 1 : o % m = o
<1> TAKE m \in Nat \ {0}
<1> TAKE o \in 0 .. m - 1
<1>1. 0 \in Nat /\ 0 * m + o = o
    BY SMT
<1> QED BY <1>1, Unique

-----------------------------------------------------------------------------
(* Where an address is.                                                      *)

LEMMA Sizes ==
    /\ PageSize \in Nat \ {0} /\ PageSize >= 4 /\ PageCount \in Nat \ {0}
    /\ RAM_SIZE \in Nat /\ EXP1_SIZE \in Nat /\ BIOS_SIZE \in Nat /\ PhysSize \in Nat \ {0}
    /\ SCRATCHPAD_SIZE \in Nat /\ SCRATCHPAD_SIZE >= 1
    /\ RAM_SIZE >= PageSize /\ EXP1_SIZE >= PageSize /\ BIOS_SIZE >= PageSize
<1>1. /\ PageSize \in Nat \ {0} /\ PageSize >= 4 /\ PageCount \in Nat \ {0}
      /\ SCRATCHPAD_SIZE \in Nat /\ SCRATCHPAD_SIZE >= 1
      /\ RamPages \in Nat \ {0} /\ Exp1Pages \in Nat \ {0} /\ BiosPages \in Nat \ {0}
    BY PageAssumption, SMT
<1>2. \A n \in Nat \ {0} : n * PageSize \in Nat /\ n * PageSize >= PageSize
    <2> TAKE n \in Nat \ {0}
    <2>1. 0 * PageSize + PageSize <= n * PageSize
        BY <1>1, Monotone, SMT
    <2> QED BY <1>1, <2>1, SMT
<1>3. RAM_SIZE >= PageSize /\ EXP1_SIZE >= PageSize /\ BIOS_SIZE >= PageSize /\ PhysSize >= PageSize
      /\ RAM_SIZE \in Nat /\ EXP1_SIZE \in Nat /\ BIOS_SIZE \in Nat /\ PhysSize \in Nat
    BY <1>1, <1>2 DEF RAM_SIZE, EXP1_SIZE, BIOS_SIZE, PhysSize
<1> QED BY <1>1, <1>3, SMT

LEMMA AddrNat ==
    ASSUME NEW a \in Addr
    PROVE  a \in Nat
<1>1. \A n \in Int : a \in 0 .. n => a \in Nat
    BY SMT
<1>2. \A n \in Nat, k \in Nat : n * k - 1 \in Int
    BY SMT
<1>3. Segments \in Nat /\ PhysSize \in Nat
    BY Sizes, PageAssumption
<1> DEFINE n == Segments * PhysSize - 1
<1>4. n \in Int
    BY <1>2, <1>3
<1>5. a \in 0 .. n
    BY DEF Addr
<1> HIDE DEF n
<1> QED BY <1>1, <1>4, <1>5

\* An address is a segment, a page and an offset.
LEMMA Split ==
    ASSUME NEW a \in Addr
    PROVE  /\ get_page_index(a) \in Page /\ Offset(a) \in 0 .. PageSize - 1
           /\ physical_address(a) \in 0 .. PhysSize - 1
           /\ physical_address(a) = get_page_index(a) * PageSize + Offset(a)
           /\ \E s \in Nat : a = s * PhysSize + physical_address(a)
<1> DEFINE ph == a % PhysSize
           s == a \div PhysSize
           p == ph \div PageSize
           o == ph % PageSize
<1>1. a \in Nat
    BY AddrNat
<1>2. ph \in 0 .. PhysSize - 1 /\ ph \in Nat /\ s \in Nat /\ a = s * PhysSize + ph
    <2>1. PhysSize \in Nat \ {0}
        BY Sizes
    <2>2. ph \in 0 .. PhysSize - 1 /\ s \in Nat /\ a = s * PhysSize + ph
        BY <1>1, <2>1, Division
    <2> HIDE DEF ph, s
    <2>3. ph \in Nat
        BY <2>1, <2>2, SMT
    <2> QED BY <2>2, <2>3
<1> HIDE DEF ph, s
<1>3. p \in Nat /\ o \in 0 .. PageSize - 1 /\ ph = p * PageSize + o
    BY <1>2, Sizes, Division
<1> HIDE DEF p, o
<1>4. p < PageCount
    <2> SUFFICES ASSUME PageCount <= p PROVE FALSE
        BY <1>3, Sizes, SMT
    <2>1. PageCount * PageSize <= p * PageSize
        <3>1. CASE PageCount = p
            BY <3>1, <1>3, Sizes, SMT
        <3>2. CASE PageCount < p
            <4>1. PageCount * PageSize + PageSize <= p * PageSize
                BY <3>2, <1>3, Sizes, Monotone
            <4>2. PageCount * PageSize \in Nat /\ p * PageSize \in Nat
                BY <1>3, Sizes, SMT
            <4> QED BY <4>1, <4>2, Sizes, SMT
        <3> QED BY <3>1, <3>2, <1>3, Sizes, SMT
    <2>2. p * PageSize \in Nat /\ ph < PhysSize
        BY <1>2, <1>3, Sizes, SMT
    <2> QED BY <1>2, <1>3, <2>1, <2>2, Sizes, SMT DEF PhysSize
<1>5. a = (s * PageCount + p) * PageSize + o /\ s * PageCount + p \in Nat
    <2>1. s * (PageCount * PageSize) = (s * PageCount) * PageSize
        BY <1>2, Sizes, SMT
    <2>2. s * PageCount \in Nat
        BY <1>2, Sizes, SMT
    <2>3. (s * PageCount + p) * PageSize = (s * PageCount) * PageSize + p * PageSize
        BY <1>3, <2>2, Sizes, SMT
    <2>4. (s * PageCount) * PageSize \in Nat /\ p * PageSize \in Nat
        BY <1>3, <2>2, Sizes, SMT
    <2>5. a = (s * PageCount) * PageSize + (p * PageSize + o)
        BY <1>2, <1>3, <2>1 DEF PhysSize
    <2> QED BY <1>3, <2>2, <2>3, <2>4, <2>5, SMT
<1>6. Offset(a) = o
    BY <1>3, <1>5, Unique, Sizes DEF Offset
<1>7. get_page_index(a) = p /\ physical_address(a) = ph
    BY DEF get_page_index, physical_address, ph, p
<1> QED BY <1>2, <1>3, <1>4, <1>6, <1>7, Sizes, SMT DEF Page

-----------------------------------------------------------------------------
(* The page tables.                                                          *)

\* A page is in a range of addresses that starts and ends with a page when its
\* number is.
LEMMA PageRange ==
    ASSUME NEW p \in Nat, NEW page \in Nat, NEW pages \in Nat
    PROVE  /\ page <= p /\ p < page + pages <=>
                 page * PageSize <= p * PageSize /\ p * PageSize < (page + pages) * PageSize - 1
           /\ page <= p => p * PageSize - page * PageSize = (p - page) * PageSize
<1> DEFINE e == page + pages
<1>1. PageSize \in Nat /\ PageSize >= 4 /\ e \in Nat
    BY Sizes, SMT
<1>2. p * PageSize \in Nat /\ page * PageSize \in Nat /\ e * PageSize \in Nat
    BY <1>1, SMT
<1> HIDE DEF e
<1>3. page <= p => page * PageSize <= p * PageSize
    BY <1>1, <1>2, Monotone, SMT
<1>4. p < page => p * PageSize + PageSize <= page * PageSize
    BY <1>1, Monotone
<1>5. p < e => p * PageSize + PageSize <= e * PageSize
    BY <1>1, Monotone
<1>6. e <= p => e * PageSize <= p * PageSize
    BY <1>1, <1>2, Monotone, SMT
<1>7. page <= p => p * PageSize - page * PageSize = (p - page) * PageSize
    BY <1>1, SMT
<1>8. page <= p /\ p < e <=> page * PageSize <= p * PageSize /\ p * PageSize < e * PageSize - 1
    BY <1>1, <1>2, <1>3, <1>4, <1>5, <1>6, SMT
<1> QED BY <1>7, <1>8 DEF e

\* What map_buffer does: page by page, without wrapping around.
LEMMA MapBuffer ==
    ASSUME NEW table, NEW writing, NEW m, NEW page \in Nat, NEW pages \in Nat,
           m.start = page * PageSize, m.end = (page + pages) * PageSize - 1,
           m.size \in Nat \ {0}, pages * PageSize <= m.size \/ pages = 1,
           NEW p \in Page
    PROVE  map_buffer(table, m, writing)[p]
             = IF page <= p /\ p < page + pages /\ ~(writing /\ m.read_only)
               THEN m.array + (p - page) * PageSize ELSE table[p]
<1>1. p \in Nat /\ PageSize \in Nat /\ PageSize >= 4
    BY Sizes, SMT DEF Page
<1>2. ASSUME page <= p, p < page + pages
      PROVE  (p * PageSize - m.start) % m.size = (p - page) * PageSize
    <2> DEFINE q == p - page
               size == m.size
    <2>1. p * PageSize - m.start = q * PageSize
        BY <1>1, <1>2, PageRange
    <2>2. q \in Nat /\ q < pages /\ size \in Nat \ {0}
        BY <1>1, <1>2, SMT
    <2>3. pages * PageSize <= size \/ pages = 1
        OBVIOUS
    <2> HIDE DEF q, size
    <2>4. q * PageSize \in 0 .. size - 1
        <3>1. CASE pages * PageSize <= size
            <4>1. q * PageSize + PageSize <= pages * PageSize
                BY <2>2, <1>1, Monotone
            <4>2. q * PageSize \in Nat /\ pages * PageSize \in Nat
                BY <2>2, <1>1, SMT
            <4> QED BY <3>1, <4>1, <4>2, <2>2, <1>1, SMT
        <3>2. CASE pages = 1
            <4>1. q = 0
                BY <2>2, <3>2, SMT
            <4>2. q * PageSize = 0
                BY <4>1, <1>1, SMT
            <4>3. 0 \in 0 .. size - 1
                BY <2>2, SMT
            <4> QED BY <4>2, <4>3
        <3> QED BY <2>3, <3>1, <3>2
    <2>5. (q * PageSize) % size = q * PageSize
        BY <2>2, <2>4, Small
    <2> QED BY <2>1, <2>5 DEF q, size
<1>3. page <= p /\ p < page + pages <=> m.start <= p * PageSize /\ p * PageSize < m.end
    <2>1. page <= p /\ p < page + pages
            <=> page * PageSize <= p * PageSize /\ p * PageSize < (page + pages) * PageSize - 1
        BY <1>1, PageRange
    <2> QED BY <2>1
<1>4. map_buffer(table, m, writing)[p]
        = IF m.start <= p * PageSize /\ p * PageSize < m.end /\ ~(writing /\ m.read_only)
          THEN m.array + ((p * PageSize - m.start) % m.size) ELSE table[p]
    BY Zenon DEF map_buffer
<1> QED BY <1>2, <1>3, <1>4, Zenon

\* The tables: each array at the pages that hold it, the BIOS not in the one for
\* writes.
PageAt(p, writing) ==
    IF p < RamPages THEN Ram + p * PageSize
    ELSE IF Exp1Page <= p /\ p < Exp1Page + Exp1Pages THEN Exp1 + (p - Exp1Page) * PageSize
    ELSE IF p = ScratchpadPage THEN Scratchpad
    ELSE IF BiosPage <= p /\ p < BiosPage + BiosPages /\ ~writing THEN Bios + (p - BiosPage) * PageSize
    ELSE NULL

LEMMA Arrays ==
    /\ Ram = 0 /\ Exp1 = RAM_SIZE /\ Scratchpad = Exp1 + EXP1_SIZE
    /\ Bios = Scratchpad + SCRATCHPAD_SIZE /\ Arena = Bios + BIOS_SIZE
    /\ Ram \in Nat /\ Exp1 \in Nat /\ Scratchpad \in Nat /\ Bios \in Nat /\ Arena \in Nat
    /\ Arena >= PageSize
BY Sizes, SMT DEF Ram, Exp1, Scratchpad, Bios, Arena

LEMMA Tables ==
    ASSUME NEW writing, NEW p \in Page
    PROVE  bus_init(writing)[p] = PageAt(p, writing)
<1> DEFINE none == [q \in Page |-> NULL]
           M1 == Memory(Ram, RAM_SIZE, 0, RamPages, FALSE)
           M2 == Memory(Exp1, EXP1_SIZE, Exp1Page, Exp1Pages, FALSE)
           M3 == Memory(Scratchpad, SCRATCHPAD_SIZE, ScratchpadPage, 1, FALSE)
           M4 == Memory(Bios, BIOS_SIZE, BiosPage, BiosPages, TRUE)
           ram == map_buffer(none, M1, writing)
           exp1 == map_buffer(ram, M2, writing)
           scratchpad == map_buffer(exp1, M3, writing)
           bios == map_buffer(scratchpad, M4, writing)
<1>1. bus_init(writing) = bios
    BY DEF bus_init
<1>2. /\ RAM_SIZE \in Nat \ {0} /\ EXP1_SIZE \in Nat \ {0} /\ BIOS_SIZE \in Nat \ {0}
      /\ SCRATCHPAD_SIZE \in Nat \ {0}
    BY Sizes, SMT
<1>3. /\ RamPages \in Nat /\ Exp1Page \in Nat /\ Exp1Pages \in Nat
      /\ ScratchpadPage \in Nat /\ BiosPage \in Nat /\ BiosPages \in Nat /\ p \in Nat
    BY PageAssumption, Sizes, SMT DEF Page
<1>4. /\ RamPages * PageSize <= RAM_SIZE /\ Exp1Pages * PageSize <= EXP1_SIZE
      /\ BiosPages * PageSize <= BIOS_SIZE
    <2>1. \A n \in Nat : n <= n
        BY SMT
    <2> QED BY <1>2, <2>1 DEF RAM_SIZE, EXP1_SIZE, BIOS_SIZE
<1>5. /\ M1.array = Ram /\ M1.size = RAM_SIZE /\ M1.read_only = FALSE
      /\ M1.start = 0 * PageSize /\ M1.end = (0 + RamPages) * PageSize - 1
    BY DEF Memory
<1>6. /\ M2.array = Exp1 /\ M2.size = EXP1_SIZE /\ M2.read_only = FALSE
      /\ M2.start = Exp1Page * PageSize /\ M2.end = (Exp1Page + Exp1Pages) * PageSize - 1
    BY DEF Memory
<1>7. /\ M3.array = Scratchpad /\ M3.size = SCRATCHPAD_SIZE /\ M3.read_only = FALSE
      /\ M3.start = ScratchpadPage * PageSize /\ M3.end = (ScratchpadPage + 1) * PageSize - 1
    BY DEF Memory
<1>8. /\ M4.array = Bios /\ M4.size = BIOS_SIZE /\ M4.read_only = TRUE
      /\ M4.start = BiosPage * PageSize /\ M4.end = (BiosPage + BiosPages) * PageSize - 1
    BY DEF Memory
<1> HIDE DEF M1, M2, M3, M4
<1>9. ram[p] = IF 0 <= p /\ p < 0 + RamPages /\ ~(writing /\ M1.read_only)
               THEN M1.array + (p - 0) * PageSize ELSE none[p]
    BY <1>2, <1>3, <1>4, <1>5, MapBuffer
<1> HIDE DEF none, ram
<1>10. exp1[p] = IF Exp1Page <= p /\ p < Exp1Page + Exp1Pages /\ ~(writing /\ M2.read_only)
                 THEN M2.array + (p - Exp1Page) * PageSize ELSE ram[p]
    BY <1>2, <1>3, <1>4, <1>6, MapBuffer
<1> HIDE DEF exp1
<1>11. scratchpad[p] = IF ScratchpadPage <= p /\ p < ScratchpadPage + 1 /\ ~(writing /\ M3.read_only)
                       THEN M3.array + (p - ScratchpadPage) * PageSize ELSE exp1[p]
    BY <1>2, <1>3, <1>7, MapBuffer
<1> HIDE DEF scratchpad
<1>12. bios[p] = IF BiosPage <= p /\ p < BiosPage + BiosPages /\ ~(writing /\ M4.read_only)
                 THEN M4.array + (p - BiosPage) * PageSize ELSE scratchpad[p]
    BY <1>2, <1>3, <1>4, <1>8, MapBuffer
<1> HIDE DEF bios
<1>13. 0 <= p /\ 0 + RamPages = RamPages /\ p - 0 = p /\ none[p] = NULL
    BY <1>3, SMT DEF none
<1>14. /\ ScratchpadPage <= p /\ p < ScratchpadPage + 1 <=> p = ScratchpadPage
       /\ p = ScratchpadPage => Scratchpad + (p - ScratchpadPage) * PageSize = Scratchpad
    <2>1. p = ScratchpadPage => p - ScratchpadPage = 0 /\ 0 * PageSize = 0 /\ Scratchpad + 0 = Scratchpad
        BY <1>3, Sizes, Arrays, SMT
    <2>2. ScratchpadPage <= p /\ p < ScratchpadPage + 1 <=> p = ScratchpadPage
        BY <1>3, SMT
    <2> QED BY <2>1, <2>2
<1>15. /\ p < RamPages => /\ ~(Exp1Page <= p /\ p < Exp1Page + Exp1Pages) /\ p # ScratchpadPage
                          /\ ~(BiosPage <= p /\ p < BiosPage + BiosPages)
       /\ Exp1Page <= p /\ p < Exp1Page + Exp1Pages
            => p # ScratchpadPage /\ ~(BiosPage <= p /\ p < BiosPage + BiosPages)
       /\ p = ScratchpadPage => ~(BiosPage <= p /\ p < BiosPage + BiosPages)
    BY <1>3, PageAssumption, SMT
<1>16. bios[p] = PageAt(p, writing)
    BY <1>5, <1>6, <1>7, <1>8, <1>9, <1>10, <1>11, <1>12, <1>13, <1>14, <1>15, Zenon DEF PageAt
<1> QED BY <1>1, <1>16

\* Every page of the tables is inside struct Bus, and its end too.
LEMMA PageInside ==
    ASSUME NEW p \in Page, NEW writing \in BOOLEAN
    PROVE  PageAt(p, writing) \in {NULL} \cup 0 .. Arena - PageSize
<1>1. p \in Nat /\ PageSize \in Nat /\ PageSize >= 4
    BY Sizes, SMT DEF Page
<1>2. \A n \in Nat : \A q \in Nat : q < n => /\ q * PageSize \in Nat /\ n * PageSize \in Nat
                                             /\ q * PageSize + PageSize <= n * PageSize
    BY <1>1, Monotone, SMT
<1>3. CASE p < RamPages
    <2>1. p * PageSize \in Nat /\ p * PageSize + PageSize <= RAM_SIZE
        BY <1>1, <1>2, <1>3, PageAssumption DEF RAM_SIZE
    <2>2. Ram + p * PageSize \in 0 .. Arena - PageSize
        BY <1>1, <2>1, Arrays, Sizes, SMT
    <2> QED BY <1>3, <2>2 DEF PageAt
<1>4. CASE ~(p < RamPages) /\ Exp1Page <= p /\ p < Exp1Page + Exp1Pages
    <2>1. p - Exp1Page \in Nat /\ p - Exp1Page < Exp1Pages
        BY <1>1, <1>4, PageAssumption, SMT
    <2>2. (p - Exp1Page) * PageSize \in Nat /\ (p - Exp1Page) * PageSize + PageSize <= EXP1_SIZE
        BY <1>1, <1>2, <2>1, PageAssumption DEF EXP1_SIZE
    <2>3. Exp1 + (p - Exp1Page) * PageSize \in 0 .. Arena - PageSize
        BY <1>1, <2>2, Arrays, Sizes, SMT
    <2> QED BY <1>4, <2>3 DEF PageAt
<1>5. CASE ~(p < RamPages) /\ ~(Exp1Page <= p /\ p < Exp1Page + Exp1Pages) /\ p = ScratchpadPage
    <2>1. Scratchpad \in 0 .. Arena - PageSize
        BY <1>1, Arrays, Sizes, SMT
    <2> QED BY <1>5, <2>1 DEF PageAt
<1>6. CASE /\ ~(p < RamPages) /\ ~(Exp1Page <= p /\ p < Exp1Page + Exp1Pages) /\ p # ScratchpadPage
           /\ BiosPage <= p /\ p < BiosPage + BiosPages /\ ~writing
    <2>1. p - BiosPage \in Nat /\ p - BiosPage < BiosPages
        BY <1>1, <1>6, PageAssumption, SMT
    <2>2. (p - BiosPage) * PageSize \in Nat /\ (p - BiosPage) * PageSize + PageSize <= BIOS_SIZE
        BY <1>1, <1>2, <2>1, PageAssumption DEF BIOS_SIZE
    <2>3. Bios + (p - BiosPage) * PageSize \in 0 .. Arena - PageSize
        BY <1>1, <2>2, Arrays, Sizes, SMT
    <2> QED BY <1>6, <2>3 DEF PageAt
<1> QED BY <1>3, <1>4, <1>5, <1>6, Zenon DEF PageAt

\* The pages that stores reach end before the scratchpad, but for its own.
LEMMA WritableBelow ==
    ASSUME NEW p \in Page, p # ScratchpadPage, PageAt(p, TRUE) # NULL
    PROVE  PageAt(p, TRUE) \in Nat /\ PageAt(p, TRUE) + PageSize <= Scratchpad
<1>1. p \in Nat /\ PageSize \in Nat
    BY Sizes, SMT DEF Page
<1>2. \A n \in Nat : \A q \in Nat : q < n => /\ q * PageSize \in Nat
                                             /\ q * PageSize + PageSize <= n * PageSize
    BY <1>1, Monotone, SMT
<1>3. CASE p < RamPages
    <2>1. p * PageSize \in Nat /\ p * PageSize + PageSize <= RAM_SIZE
        BY <1>1, <1>2, <1>3, PageAssumption DEF RAM_SIZE
    <2>2. Ram + p * PageSize \in Nat /\ Ram + p * PageSize + PageSize <= Scratchpad
        BY <1>1, <2>1, Arrays, Sizes, SMT
    <2> QED BY <1>3, <2>2 DEF PageAt
<1>4. CASE ~(p < RamPages) /\ Exp1Page <= p /\ p < Exp1Page + Exp1Pages
    <2>1. p - Exp1Page \in Nat /\ p - Exp1Page < Exp1Pages
        BY <1>1, <1>4, PageAssumption, SMT
    <2>2. (p - Exp1Page) * PageSize \in Nat /\ (p - Exp1Page) * PageSize + PageSize <= EXP1_SIZE
        BY <1>1, <1>2, <2>1, PageAssumption DEF EXP1_SIZE
    <2>3. /\ Exp1 + (p - Exp1Page) * PageSize \in Nat
          /\ Exp1 + (p - Exp1Page) * PageSize + PageSize <= Scratchpad
        BY <1>1, <2>2, Arrays, Sizes, SMT
    <2> QED BY <1>4, <2>3 DEF PageAt
<1> QED BY <1>3, <1>4 DEF PageAt

-----------------------------------------------------------------------------
(* The bytes of an aligned access.                                           *)

LEMMA Quarter ==
    ASSUME NEW q \in Nat
    PROVE  \E x \in Nat : q * PageSize = 4 * x
<1>1. PageSize \in Nat /\ PageSize % 4 = 0
    BY PageAssumption, SMT
<1>2. PICK m \in Nat : PageSize = 4 * m
    BY <1>1, SMT
<1>3. q * m \in Nat /\ q * (4 * m) = 4 * (q * m)
    BY SMT
<1> QED BY <1>2, <1>3

LEMMA Lanes4 == \A n \in Size : n \in Nat /\ Lanes(n) \subseteq 0 .. 3 /\ \A k \in Lanes(n) : k \in Nat /\ k < n
BY SMT DEF Size, Lanes

\* An access stays in its page, its registers and its word.
LEMMA Lane ==
    ASSUME NEW a, NEW n, Aligned(a, n), NEW k \in Lanes(n)
    PROVE  /\ a + k \in Addr
           /\ get_page_index(a + k) = get_page_index(a)
           /\ Offset(a + k) = Offset(a) + k /\ Offset(a) + k \in 0 .. PageSize - 1
           /\ io_address(a + k) = io_address(a) + k
           /\ io_address(a) \in Nat /\ io_address(a) % n = 0
<1> DEFINE ph == physical_address(a)
           p == get_page_index(a)
           o == Offset(a)
<1>1. a \in Addr /\ n \in Size /\ a % n = 0 /\ k \in Nat /\ k < n
    BY Lanes4 DEF Aligned
<1>2. PICK s \in Nat : a = s * PhysSize + ph
    BY <1>1, Split
<1>3. p \in Page /\ p \in Nat /\ o \in 0 .. PageSize - 1 /\ ph \in 0 .. PhysSize - 1 /\ ph = p * PageSize + o
    <2>1. p \in Page /\ o \in 0 .. PageSize - 1 /\ ph \in 0 .. PhysSize - 1 /\ ph = p * PageSize + o
        BY <1>1, Split
    <2> HIDE DEF p
    <2>2. p \in Nat
        BY <2>1, Sizes, SMT DEF Page
    <2> QED BY <2>1, <2>2
<1> HIDE DEF ph, p, o
<1>4. PageSize \in Nat \ {0} /\ PhysSize \in Nat \ {0} /\ PageCount \in Nat \ {0}
    BY Sizes
<1>5. PICK x \in Nat : p * PageSize = 4 * x
    BY <1>3, Quarter
<1>6. PICK y \in Nat : s * PhysSize = 4 * y
    <2>1. s * PageCount \in Nat /\ s * (PageCount * PageSize) = (s * PageCount) * PageSize
        BY <1>4, SMT
    <2> QED BY <2>1, Quarter DEF PhysSize
<1>7. PICK z \in Nat : PageSize = 4 * z
    BY PageAssumption, SMT
<1>8. ph \in Nat /\ o \in Nat /\ a = 4 * y + ph /\ ph = 4 * x + o
    BY <1>2, <1>3, <1>4, <1>5, <1>6, SMT
<1>9. o + k \in 0 .. PageSize - 1 /\ ph % n = 0
    <2>1. CASE n = 1
        BY <1>1, <1>3, <1>4, <1>7, <1>8, <2>1, SMT
    <2>2. CASE n = 2
        BY <1>1, <1>3, <1>4, <1>7, <1>8, <2>2, SMT
    <2>3. CASE n = 4
        BY <1>1, <1>3, <1>4, <1>7, <1>8, <2>3, SMT
    <2> QED BY <1>1, <2>1, <2>2, <2>3 DEF Size
<1>10. ph + k = p * PageSize + (o + k) /\ p * PageSize \in Nat
    BY <1>1, <1>3, <1>4, <1>5, <1>8, SMT
<1>11. ph + k \in 0 .. PhysSize - 1
    <2>1. p < PageCount
        BY <1>3, <1>4, SMT DEF Page
    <2>2. p * PageSize + PageSize <= PageCount * PageSize
        BY <1>3, <1>4, <2>1, Monotone
    <2>3. p * PageSize + PageSize <= PhysSize
        BY <2>2 DEF PhysSize
    <2> QED BY <1>1, <1>4, <1>8, <1>9, <1>10, <2>3, SMT
<1>12. a + k = s * PhysSize + (ph + k) /\ s * PhysSize \in Nat
    BY <1>1, <1>2, <1>4, <1>6, <1>8, SMT
<1>13. (a + k) % PhysSize = ph + k
    BY <1>4, <1>11, <1>12, Unique
<1>14. (ph + k) \div PageSize = p
    BY <1>3, <1>4, <1>9, <1>10, Unique
<1>15. get_page_index(a + k) = get_page_index(a)
    BY <1>13, <1>14 DEF get_page_index, physical_address, p
<1>16. Offset(a + k) = o + k
    <2>1. s * PageCount \in Nat /\ p \in Nat
        BY <1>3, <1>4, SMT
    <2>2. s * (PageCount * PageSize) = (s * PageCount) * PageSize
        BY <1>4, SMT
    <2>3. (s * PageCount + p) * PageSize = (s * PageCount) * PageSize + p * PageSize
        BY <1>4, <2>1, SMT
    <2>4. (s * PageCount) * PageSize \in Nat /\ s * PageCount + p \in Nat
        BY <1>4, <2>1, SMT
    <2>5. a + k = (s * PageCount) * PageSize + (ph + k)
        BY <1>12, <2>2 DEF PhysSize
    <2>6. a + k = (s * PageCount + p) * PageSize + (o + k)
        BY <1>1, <1>8, <1>10, <2>3, <2>4, <2>5, SMT
    <2>7. (a + k) % PageSize = o + k
        BY <1>4, <1>9, <2>4, <2>6, Unique
    <2> QED BY <2>7 DEF Offset
<1>17. a \in Nat /\ a + k \in Addr
    <2> DEFINE end == Segments * PhysSize
    <2>1. Segments \in Nat /\ end \in Nat /\ a \in 0 .. end - 1
        BY <1>1, <1>4, PageAssumption, SMT DEF Addr
    <2>2. \A t \in Nat : t < Segments => t * PhysSize + PhysSize <= end
        BY <1>4, <2>1, Monotone
    <2>3. Segments <= s => end <= s * PhysSize
        <3>1. CASE Segments = s
            BY <3>1, <1>4, <1>12, <2>1, SMT
        <3>2. CASE Segments < s
            <4>1. end + PhysSize <= s * PhysSize
                BY <3>2, <1>4, <2>1, Monotone
            <4> HIDE DEF end
            <4> QED BY <4>1, <1>4, <1>12, <2>1, SMT
        <3> QED BY <2>1, <3>1, <3>2, SMT
    <2>4. Addr = 0 .. end - 1
        BY DEF Addr
    <2> HIDE DEF end
    <2>5. ~(Segments <= s)
        BY <1>2, <1>8, <1>12, <2>1, <2>3, SMT
    <2>6. s * PhysSize + PhysSize <= end
        BY <2>1, <2>2, <2>5, SMT
    <2> QED BY <1>1, <1>4, <1>11, <1>12, <2>1, <2>4, <2>6, SMT
<1>18. a >= IO_MEMCTRL_3_START <=> a + k >= IO_MEMCTRL_3_START
    <2>1. IO_MEMCTRL_3_START \in Nat /\ IO_MEMCTRL_3_START % 4 = 0
        BY DeviceAssumption
    <2>2. CASE n = 1
        BY <1>1, <1>17, <2>1, <2>2, SMT
    <2>3. CASE n = 2
        BY <1>1, <1>17, <2>1, <2>3, SMT
    <2>4. CASE n = 4
        BY <1>1, <1>17, <2>1, <2>4, SMT
    <2> QED BY <1>1, <2>2, <2>3, <2>4 DEF Size
<1>19. io_address(a + k) = io_address(a) + k
    BY <1>13, <1>18 DEF io_address, physical_address, ph
<1>20. io_address(a) \in Nat /\ io_address(a) % n = 0
    BY <1>1, <1>8, <1>9, <1>17 DEF io_address, ph
<1> QED BY <1>9, <1>15, <1>16, <1>17, <1>19, <1>20 DEF o

-----------------------------------------------------------------------------
(* The cell of an address: the tables by pages agree with the ranges by bytes. *)

LEMMA InPage ==
    ASSUME NEW a \in Addr, NEW page \in Nat, NEW pages \in Nat
    PROVE  /\ In(a, page, pages) <=> page <= get_page_index(a) /\ get_page_index(a) < page + pages
           /\ page <= get_page_index(a)
                => From(a, page) = (get_page_index(a) - page) * PageSize + Offset(a)
<1> DEFINE ph == physical_address(a)
           p == get_page_index(a)
           o == Offset(a)
           e == page + pages
<1>1. p \in Page /\ o \in 0 .. PageSize - 1 /\ ph = p * PageSize + o
    BY Split
<1>2. PageSize \in Nat \ {0} /\ PageCount \in Nat /\ e \in Nat
    BY Sizes, SMT
<1> HIDE DEF ph, p, o, e
<1>3. p \in Nat /\ o \in Nat /\ o < PageSize
    BY <1>1, <1>2, SMT DEF Page
<1>4. p * PageSize \in Nat /\ page * PageSize \in Nat /\ e * PageSize \in Nat
    BY <1>2, <1>3, SMT
<1>5. page <= p <=> page * PageSize <= ph
    <2>1. page = p => page * PageSize <= ph
        BY <1>1, <1>3, <1>4, SMT
    <2>2. page < p => page * PageSize + PageSize <= p * PageSize
        BY <1>2, <1>3, Monotone
    <2>3. p < page => p * PageSize + PageSize <= page * PageSize
        BY <1>2, <1>3, Monotone
    <2> QED BY <1>1, <1>2, <1>3, <1>4, <2>1, <2>2, <2>3, SMT
<1>6. p < e <=> ph < e * PageSize
    <2>1. p < e => p * PageSize + PageSize <= e * PageSize
        BY <1>2, <1>3, Monotone
    <2>2. e < p => e * PageSize + PageSize <= p * PageSize
        BY <1>2, <1>3, Monotone
    <2>3. e = p => e * PageSize <= ph
        BY <1>1, <1>3, <1>4, SMT
    <2> QED BY <1>1, <1>2, <1>3, <1>4, <2>1, <2>2, <2>3, SMT
<1>7. page <= p => ph - page * PageSize = (p - page) * PageSize + o
    <2> SUFFICES ASSUME page <= p PROVE ph - page * PageSize = (p - page) * PageSize + o
        OBVIOUS
    <2>1. p * PageSize - page * PageSize = (p - page) * PageSize
        BY <1>3, PageRange
    <2>2. ph - page * PageSize = (p * PageSize - page * PageSize) + o
        BY <1>1, <1>3, <1>4, SMT
    <2> QED BY <2>1, <2>2
<1> QED BY <1>5, <1>6, <1>7 DEF In, From, ph, p, o, e

LEMMA CellPlace ==
    ASSUME NEW a \in Addr, NEW writing \in BOOLEAN
    PROVE  LET ptr == bus_init(writing)[get_page_index(a)]
           IN  /\ ptr \in {NULL} \cup 0 .. Arena - PageSize
               /\ CellOf(a, writing) =
                    IF ptr # NULL THEN ptr + Offset(a)
                    ELSE IF io_address(a) \in RegByte THEN Arena + io_address(a) ELSE NULL
<1> DEFINE p == get_page_index(a)
           o == Offset(a)
           ptr == bus_init(writing)[p]
<1>1. p \in Page /\ o \in 0 .. PageSize - 1
    BY Split
<1>2. ptr = PageAt(p, writing) /\ ptr \in {NULL} \cup 0 .. Arena - PageSize
    BY <1>1, Tables, PageInside
<1>3. p \in Nat /\ o \in Nat
    <2> HIDE DEF p, o
    <2> QED BY <1>1, Sizes, SMT DEF Page
<1>4. /\ RamPages \in Nat /\ Exp1Page \in Nat /\ Exp1Pages \in Nat /\ ScratchpadPage \in Nat
      /\ BiosPage \in Nat /\ BiosPages \in Nat /\ 0 \in Nat /\ 1 \in Nat
    BY PageAssumption, SMT
<1>5. /\ In(a, 0, RamPages) <=> 0 <= p /\ p < 0 + RamPages
      /\ 0 <= p => From(a, 0) = (p - 0) * PageSize + o
    BY <1>4, InPage
<1>6. /\ In(a, Exp1Page, Exp1Pages) <=> Exp1Page <= p /\ p < Exp1Page + Exp1Pages
      /\ Exp1Page <= p => From(a, Exp1Page) = (p - Exp1Page) * PageSize + o
    BY <1>4, InPage
<1>7. /\ In(a, ScratchpadPage, 1) <=> ScratchpadPage <= p /\ p < ScratchpadPage + 1
      /\ ScratchpadPage <= p => From(a, ScratchpadPage) = (p - ScratchpadPage) * PageSize + o
    BY <1>4, InPage
<1>8. /\ In(a, BiosPage, BiosPages) <=> BiosPage <= p /\ p < BiosPage + BiosPages
      /\ BiosPage <= p => From(a, BiosPage) = (p - BiosPage) * PageSize + o
    BY <1>4, InPage
<1>9. /\ Ram \in Nat /\ Exp1 \in Nat /\ Scratchpad \in Nat /\ Bios \in Nat /\ PageSize \in Nat
      /\ Arena \in Nat /\ Arena >= PageSize
    BY Arrays, Sizes
<1>10. ptr # NULL <=> ptr \in Nat
    <2> HIDE DEF ptr
    <2> QED BY <1>2, <1>9, SMT DEF NULL
<1> HIDE DEF p, o
<1>11. \A x \in Nat, y \in Nat : y <= x => (x - y) * PageSize \in Nat
    BY <1>9, SMT
<1>12. \A x \in Nat, y \in Nat : x + (y + o) = (x + y) + o /\ x + y \in Nat /\ x + y # NULL
    BY <1>3, SMT DEF NULL
<1>13. p - 0 = p /\ p * PageSize \in Nat /\ 0 <= p /\ 0 + RamPages = RamPages
    BY <1>3, <1>4, <1>9, SMT
<1>14. CASE p < RamPages
    <2>1. CellOf(a, writing) = Ram + (p * PageSize + o)
        BY <1>5, <1>13, <1>14 DEF CellOf
    <2>2. ptr = Ram + p * PageSize
        BY <1>2, <1>14 DEF PageAt
    <2>3. Ram + (p * PageSize + o) = (Ram + p * PageSize) + o /\ Ram + p * PageSize # NULL
        BY <1>9, <1>12, <1>13
    <2> QED BY <1>2, <2>1, <2>2, <2>3 DEF p, o
<1>15. CASE ~(p < RamPages) /\ Exp1Page <= p /\ p < Exp1Page + Exp1Pages
    <2> DEFINE x == (p - Exp1Page) * PageSize
    <2>1. CellOf(a, writing) = Exp1 + (x + o)
        BY <1>5, <1>6, <1>13, <1>15 DEF CellOf
    <2>2. ptr = Exp1 + x
        BY <1>2, <1>15 DEF PageAt
    <2>3. Exp1 + (x + o) = (Exp1 + x) + o /\ Exp1 + x # NULL
        BY <1>3, <1>4, <1>9, <1>11, <1>12, <1>15
    <2> QED BY <1>2, <2>1, <2>2, <2>3 DEF p, o
<1>16. CASE ~(p < RamPages) /\ ~(Exp1Page <= p /\ p < Exp1Page + Exp1Pages) /\ p = ScratchpadPage
    <2>1. ScratchpadPage <= p /\ p < ScratchpadPage + 1 /\ p - ScratchpadPage = 0
        BY <1>4, <1>16, SMT
    <2>2. From(a, ScratchpadPage) = o
        <3>1. 0 * PageSize + o = o
            BY <1>3, <1>9, SMT
        <3> QED BY <1>7, <2>1, <3>1
    <2>3. CellOf(a, writing) = Scratchpad + o
        BY <1>5, <1>6, <1>7, <1>13, <1>16, <2>1, <2>2 DEF CellOf
    <2>4. ptr = Scratchpad
        BY <1>2, <1>16 DEF PageAt
    <2> QED BY <1>2, <1>9, <1>10, <2>3, <2>4 DEF p, o
<1>17. CASE ~(p < RamPages) /\ ~(Exp1Page <= p /\ p < Exp1Page + Exp1Pages) /\ p # ScratchpadPage
    <2>1. ~(ScratchpadPage <= p /\ p < ScratchpadPage + 1)
        BY <1>3, <1>4, <1>17, SMT
    <2>2. CASE BiosPage <= p /\ p < BiosPage + BiosPages /\ ~writing
        <3> DEFINE x == (p - BiosPage) * PageSize
        <3>1. CellOf(a, writing) = Bios + (x + o)
            BY <1>5, <1>6, <1>7, <1>8, <1>13, <1>17, <2>1, <2>2, Zenon DEF CellOf
        <3>2. ptr = Bios + x
            BY <1>2, <1>17, <2>2, Zenon DEF PageAt
        <3>3. Bios + (x + o) = (Bios + x) + o /\ Bios + x # NULL
            BY <1>3, <1>4, <1>9, <1>11, <1>12, <2>2
        <3> QED BY <1>2, <3>1, <3>2, <3>3 DEF p, o
    <2>3. CASE ~(BiosPage <= p /\ p < BiosPage + BiosPages /\ ~writing)
        <3>1. CellOf(a, writing) = IF io_address(a) \in RegByte THEN Arena + io_address(a) ELSE NULL
            BY <1>5, <1>6, <1>7, <1>8, <1>13, <1>17, <2>1, <2>3, Zenon DEF CellOf
        <3>2. ptr = NULL
            BY <1>2, <1>17, <2>3, Zenon DEF PageAt
        <3> QED BY <1>2, <3>1, <3>2 DEF p, o
    <2> QED BY <2>2, <2>3
<1> QED BY <1>14, <1>15, <1>16, <1>17

-----------------------------------------------------------------------------
(* The registers.                                                            *)

LEMMA Registers ==
    ASSUME NEW b
    PROVE  /\ b \in Reg <=> b = CacheCtrl \/ \E w \in Windows : b \in w.regs
           /\ \A a : b \in io_registers(a) <=>
                 IF a >= IO_MEMCTRL_3_START THEN b = CacheCtrl
                 ELSE \E w \in Windows :
                         w.first <= io_address(a) /\ io_address(a) <= w.last /\ b \in w.regs
<1>1. b \in Reg <=> b = CacheCtrl \/ \E w \in Windows : b \in w.regs
    <2>1. b \in UNION {w.regs : w \in Windows} <=> \E w \in Windows : b \in w.regs
        BY Zenon
    <2>2. b \in Reg <=> b \in UNION {w.regs : w \in Windows} \/ b = CacheCtrl
        BY Zenon DEF Reg
    <2> QED BY <2>1, <2>2
<1>2. ASSUME NEW a
      PROVE  b \in io_registers(a) <=>
                 IF a >= IO_MEMCTRL_3_START THEN b = CacheCtrl
                 ELSE \E w \in Windows :
                         w.first <= io_address(a) /\ io_address(a) <= w.last /\ b \in w.regs
    <2> DEFINE W == {w \in Windows : w.first <= io_address(a) /\ io_address(a) <= w.last}
    <2>1. b \in UNION {w.regs : w \in W} <=> \E w \in W : b \in w.regs
        BY Zenon
    <2>2. \A w : w \in W <=> w \in Windows /\ w.first <= io_address(a) /\ io_address(a) <= w.last
        OBVIOUS
    <2>3. io_registers(a) = IF a >= IO_MEMCTRL_3_START THEN {CacheCtrl} ELSE UNION {w.regs : w \in W}
        BY DEF io_registers
    <2> HIDE DEF W
    <2> QED BY <2>1, <2>2, <2>3, Zenon
<1> QED BY <1>1, <1>2

LEMMA RegNat == RegByte \subseteq Nat /\ Reg \subseteq RegByte /\ \A b \in Reg : b \in Nat /\ b % 4 = 0
<1>1. CacheCtrl \in Nat
    <2>1. CacheCtrl \in Addr
        BY DeviceAssumption
    <2> QED BY <2>1, AddrNat
<1>2. \A b \in Reg : b \in Nat
    <2> SUFFICES ASSUME NEW b \in Reg PROVE b \in Nat
        OBVIOUS
    <2>1. b = CacheCtrl \/ \E w \in Windows : b \in w.regs
        BY Registers
    <2> QED BY <1>1, <2>1, DeviceAssumption
<1>3. \A b \in Reg : b + 1 \in Nat
    BY <1>2, SMT
<1> QED BY <1>2, <1>3, DeviceAssumption DEF RegByte

\* The switches decode the base of a register only, and still an aligned access
\* reaches just the bytes of registers that it covers.
LEMMA Decoded ==
    ASSUME NEW a, NEW n, Aligned(a, n), NEW k \in Lanes(n)
    PROVE  k \in RegLanes(a, n) <=> io_address(a) + k \in RegByte
<1> DEFINE x == io_address(a)
<1>1. n \in Size /\ k \in Nat /\ k < n /\ n \in Nat /\ a \in Addr
    BY Lanes4 DEF Aligned
<1>2. x \in Nat /\ x % n = 0
    BY Lane
<1>3. ASSUME k \in RegLanes(a, n) PROVE x + k \in RegByte
    <2>1. PICK b \in SelectedReg(a, n) : x + k \in {b, b + 1}
        BY <1>3 DEF RegLanes
    <2>2. b \in Reg
        <3>1. b \in io_registers(a)
            BY <2>1 DEF SelectedReg
        <3> QED BY <3>1, Registers, Zenon
    <2> QED BY <2>1, <2>2 DEF RegByte
<1>4. ASSUME x + k \in RegByte PROVE k \in RegLanes(a, n)
    <2>1. PICK b \in Reg : x + k \in {b, b + 1}
        BY <1>4 DEF RegByte
    <2>2. b \in Nat /\ b % 4 = 0
        BY <2>1, RegNat
    <2> HIDE DEF x
    <2>3. x = b \/ (n = 1 /\ x = b + 1)
        <3>1. CASE n = 1
            BY <1>1, <1>2, <2>1, <2>2, <3>1, SMT
        <3>2. CASE n = 2
            BY <1>1, <1>2, <2>1, <2>2, <3>2, SMT
        <3>3. CASE n = 4
            BY <1>1, <1>2, <2>1, <2>2, <3>3, SMT
        <3> QED BY <1>1, <3>1, <3>2, <3>3 DEF Size
    <2>4. b \in io_registers(a)
        <3>1. /\ PhysSize \in Nat \ {0} /\ IO_MEMCTRL_3_START \in Nat
              /\ IO_MEMCTRL_3_START >= PhysSize
            BY DeviceAssumption, Sizes
        <3>2. CASE b = CacheCtrl
            <4>1. b >= IO_MEMCTRL_3_START
                BY <3>2, DeviceAssumption
            <4>2. a >= IO_MEMCTRL_3_START
                <5> SUFFICES ASSUME ~(a >= IO_MEMCTRL_3_START) PROVE FALSE
                    OBVIOUS
                <5>1. x = physical_address(a) /\ physical_address(a) \in 0 .. PhysSize - 1
                    BY <1>1, Split DEF io_address, x
                <5> QED BY <1>2, <2>2, <2>3, <3>1, <4>1, <5>1, SMT
            <4> QED BY <3>2, <4>2, Registers
        <3>3. CASE b # CacheCtrl
            <4>1. PICK w \in Windows : b \in w.regs
                BY <2>1, <3>3, Registers
            <4>2. w.first \in Nat /\ w.last \in 0 .. PhysSize - 1 /\ w.first <= b /\ b < w.last
                BY <4>1, DeviceAssumption
            <4>3. w.first <= x /\ x <= w.last
                BY <1>2, <2>2, <2>3, <3>1, <4>2, SMT
            <4>4. ~(a >= IO_MEMCTRL_3_START)
                <5> SUFFICES ASSUME a >= IO_MEMCTRL_3_START PROVE FALSE
                    OBVIOUS
                <5>1. x = a
                    BY DEF io_address, x
                <5> QED BY <1>2, <3>1, <4>2, <4>3, <5>1, SMT
            <4> QED BY <4>1, <4>3, <4>4, Registers DEF x
        <3> QED BY <3>2, <3>3
    <2>5. b \in SelectedReg(a, n)
        BY <2>3, <2>4 DEF SelectedReg, x
    <2> QED BY <2>1, <2>5 DEF RegLanes, x
<1> QED BY <1>3, <1>4

\* No register is in a port, and an access is inside one port.
LEMMA PortApart ==
    ASSUME NEW a, NEW n, Aligned(a, n), NEW k \in Lanes(n), PortOf(a) # NULL
    PROVE  io_address(a) + k \notin RegByte /\ (io_address(a) % 4) + k \in Lanes(4)
<1> DEFINE x == io_address(a)
<1>1. n \in Size /\ k \in Nat /\ k < n /\ n \in Nat
    BY Lanes4 DEF Aligned
<1>2. x \in Nat /\ x % n = 0
    BY Lane
<1>3. x >= IO_GPU_START /\ x < IO_GPU_START + 8
    BY DEF PortOf, x
<1> HIDE DEF x
<1>4. PhysSize \in Nat /\ IO_GPU_START \in Nat /\ IO_GPU_START + 8 <= PhysSize /\ IO_GPU_START % 4 = 0
    BY DeviceAssumption, Sizes, SMT
<1>5. x + k < IO_GPU_START + 8 /\ (x % 4) + k \in 0 .. 3
    <2>1. CASE n = 1
        BY <1>1, <1>2, <1>3, <1>4, <2>1, SMT
    <2>2. CASE n = 2
        BY <1>1, <1>2, <1>3, <1>4, <2>2, SMT
    <2>3. CASE n = 4
        BY <1>1, <1>2, <1>3, <1>4, <2>3, SMT
    <2> QED BY <1>1, <2>1, <2>2, <2>3 DEF Size
<1>6. x + k \notin RegByte
    <2> SUFFICES ASSUME NEW b \in Reg, x + k \in {b, b + 1} PROVE FALSE
        BY DEF RegByte
    <2>1. b \in Nat
        BY RegNat
    <2>2. CASE b = CacheCtrl
        <3>1. b >= IO_MEMCTRL_3_START /\ IO_MEMCTRL_3_START >= PhysSize /\ IO_MEMCTRL_3_START \in Nat
            BY <2>2, DeviceAssumption
        <3> QED BY <1>1, <1>2, <1>4, <1>5, <2>1, <3>1, SMT
    <2>3. CASE b # CacheCtrl
        <3>1. PICK w \in Windows : b \in w.regs
            BY <2>3, Registers
        <3>2. /\ w.first \in Nat /\ w.last \in 0 .. PhysSize - 1 /\ w.first <= b /\ b < w.last
              /\ w.last < IO_GPU_START \/ w.first > IO_GPU_START + 7
            BY <3>1, DeviceAssumption
        <3>3. w.last \in Nat
            BY <1>4, <3>2, SMT
        <3> QED BY <1>1, <1>2, <1>3, <1>4, <1>5, <2>1, <3>2, <3>3, SMT
    <2> QED BY <2>2, <2>3
<1> QED BY <1>5, <1>6 DEF x, Lanes

-----------------------------------------------------------------------------
(* The accesses.                                                             *)

BusInv == BusTypeOK /\ FetchCacheCoherent

\* The cells of FlatMemory, and what they hold.
FlatCells == [c \in Cells |-> IF c < Arena THEN mem[c] ELSE regs[c - Arena]]

LEMMA CellSets ==
    /\ 0 .. Arena - 1 \subseteq Cells
    /\ \A x \in RegByte : Arena + x \in Cells /\ Arena + x \notin 0 .. Arena - 1
                          /\ ~(Arena + x < Arena) /\ (Arena + x) - Arena = x
    /\ \A c \in Cells : c \in 0 .. Arena - 1 \/ (c - Arena \in RegByte /\ c = Arena + (c - Arena))
    /\ \A c \in 0 .. Arena - 1 : c < Arena
    /\ NULL \notin Cells
<1>1. \A x \in RegByte : x \in Nat
    BY RegNat
<1>2. \A x \in Nat : /\ Arena + x \notin 0 .. Arena - 1 /\ ~(Arena + x < Arena)
                     /\ (Arena + x) - Arena = x /\ Arena + x # NULL
    BY Arrays, SMT DEF NULL
<1>3. NULL \notin 0 .. Arena - 1 /\ \A c \in 0 .. Arena - 1 : c < Arena
    BY Arrays, SMT DEF NULL
<1>4. \A c \in Cells : c \in 0 .. Arena - 1 \/ \E x \in RegByte : c = Arena + x
    BY DEF Cells
<1>5. \A x \in RegByte : Arena + x \in Cells
    BY DEF Cells
<1>6. 0 .. Arena - 1 \subseteq Cells
    BY DEF Cells
<1>7. NULL \notin Cells
    BY <1>1, <1>2, <1>3, <1>4
<1>8. \A c \in Cells : c \in 0 .. Arena - 1 \/ (c - Arena \in RegByte /\ c = Arena + (c - Arena))
    <2> SUFFICES ASSUME NEW c \in Cells, c \notin 0 .. Arena - 1
                 PROVE  c - Arena \in RegByte /\ c = Arena + (c - Arena)
        OBVIOUS
    <2>1. PICK x \in RegByte : c = Arena + x
        BY <1>4
    <2>2. (Arena + x) - Arena = x
        BY <1>1, <1>2
    <2>3. c - Arena = x
        BY <2>1, <2>2, Zenon
    <2> QED BY <2>1, <2>3, Zenon
<1> QED BY <1>1, <1>2, <1>3, <1>5, <1>6, <1>7, <1>8

\* Where the bytes of an access in memory are.
LEMMA InMemory ==
    ASSUME NEW a, NEW n, Aligned(a, n), NEW k \in Lanes(n), NEW writing \in BOOLEAN,
           bus_init(writing)[get_page_index(a)] # NULL
    PROVE  LET ptr == bus_init(writing)[get_page_index(a)]
           IN  /\ ptr + Offset(a) \in Nat
               /\ ptr + Offset(a) + k \in 0 .. Arena - 1
               /\ CellOf(a + k, writing) = ptr + Offset(a) + k
<1> DEFINE ptr == bus_init(writing)[get_page_index(a)]
           o == Offset(a)
<1>1. a \in Addr /\ k \in Nat
    BY Lanes4 DEF Aligned
<1>2. ptr \in 0 .. Arena - PageSize
    BY <1>1, CellPlace
<1>3. /\ a + k \in Addr /\ get_page_index(a + k) = get_page_index(a)
      /\ Offset(a + k) = o + k /\ o + k \in 0 .. PageSize - 1
    BY Lane
<1>4. o \in 0 .. PageSize - 1
    BY <1>1, Split
<1>5. CellOf(a + k, writing) = ptr + (o + k)
    BY <1>3, CellPlace
<1> HIDE DEF ptr, o
<1>6. ptr + o \in Nat /\ ptr + (o + k) = ptr + o + k /\ ptr + o + k \in 0 .. Arena - 1
    BY <1>1, <1>2, <1>3, <1>4, Arrays, Sizes, SMT
<1> QED BY <1>5, <1>6 DEF ptr, o

\* And of one outside memory.
LEMMA Outside ==
    ASSUME NEW a, NEW n, Aligned(a, n), NEW k \in Lanes(n), NEW writing \in BOOLEAN,
           bus_init(writing)[get_page_index(a)] = NULL
    PROVE  CellOf(a + k, writing) =
             IF io_address(a) + k \in RegByte THEN Arena + (io_address(a) + k) ELSE NULL
<1>1. a + k \in Addr /\ get_page_index(a + k) = get_page_index(a) /\ io_address(a + k) = io_address(a) + k
    BY Lane
<1> QED BY <1>1, CellPlace

\* A byte that is read is the one in its cell, unless a port answers.
LEMMA ReadLane ==
    ASSUME BusTypeOK, NEW a, NEW n, Aligned(a, n), NEW word \in WordOf(4), NEW k \in Lanes(n)
    PROVE  /\ ValueAt(a, n, word)[k] \in Byte
           /\ \/ ValueAt(a, n, word)[k]
                   = IF CellOf(a + k, FALSE) \in Cells THEN FlatCells[CellOf(a + k, FALSE)] ELSE 0
              \/ PortOf(a) # NULL
<1> DEFINE ptr == read_pages[get_page_index(a)]
           c == CellOf(a + k, FALSE)
<1>1. read_pages = bus_init(FALSE) /\ FALSE \in BOOLEAN
    BY DEF read_pages
<1>2. CASE ptr # NULL
    <2>1. ptr + Offset(a) + k \in 0 .. Arena - 1 /\ c = ptr + Offset(a) + k
        BY <1>1, <1>2, InMemory
    <2>2. ValueAt(a, n, word)[k] = mem[ptr + Offset(a) + k]
        BY <1>2 DEF ValueAt
    <2>3. c \in Cells /\ c < Arena
        BY <2>1, CellSets
    <2>4. FlatCells[c] = mem[c]
        BY <2>3 DEF FlatCells
    <2>5. mem[c] \in Byte
        BY <2>1 DEF BusTypeOK
    <2> QED BY <2>1, <2>2, <2>3, <2>4, <2>5
<1>3. CASE ptr = NULL /\ PortOf(a) # NULL
    <2>1. ValueAt(a, n, word)[k] = word[(io_address(a) % 4) + k]
        BY <1>3 DEF ValueAt, io_read
    <2>2. (io_address(a) % 4) + k \in Lanes(4)
        BY <1>3, PortApart
    <2> QED BY <1>3, <2>1, <2>2 DEF WordOf
<1>4. CASE ptr = NULL /\ PortOf(a) = NULL
    <2> DEFINE x == io_address(a) + k
    <2>1. ValueAt(a, n, word)[k] = IF k \in RegLanes(a, n) THEN regs[x] ELSE 0
        BY <1>4 DEF ValueAt, io_read, regs_read
    <2>2. k \in RegLanes(a, n) <=> x \in RegByte
        BY Decoded
    <2>3. c = IF x \in RegByte THEN Arena + x ELSE NULL
        BY <1>1, <1>4, Outside
    <2> HIDE DEF x
    <2>4. x \in RegByte => c \in Cells /\ FlatCells[c] = regs[x] /\ regs[x] \in Byte
        <3> SUFFICES ASSUME x \in RegByte PROVE c \in Cells /\ FlatCells[c] = regs[x] /\ regs[x] \in Byte
            OBVIOUS
        <3>1. c = Arena + x
            BY <2>3
        <3>2. Arena + x \in Cells /\ ~(Arena + x < Arena) /\ (Arena + x) - Arena = x
            BY CellSets
        <3> HIDE DEF c
        <3>3. FlatCells[Arena + x] = regs[(Arena + x) - Arena]
            BY <3>2, Zenon DEF FlatCells
        <3>4. regs[(Arena + x) - Arena] = regs[x] /\ regs[x] \in Byte
            BY <3>2 DEF BusTypeOK
        <3> QED BY <3>1, <3>2, <3>3, <3>4
    <2>5. x \notin RegByte => c \notin Cells
        BY <2>3, CellSets
    <2>6. 0 \in Byte
        BY DeviceAssumption
    <2> QED BY <2>1, <2>2, <2>4, <2>5, <2>6
<1> QED BY <1>2, <1>3, <1>4

LEMMA ValueType ==
    ASSUME BusTypeOK, NEW a, NEW n, Aligned(a, n), NEW word \in WordOf(4)
    PROVE  ValueAt(a, n, word) \in WordOf(n)
<1>1. \A k \in Lanes(n) : ValueAt(a, n, word)[k] \in Byte
    BY ReadLane
<1>2. ValueAt(a, n, word) = [k \in Lanes(n) |-> ValueAt(a, n, word)[k]]
    BY DEF ValueAt, io_read, regs_read
<1> QED BY <1>1, <1>2 DEF WordOf

-----------------------------------------------------------------------------
(* Each operation is one of FlatMemory and keeps the invariant.              *)

\* What Flat!Read and Flat!Ask say, for the operations that read.
LEMMA FlatRead ==
    ASSUME BusTypeOK, NEW a, NEW n, Aligned(a, n), NEW word \in WordOf(4),
           last' = Access("read", a, ValueAt(a, n, word)), UNCHANGED <<mem, regs>>
    PROVE  Flat!Read \/ Flat!Ask
<1> DEFINE v == ValueAt(a, n, word)
<1>1. a \in Addr /\ n \in {1, 2, 4} /\ v \in [0 .. n - 1 -> Byte]
    BY ValueType DEF Aligned, Size, WordOf, Lanes
<1>2. last' = [op |-> "read", addr |-> a, val |-> v]
    BY DEF Access
<1>3. DOMAIN v = Lanes(n)
    BY <1>1 DEF Lanes
<1>4. UNCHANGED FlatCells
    BY DEF FlatCells
<1>5. DOMAIN ReadMap = Addr /\ \A b \in Addr : ReadMap[b] = CellOf(b, FALSE)
    BY DEF ReadMap
<1> HIDE DEF v
<1>6. Flat!Accessed("read")
    <2>1. last' \in [op : {"read"}, addr : Addr, val : [0 .. n - 1 -> Byte]]
        BY <1>1, <1>2
    <2>2. \E i \in {1, 2, 4} : last' \in [op : {"read"}, addr : Addr, val : [0 .. i - 1 -> Byte]]
        BY <1>1, <2>1
    <2>3. Flat!Addr = Addr
        BY <1>5 DEF Flat!Addr
    <2> QED BY <2>2, <2>3 DEF Flat!Accessed
<1>7. CASE PortOf(a) # NULL
    <2>1. Flat!Ask
        BY <1>1, <1>2, <1>4, <1>6, <1>7 DEF Flat!Ask, FlatCells
    <2> QED BY <2>1
<1>8. CASE PortOf(a) = NULL
    <2>1. ASSUME NEW k \in Lanes(n)
          PROVE  v[k] = LET c == ReadMap[a + k] IN IF c \in Cells THEN FlatCells[c] ELSE 0
        <3>1. a + k \in Addr
            BY Lane
        <3>2. v[k] = IF CellOf(a + k, FALSE) \in Cells THEN FlatCells[CellOf(a + k, FALSE)] ELSE 0
            BY <1>8, ReadLane DEF v
        <3> QED BY <1>5, <3>1, <3>2
    <2>2. Flat!Lanes(last') = Lanes(n)
        BY <1>2, <1>3 DEF Flat!Lanes
    <2>3. last'.addr = a /\ last'.val = v
        BY <1>2
    <2>4. Flat!Read
        BY <1>4, <1>6, <2>1, <2>2, <2>3 DEF Flat!Read, FlatCells
    <2> QED BY <2>4
<1> QED BY <1>7, <1>8

LEMMA ReadStep ==
    ASSUME BusInv, NEW a, NEW n, NEW word \in WordOf(4), bus_read(a, n, word)
    PROVE  BusInv' /\ (Flat!Read \/ Flat!Ask)
<1>1. Flat!Read \/ Flat!Ask
    BY FlatRead DEF bus_read, BusInv
<1>2. BusInv'
    BY DEF bus_read, BusInv, BusTypeOK, FetchCacheCoherent
<1> QED BY <1>1, <1>2

\* The word fetched is the one the bus would read, with or without the cache.
LEMMA FetchStep ==
    ASSUME BusInv, NEW a, NEW word \in WordOf(4), fetch_instruction(a, word)
    PROVE  BusInv' /\ (Flat!Read \/ Flat!Ask)
<1> DEFINE p == get_page_index(a)
<1>1. Aligned(a, 4) /\ a \in Addr
    BY DEF fetch_instruction, Aligned
<1>2. p \in Page /\ read_pages[p] \in {NULL} \cup 0 .. Arena - PageSize
    BY <1>1, Split, CellPlace DEF read_pages
<1>3. fetch_page' = p /\ fetch_page_ptr' = read_pages[p]
    BY <1>2 DEF fetch_instruction, BusInv, FetchCacheCoherent, PagePtr
<1>4. last' = Access("read", a, ValueAt(a, 4, word)) /\ UNCHANGED <<mem, regs>>
    BY <1>3 DEF fetch_instruction, ValueAt
<1>5. Flat!Read \/ Flat!Ask
    BY <1>1, <1>4, FlatRead DEF BusInv
<1>6. BusTypeOK'
    <2>1. p \in 0 .. PageCount
        BY <1>2, Sizes, SMT DEF Page
    <2> QED BY <1>2, <1>3, <1>4, <2>1 DEF BusInv, BusTypeOK
<1>7. FetchCacheCoherent'
    BY <1>3 DEF FetchCacheCoherent, read_pages, bus_init, map_buffer, Memory
<1> QED BY <1>5, <1>6, <1>7 DEF BusInv

\* The difference of two numbers, and the lane it is.
LEMMA LaneOf ==
    ASSUME NEW n \in Size, NEW b \in Nat, NEW c \in Nat
    PROVE  \A k \in Lanes(n) : k = c - b <=> b + k = c
BY SMT DEF Lanes, Size

LEMMA WriteStep ==
    ASSUME BusInv, NEW a, NEW n, NEW v \in WordOf(n), bus_write(a, n, v)
    PROVE  BusInv' /\ Flat!Write
<1> DEFINE ptr == write_pages[get_page_index(a)]
           x == io_address(a)
           o == Offset(a)
<1>1. Aligned(a, n) /\ a \in Addr /\ n \in Size
    BY DEF bus_write, Aligned
<1>2. write_pages = bus_init(TRUE) /\ TRUE \in BOOLEAN
    BY DEF write_pages
<1>3. /\ last' = [op |-> "write", addr |-> a, val |-> v]
      /\ UNCHANGED <<fetch_page, fetch_page_ptr>>
      /\ DOMAIN v = Lanes(n)
    BY DEF bus_write, Access, WordOf
<1>4. /\ mem \in [0 .. Arena - 1 -> Byte] /\ regs \in [RegByte -> Byte]
      /\ DOMAIN WriteMap = Addr /\ \A b \in Addr : WriteMap[b] = CellOf(b, TRUE)
    BY DEF BusInv, BusTypeOK, WriteMap
<1>5. FlatCells' = [c \in Cells |-> IF c < Arena THEN mem'[c] ELSE regs'[c - Arena]]
    BY DEF FlatCells
<1>6. Flat!Accessed("write")
    <2>1. last' \in [op : {"write"}, addr : Addr, val : [0 .. n - 1 -> Byte]]
        BY <1>1, <1>3 DEF WordOf, Lanes
    <2>2. \E i \in {1, 2, 4} : last' \in [op : {"write"}, addr : Addr, val : [0 .. i - 1 -> Byte]]
        BY <1>1, <2>1 DEF Size
    <2>3. DOMAIN ReadMap = Addr
        BY DEF ReadMap
    <2> QED BY <2>2, <2>3 DEF Flat!Accessed, Flat!Addr
<1>7. \A k \in Lanes(n) : a + k \in Addr /\ WriteMap[a + k] = CellOf(a + k, TRUE)
    BY <1>1, <1>4, Lane
\* What each of the two kinds of store has to show.
<1> DEFINE Sound ==
        /\ mem' \in [0 .. Arena - 1 -> Byte] /\ regs' \in [RegByte -> Byte]
        /\ \A c \in Cells :
              \/ /\ \A k \in Lanes(n) : CellOf(a + k, TRUE) # c
                 /\ FlatCells'[c] = FlatCells[c]
              \/ \E k \in Lanes(n) : CellOf(a + k, TRUE) = c /\ FlatCells'[c] = v[k]
<1>8. ASSUME ptr # NULL PROVE Sound
    <2> DEFINE cell == ptr + o
    <2>1. mem' = [c \in 0 .. Arena - 1 |-> IF c - cell \in Lanes(n) THEN v[c - cell] ELSE mem[c]]
          /\ regs' = regs
        BY <1>4, <1>8 DEF bus_write, StoreIn
    <2>2. \A k \in Lanes(n) : /\ cell \in Nat /\ cell + k \in 0 .. Arena - 1
                              /\ CellOf(a + k, TRUE) = cell + k
        BY <1>1, <1>2, <1>8, InMemory
    <2>3. cell \in Nat
        <3>1. 0 \in Lanes(n)
            BY <1>1, SMT DEF Size, Lanes
        <3> QED BY <2>2, <3>1
    <2> HIDE DEF cell
    <2>4. \A c \in 0 .. Arena - 1 : \A k \in Lanes(n) : k = c - cell <=> cell + k = c
        <3>1. \A c \in 0 .. Arena - 1 : c \in Nat
            BY Arrays, SMT
        <3> QED BY <1>1, <2>3, <3>1, LaneOf
    <2>5. mem' \in [0 .. Arena - 1 -> Byte]
        BY <1>4, <2>1 DEF WordOf
    <2>6. ASSUME NEW c \in 0 .. Arena - 1, c - cell \in Lanes(n)
          PROVE  \E k \in Lanes(n) : CellOf(a + k, TRUE) = c /\ FlatCells'[c] = v[k]
        <3> DEFINE k == c - cell
        <3>1. k \in Lanes(n)
            BY <2>6
        <3>2. cell + k = c
            BY <2>4, <3>1
        <3>3. CellOf(a + k, TRUE) = c
            BY <2>2, <3>1, <3>2
        <3>4. FlatCells'[c] = mem'[c]
            BY <1>5, CellSets
        <3>5. mem'[c] = v[k]
            BY <2>1, <2>6
        <3> HIDE DEF k
        <3> QED BY <3>1, <3>3, <3>4, <3>5
    <2>7. ASSUME NEW c \in 0 .. Arena - 1, c - cell \notin Lanes(n)
          PROVE  /\ \A k \in Lanes(n) : CellOf(a + k, TRUE) # c
                 /\ FlatCells'[c] = FlatCells[c]
        <3>1. \A k \in Lanes(n) : CellOf(a + k, TRUE) # c
            BY <2>2, <2>4, <2>7
        <3>2. FlatCells'[c] = mem'[c] /\ FlatCells[c] = mem[c]
            BY <1>5, CellSets DEF FlatCells
        <3>3. mem'[c] = mem[c]
            BY <2>1, <2>7
        <3> QED BY <3>1, <3>2, <3>3
    <2>8. ASSUME NEW c \in Cells, c \notin 0 .. Arena - 1
          PROVE  /\ \A k \in Lanes(n) : CellOf(a + k, TRUE) # c
                 /\ FlatCells'[c] = FlatCells[c]
        <3>1. \A k \in Lanes(n) : CellOf(a + k, TRUE) # c
            BY <2>2, <2>8
        <3>2. ~(c < Arena)
            BY <2>8, CellSets
        <3> QED BY <1>5, <2>1, <3>1, <3>2 DEF FlatCells
    <2>9. \A c \in Cells :
              \/ /\ \A k \in Lanes(n) : CellOf(a + k, TRUE) # c
                 /\ FlatCells'[c] = FlatCells[c]
              \/ \E k \in Lanes(n) : CellOf(a + k, TRUE) = c /\ FlatCells'[c] = v[k]
        BY <2>6, <2>7, <2>8
    <2> QED BY <1>4, <2>1, <2>5, <2>9
<1>9. ASSUME ptr = NULL PROVE Sound
    <2>1. mem' = mem
        BY <1>9 DEF bus_write
    <2>2. \A k \in Lanes(n) : CellOf(a + k, TRUE) = IF x + k \in RegByte THEN Arena + (x + k) ELSE NULL
        BY <1>1, <1>2, <1>9, Outside
    <2>3. ASSUME NEW c \in Cells, \A k \in Lanes(n) : CellOf(a + k, TRUE) # c, NEW r \in RegByte,
                 c = Arena + r
          PROVE  r - x \notin RegLanes(a, n)
        <3> SUFFICES ASSUME r - x \in RegLanes(a, n) PROVE FALSE
            OBVIOUS
        <3> DEFINE k == r - x
        <3>1. k \in Lanes(n) /\ x + k \in RegByte
            BY <1>1, Decoded DEF RegLanes
        <3>2. x \in Nat /\ r \in Nat
            BY <1>1, <3>1, Lane, RegNat
        <3>3. x + k = r
            BY <1>1, <3>1, <3>2, LaneOf
        <3>4. CellOf(a + k, TRUE) = Arena + r
            BY <2>2, <3>1, <3>3
        <3> HIDE DEF k
        <3> QED BY <2>3, <3>1, <3>4
    <2>4. CASE PortOf(a) # NULL
        <3>1. regs' = regs
            BY <1>9, <2>4 DEF bus_write, io_write
        <3>2. \A k \in Lanes(n) : CellOf(a + k, TRUE) = NULL
            BY <1>1, <2>2, <2>4, PortApart
        <3>3. \A c \in Cells : /\ \A k \in Lanes(n) : CellOf(a + k, TRUE) # c
                               /\ FlatCells'[c] = FlatCells[c]
            BY <1>5, <2>1, <3>1, <3>2, CellSets DEF FlatCells
        <3> QED BY <1>4, <2>1, <3>1, <3>3
    <2>5. CASE PortOf(a) = NULL
        <3>1. regs' = [r \in RegByte |-> IF r - x \in RegLanes(a, n) THEN v[r - x] ELSE regs[r]]
            BY <1>9, <2>5 DEF bus_write, io_write, regs_write
        <3>2. \A k \in RegLanes(a, n) : k \in Lanes(n)
            BY DEF RegLanes
        <3>3. regs' \in [RegByte -> Byte]
            BY <1>4, <3>1, <3>2 DEF WordOf
        <3>4. ASSUME NEW c \in 0 .. Arena - 1
              PROVE  /\ \A k \in Lanes(n) : CellOf(a + k, TRUE) # c
                     /\ FlatCells'[c] = FlatCells[c]
            <4>1. c < Arena /\ c \in Cells /\ c # NULL
                BY CellSets
            <4>2. FlatCells'[c] = FlatCells[c]
                BY <1>5, <2>1, <4>1 DEF FlatCells
            <4>3. \A r \in RegByte : Arena + r # c
                BY CellSets
            <4> QED BY <2>2, <4>1, <4>2, <4>3
        <3>5. ASSUME NEW r \in RegByte, r - x \in RegLanes(a, n)
              PROVE  \E k \in Lanes(n) : CellOf(a + k, TRUE) = Arena + r /\ FlatCells'[Arena + r] = v[k]
            <4> DEFINE k == r - x
            <4>1. k \in Lanes(n) /\ x + k \in RegByte
                BY <1>1, <3>2, <3>5, Decoded
            <4>2. x \in Nat /\ r \in Nat
                BY <1>1, <4>1, Lane, RegNat
            <4>3. x + k = r
                BY <1>1, <4>1, <4>2, LaneOf
            <4>4. CellOf(a + k, TRUE) = Arena + r
                BY <2>2, <4>1, <4>3
            <4>5. FlatCells'[Arena + r] = regs'[(Arena + r) - Arena] /\ (Arena + r) - Arena = r
                BY <1>5, CellSets
            <4>6. regs'[r] = v[k]
                BY <3>1, <3>5
            <4>7. FlatCells'[Arena + r] = v[k]
                BY <4>5, <4>6
            <4> HIDE DEF k
            <4> QED BY <4>1, <4>4, <4>7
        <3>6. ASSUME NEW r \in RegByte, r - x \notin RegLanes(a, n)
              PROVE  /\ \A k \in Lanes(n) : CellOf(a + k, TRUE) # Arena + r
                     /\ FlatCells'[Arena + r] = FlatCells[Arena + r]
            <4>1. ASSUME NEW k \in Lanes(n), CellOf(a + k, TRUE) = Arena + r PROVE FALSE
                <5>0. Arena + r # NULL /\ \A y \in RegByte : (Arena + y) - Arena = y
                    BY CellSets
                <5>1. x + k \in RegByte /\ Arena + (x + k) = Arena + r
                    BY <2>2, <4>1, <5>0
                <5>2. x + k = r
                    <6> DEFINE y == x + k
                    <6>1. (Arena + y) - Arena = y /\ (Arena + r) - Arena = r /\ Arena + y = Arena + r
                        BY <5>0, <5>1
                    <6> HIDE DEF y
                    <6>2. y = r
                        BY <6>1
                    <6> QED BY <6>2 DEF y
                <5>3. x \in Nat /\ r \in Nat
                    BY <1>1, <4>1, Lane, RegNat
                <5>4. k = r - x
                    BY <1>1, <5>2, <5>3, LaneOf
                <5>5. k \in RegLanes(a, n)
                    BY <1>1, <5>1, Decoded
                <5> QED BY <3>6, <5>4, <5>5
            <4>2. Arena + r \in Cells /\ ~(Arena + r < Arena) /\ (Arena + r) - Arena = r
                BY CellSets
            <4>3. FlatCells'[Arena + r] = regs'[r] /\ FlatCells[Arena + r] = regs[r]
                BY <1>5, <4>2 DEF FlatCells
            <4>4. regs'[r] = regs[r]
                BY <3>1, <3>6
            <4> QED BY <4>1, <4>3, <4>4
        <3>7. \A c \in Cells :
                  \/ /\ \A k \in Lanes(n) : CellOf(a + k, TRUE) # c
                     /\ FlatCells'[c] = FlatCells[c]
                  \/ \E k \in Lanes(n) : CellOf(a + k, TRUE) = c /\ FlatCells'[c] = v[k]
            <4> TAKE c \in Cells
            <4>1. c \in 0 .. Arena - 1 \/ \E r \in RegByte : c = Arena + r
                BY DEF Cells
            <4> QED BY <3>4, <3>5, <3>6, <4>1
        <3> QED BY <1>4, <2>1, <3>3, <3>7
    <2> QED BY <2>4, <2>5
<1>10. Sound
    BY <1>8, <1>9
<1>11. Flat!Write
    <2>1. FlatCells' \in [Cells -> Byte]
        <3>1. ASSUME NEW c \in Cells PROVE FlatCells'[c] \in Byte
            <4>1. CASE c \in 0 .. Arena - 1
                BY <1>5, <1>10, <4>1, CellSets
            <4>2. CASE c \notin 0 .. Arena - 1
                <5>1. ~(c < Arena) /\ c - Arena \in RegByte
                    BY <4>2, CellSets
                <5> QED BY <1>5, <1>10, <5>1
            <4> QED BY <4>1, <4>2
        <3> QED BY <1>5, <3>1
    <2>2. ASSUME NEW c \in Cells
          PROVE  LET hit == {k \in Lanes(n) : WriteMap[a + k] = c}
                 IN  \/ hit = {} /\ FlatCells'[c] = FlatCells[c]
                     \/ \E k \in hit : FlatCells'[c] = v[k]
        <3> DEFINE hit == {k \in Lanes(n) : WriteMap[a + k] = c}
        <3>1. \A k : k \in hit <=> k \in Lanes(n) /\ CellOf(a + k, TRUE) = c
            BY <1>7
        <3> HIDE DEF hit
        <3>2. \/ /\ \A k \in Lanes(n) : CellOf(a + k, TRUE) # c
                 /\ FlatCells'[c] = FlatCells[c]
              \/ \E k \in Lanes(n) : CellOf(a + k, TRUE) = c /\ FlatCells'[c] = v[k]
            BY <1>10
        <3>3. hit = {} <=> \A k : k \notin hit
            OBVIOUS
        <3>4. \/ hit = {} /\ FlatCells'[c] = FlatCells[c]
              \/ \E k \in hit : FlatCells'[c] = v[k]
            BY <3>1, <3>2, <3>3, Zenon
        <3> QED BY <3>4 DEF hit
    <2>3. Flat!Lanes(last') = Lanes(n) /\ last'.addr = a /\ last'.val = v
        BY <1>3 DEF Flat!Lanes
    <2> HIDE DEF Sound
    <2> QED BY <1>6, <2>1, <2>2, <2>3 DEF Flat!Write, FlatCells
<1>12. BusInv'
    BY <1>3, <1>10 DEF BusInv, BusTypeOK, FetchCacheCoherent
<1> QED BY <1>11, <1>12

\* What a store changes behind the scratchpad, where the BIOS is, is in the same page.
LEMMA DamageBehind ==
    ASSUME BusInv, NEW a, NEW n, NEW v, bus_write(a, n, v),
           NEW c \in Bios .. Arena - 1, mem'[c] # mem[c]
    PROVE  get_page_index(a) = ScratchpadPage /\ c < Scratchpad + PageSize
<1> DEFINE p == get_page_index(a)
           ptr == PageAt(p, TRUE)
           cell == ptr + Offset(a)
<1>1. Aligned(a, n) /\ a \in Addr /\ n \in Size /\ p \in Page
    BY Split DEF bus_write, Aligned
<1>2. write_pages[p] = ptr
    BY <1>1, Tables DEF write_pages
<1>3. c \in 0 .. Arena - 1 /\ c \in Nat /\ Bios <= c
    BY Arrays, SMT
<1>4. ptr # NULL /\ mem' = StoreIn(mem, a, n, v)
    BY <1>2 DEF bus_write
<1>5. c - cell \in Lanes(n)
    BY <1>2, <1>3, <1>4 DEF StoreIn, BusInv, BusTypeOK
<1>6. ptr \in Nat
    <2>1. ptr \in 0 .. Arena - PageSize
        BY <1>1, <1>4, PageInside
    <2> HIDE DEF ptr
    <2> QED BY <2>1, Arrays, Sizes, SMT
<1>7. /\ Offset(a) \in Nat
      /\ Offset(a) + (c - cell) < PageSize
    <2>1. Offset(a) \in 0 .. PageSize - 1 /\ Offset(a) + (c - cell) \in 0 .. PageSize - 1
        BY <1>1, <1>5, Split, Lane
    <2> HIDE DEF cell
    <2> QED BY <2>1, Sizes, SMT
<1>8. c < ptr + PageSize
    <2> HIDE DEF ptr
    <2> QED BY <1>3, <1>6, <1>7, Sizes, SMT
<1>9. p = ScratchpadPage
    <2> SUFFICES ASSUME p # ScratchpadPage PROVE FALSE
        OBVIOUS
    <2>1. ptr + PageSize <= Scratchpad
        BY <1>1, <1>4, WritableBelow
    <2> HIDE DEF ptr
    <2> QED BY <1>3, <1>6, <1>8, <2>1, Arrays, Sizes, SMT
<1>10. ptr = Scratchpad
    BY <1>9, PageAssumption, Sizes, SMT DEF PageAt
<1> QED BY <1>8, <1>9, <1>10

\* The loaders stay inside the arrays, and the trampolines too.
LEMMA TrampolinesType ==
    ASSUME NEW m \in [0 .. Arena - 1 -> Byte], NEW inst \in WordOf(4)
    PROVE  Trampolined(m, inst) \in [0 .. Arena - 1 -> Byte]
<1>1. ASSUME NEW c \in 0 .. Arena - 1, NEW t \in Trampolines, c - t \in Lanes(8), c - t < 4
      PROVE  inst[c - t] \in Byte
    <2> DEFINE k == c - t
    <2>1. k \in Lanes(8) /\ k < 4
        BY <1>1
    <2> HIDE DEF k
    <2>2. k \in Lanes(4)
        BY <2>1, SMT DEF Lanes
    <2>3. inst[k] \in Byte
        BY <2>2 DEF WordOf
    <2> QED BY <2>3 DEF k
<1>2. ASSUME NEW c \in 0 .. Arena - 1
      PROVE  Trampolined(m, inst)[c] \in Byte
    <2> DEFINE t == CHOOSE t \in Trampolines : c - t \in Lanes(8)
    <2>1. Trampolined(m, inst)[c]
            = IF \E u \in Trampolines : c - u \in Lanes(8)
              THEN IF c - t < 4 THEN inst[c - t] ELSE 0 ELSE m[c]
        BY DEF Trampolined
    <2>2. (\E u \in Trampolines : c - u \in Lanes(8)) => t \in Trampolines /\ c - t \in Lanes(8)
        BY Zenon
    <2> HIDE DEF t
    <2>3. 0 \in Byte /\ m[c] \in Byte
        BY DeviceAssumption
    <2> QED BY <1>1, <2>1, <2>2, <2>3
<1>3. Trampolined(m, inst) = [c \in 0 .. Arena - 1 |-> Trampolined(m, inst)[c]]
    BY DEF Trampolined
<1> QED BY <1>2, <1>3

LEMMA FlatType ==
    ASSUME mem \in [0 .. Arena - 1 -> Byte], regs \in [RegByte -> Byte]
    PROVE  FlatCells \in [Cells -> Byte]
<1>1. ASSUME NEW c \in Cells PROVE FlatCells[c] \in Byte
    <2>1. FlatCells[c] = IF c < Arena THEN mem[c] ELSE regs[c - Arena]
        BY DEF FlatCells
    <2>2. CASE c \in 0 .. Arena - 1
        BY <2>1, <2>2, CellSets
    <2>3. CASE c \notin 0 .. Arena - 1
        <3>1. ~(c < Arena) /\ c - Arena \in RegByte
            BY <2>3, CellSets
        <3> QED BY <2>1, <3>1
    <2> QED BY <2>2, <2>3
<1> QED BY <1>1 DEF FlatCells

\* What Flat!Load says, for the loaders.
LEMMA FlatLoad ==
    ASSUME BusInv, mem' \in [0 .. Arena - 1 -> Byte], last' = Quiet("load"),
           UNCHANGED <<regs, fetch_page, fetch_page_ptr>>
    PROVE  BusInv' /\ Flat!Load
<1>1. mem' \in [0 .. Arena - 1 -> Byte] /\ regs' \in [RegByte -> Byte]
    BY DEF BusInv, BusTypeOK
<1>2. FlatCells' = [c \in Cells |-> IF c < Arena THEN mem'[c] ELSE regs'[c - Arena]]
    BY DEF FlatCells
<1>3. FlatCells' \in [Cells -> Byte]
    <2>1. ASSUME NEW c \in Cells PROVE FlatCells'[c] \in Byte
        <3>1. CASE c \in 0 .. Arena - 1
            BY <1>1, <1>2, <3>1, CellSets
        <3>2. CASE c \notin 0 .. Arena - 1
            <4>1. ~(c < Arena) /\ c - Arena \in RegByte
                BY <3>2, CellSets
            <4> QED BY <1>1, <1>2, <4>1
        <3> QED BY <3>1, <3>2
    <2> QED BY <1>2, <2>1
<1>4. ASSUME NEW c \in Cells \ (0 .. Arena - 1) PROVE FlatCells'[c] = FlatCells[c]
    <2>1. ~(c < Arena)
        BY <1>4, CellSets
    <2> QED BY <1>2, <2>1 DEF FlatCells
<1>5. Flat!Quiet("load") = Quiet("load")
    BY DEF Flat!Quiet, Quiet, Access
<1>6. Flat!Load
    BY <1>3, <1>4, <1>5 DEF Flat!Load, FlatCells
<1>7. BusInv'
    BY <1>1 DEF BusInv, BusTypeOK, FetchCacheCoherent
<1> QED BY <1>6, <1>7

LEMMA BiosStep ==
    ASSUME BusInv, NEW image \in BiosImages, load_bios(image)
    PROVE  BusInv' /\ Flat!Load
<1> DEFINE m == [c \in 0 .. Arena - 1 |-> IF c >= Bios THEN image[c - Bios] ELSE mem[c]]
<1>1. mem \in [0 .. Arena - 1 -> Byte]
    BY DEF BusInv, BusTypeOK
<1>2. mem' = Trampolined(m, ZeroWord)
    BY <1>1 DEF load_bios
<1>3. image \in [Lanes(BIOS_SIZE) -> Byte]
    BY LoaderAssumption
<1>4. ASSUME NEW c \in 0 .. Arena - 1, c >= Bios PROVE c - Bios \in Lanes(BIOS_SIZE)
    BY <1>4, Arrays, Sizes, SMT DEF Lanes
<1>5. m \in [0 .. Arena - 1 -> Byte]
    BY <1>1, <1>3, <1>4
<1>6. ZeroWord \in WordOf(4)
    BY DeviceAssumption DEF ZeroWord, WordOf
<1> HIDE DEF m
<1>7. mem' \in [0 .. Arena - 1 -> Byte]
    BY <1>2, <1>5, <1>6, TrampolinesType
<1> QED BY <1>7, FlatLoad DEF load_bios

LEMMA ExeStep ==
    ASSUME BusInv, NEW exe \in Exes, load_exe(exe)
    PROVE  BusInv' /\ Flat!Load
<1>1. mem \in [0 .. Arena - 1 -> Byte]
    BY DEF BusInv, BusTypeOK
<1>2. exe.data \in [Lanes(exe.size) -> Byte] /\ 0 \in Byte
    BY LoaderAssumption, DeviceAssumption
<1>3. mem' \in [0 .. Arena - 1 -> Byte]
    BY <1>1, <1>2 DEF load_exe
<1> QED BY <1>3, FlatLoad DEF load_exe

\* No page is PageCount, so a reset leaves nothing in the cache of the fetches.
LEMMA Started ==
    ASSUME fetch_page = PageCount, fetch_page_ptr = NULL,
           mem = Trampolined(Blank, JR_RA), regs \in [RegByte -> Byte]
    PROVE  BusInv
<1>1. Blank \in [0 .. Arena - 1 -> Byte]
    BY DeviceAssumption DEF Blank
<1>2. mem \in [0 .. Arena - 1 -> Byte]
    BY <1>1, LoaderAssumption, TrampolinesType
<1>3. PageCount \in 0 .. PageCount /\ PageCount \notin Page
    BY Sizes, SMT DEF Page
<1> QED BY <1>2, <1>3 DEF BusInv, BusTypeOK, FetchCacheCoherent

LEMMA ResetStep ==
    ASSUME psx_reset
    PROVE  BusInv' /\ Flat!Reset
<1>1. Blank \in [0 .. Arena - 1 -> Byte]
    BY DeviceAssumption DEF Blank
<1>2. mem' \in [0 .. Arena - 1 -> Byte] /\ regs' \in [RegByte -> Byte]
    BY <1>1, LoaderAssumption, TrampolinesType, DeviceAssumption DEF psx_reset, regs_reset
<1>3. PageCount \in 0 .. PageCount /\ PageCount \notin Page
    BY Sizes, SMT DEF Page
<1>4. BusInv'
    BY <1>2, <1>3 DEF psx_reset, InvalidateFetch, BusInv, BusTypeOK, FetchCacheCoherent
<1>5. FlatCells' = [c \in Cells |-> IF c < Arena THEN mem'[c] ELSE regs'[c - Arena]]
    BY DEF FlatCells
<1>6. FlatCells' \in [Cells -> Byte]
    <2>1. ASSUME NEW c \in Cells PROVE FlatCells'[c] \in Byte
        <3>1. CASE c \in 0 .. Arena - 1
            BY <1>2, <1>5, <3>1, CellSets
        <3>2. CASE c \notin 0 .. Arena - 1
            <4>1. ~(c < Arena) /\ c - Arena \in RegByte
                BY <3>2, CellSets
            <4> QED BY <1>2, <1>5, <4>1
        <3> QED BY <3>1, <3>2
    <2> QED BY <1>5, <2>1
<1>7. last' = Flat!Quiet("reset")
    BY DEF psx_reset, Flat!Quiet, Quiet, Access
<1>8. Flat!Reset
    BY <1>6, <1>7 DEF Flat!Reset, FlatCells
<1> QED BY <1>4, <1>8
=============================================================================
