--------------------------------- MODULE Bus ---------------------------------
(* The bus: the page tables of bus.c, the accesses of bus.h, the dispatch to    *)
(* the devices and their 16-bit registers (common.h, irq.c, timers.c,           *)
(* memctrl.c), the instruction fetch of cpu.c with its one-page cache, and what *)
(* loader.c and psx.c do to memory.  The GPU behind its two ports is in Gpu; the *)
(* SPU and expansion 2 answer zero and keep nothing, like addresses that no     *)
(* device has.  Words are functions from byte lanes, least significant first.   *)
EXTENDS Integers

CONSTANTS
    Byte,                           \* the values of a byte, 0 .. 255 in the code
    PageSize, PageCount, Segments,  \* 2^12, 2^17 and 8: addresses are below their product
    RamPages,                       \* the sizes and places of the memories, in pages
    Exp1Page, Exp1Pages,
    ScratchpadPage,
    BiosPage, BiosPages,
    SCRATCHPAD_SIZE,                \* less than a page, in bytes
    IO_GPU_START,                   \* the ports GP0 and, four bytes on, GP1
    Windows,                        \* first and last physical address of a device, and its registers
    IO_MEMCTRL_3_START, CacheCtrl,  \* virtual addresses from which memctrl answers, and its register
    Trampolines, JR_RA,             \* where load_bios_trampolines stores which instruction
    BiosImages, Exes                \* the files that the loaders read

RAM_SIZE == RamPages * PageSize
EXP1_SIZE == Exp1Pages * PageSize
BIOS_SIZE == BiosPages * PageSize
PhysSize == PageCount * PageSize
Addr == 0 .. Segments * PhysSize - 1
Page == 0 .. PageCount - 1
Lanes(n) == 0 .. n - 1
Size == {1, 2, 4}
WordOf(n) == [Lanes(n) -> Byte]

\* The arrays of struct Bus, one behind the other.
Ram == 0
Exp1 == Ram + RAM_SIZE
Scratchpad == Exp1 + EXP1_SIZE
Bios == Scratchpad + SCRATCHPAD_SIZE
Arena == Bios + BIOS_SIZE
NULL == -1

\* The registers of the devices: 16 bits at a base address, their two bytes.
Reg == (UNION {w.regs : w \in Windows}) \cup {CacheCtrl}
RegByte == Reg \cup {b + 1 : b \in Reg}

ASSUME PageAssumption ==
    /\ PageSize \in Nat \ {0} /\ PageSize % 4 = 0
    /\ PageCount \in Nat \ {0} /\ Segments \in Nat \ {0}
    /\ SCRATCHPAD_SIZE \in 1 .. PageSize
    /\ RamPages \in Nat \ {0} /\ Exp1Pages \in Nat \ {0} /\ BiosPages \in Nat \ {0}
    /\ Exp1Page \in Nat /\ ScratchpadPage \in Nat /\ BiosPage \in Nat
    /\ RamPages <= Exp1Page /\ Exp1Page + Exp1Pages <= ScratchpadPage
    /\ ScratchpadPage < BiosPage /\ BiosPage + BiosPages <= PageCount

ASSUME DeviceAssumption ==
    /\ 0 \in Byte
    /\ IO_GPU_START \in 0 .. PhysSize - 8 /\ IO_GPU_START % 4 = 0
    /\ IO_MEMCTRL_3_START \in Nat /\ IO_MEMCTRL_3_START >= PhysSize
    /\ IO_MEMCTRL_3_START % 4 = 0
    /\ CacheCtrl \in Addr /\ CacheCtrl >= IO_MEMCTRL_3_START
    /\ \A w \in Windows :
          /\ w.first \in Nat /\ w.last \in 0 .. PhysSize - 1
          /\ w.last < IO_GPU_START \/ w.first > IO_GPU_START + 7
          /\ \A b \in w.regs : b \in Nat /\ w.first <= b /\ b < w.last
    /\ \A b \in Reg : b % 4 = 0

ASSUME LoaderAssumption ==
    /\ JR_RA \in WordOf(4)
    /\ \A t \in Trampolines : t \in 0 .. RAM_SIZE - 8 /\ t % 4 = 0
    /\ BiosImages \subseteq [Lanes(BIOS_SIZE) -> Byte]
    /\ \A e \in Exes : /\ e.dest \in Nat /\ e.size \in Nat /\ e.dest + e.size <= RAM_SIZE
                       /\ e.memfill_start \in Nat /\ e.memfill_size \in Nat
                       /\ e.memfill_start + e.memfill_size <= RAM_SIZE
                       /\ e.data \in [Lanes(e.size) -> Byte]

VARIABLES
    mem,                        \* the arrays of struct Bus
    regs,                       \* the registers, by byte
    fetch_page, fetch_page_ptr, \* the page the CPU fetched from last, and where it is
    last                        \* the last access, with what it read or wrote

bus_vars == <<mem, regs, fetch_page, fetch_page_ptr, last>>

-----------------------------------------------------------------------------
physical_address(a) == a % PhysSize
get_page_index(a) == physical_address(a) \div PageSize
Offset(a) == a % PageSize

\* map_buffer: the entries of a table of pages for one of the arrays.  The table
\* for writes gets none for a read-only array.  (A slip: it gets them too.)
Memory(array, size, page, pages, ro) ==
    [array |-> array, size |-> size, start |-> page * PageSize,
     end |-> (page + pages) * PageSize - 1, read_only |-> ro]

map_buffer_writable(table, m, writing) ==
    [p \in Page |->
        IF m.start <= p * PageSize /\ p * PageSize < m.end
        THEN m.array + ((p * PageSize - m.start) % m.size)
        ELSE table[p]]

map_buffer(table, m, writing) ==
    [p \in Page |->
        IF m.start <= p * PageSize /\ p * PageSize < m.end /\ ~(writing /\ m.read_only)
        THEN m.array + ((p * PageSize - m.start) % m.size)
        ELSE table[p]]

\* bus_init: SCRATCHPAD_PHYS_END is the end of a page.
bus_init(writing) ==
    LET none == [p \in Page |-> NULL]
        ram == map_buffer(none, Memory(Ram, RAM_SIZE, 0, RamPages, FALSE), writing)
        exp1 == map_buffer(ram, Memory(Exp1, EXP1_SIZE, Exp1Page, Exp1Pages, FALSE), writing)
        scratchpad == map_buffer(exp1, Memory(Scratchpad, SCRATCHPAD_SIZE, ScratchpadPage, 1, FALSE),
                                 writing)
    IN  map_buffer(scratchpad, Memory(Bios, BIOS_SIZE, BiosPage, BiosPages, TRUE), writing)

\* Only bus_init writes the tables.
read_pages == bus_init(FALSE)
write_pages == bus_init(TRUE)

-----------------------------------------------------------------------------
(* The devices.                                                              *)

\* The address a device is given, and the registers in its switch.
io_address(a) == IF a >= IO_MEMCTRL_3_START THEN a ELSE physical_address(a)

io_registers(a) ==
    IF a >= IO_MEMCTRL_3_START THEN {CacheCtrl}
    ELSE UNION {w.regs : w \in {w \in Windows : w.first <= io_address(a) /\ io_address(a) <= w.last}}

\* The port that an address belongs to, or NULL.
PortOf(a) ==
    LET x == io_address(a)
    IN  IF x >= IO_GPU_START /\ x < IO_GPU_START + 8 THEN x - (x % 4) ELSE NULL

\* The macros for 16-bit registers: a byte of it at either address, the whole at
\* the base; of 32 bits the upper half reads as zero and is not written.  (A slip:
\* the second byte is not decoded.)
SelectedReg_whole(a, n) == {b \in io_registers(a) : io_address(a) = b}

SelectedReg(a, n) ==
    {b \in io_registers(a) : io_address(a) = b \/ (n = 1 /\ io_address(a) = b + 1)}

\* The byte at lane k of an access is the byte of the register at the same address.
RegLanes(a, n) == {k \in Lanes(n) : \E b \in SelectedReg(a, n) : io_address(a) + k \in {b, b + 1}}

\* What the devices other than the GPU answer, and their registers after a store.
regs_read(a, n) ==
    [k \in Lanes(n) |-> IF k \in RegLanes(a, n) THEN regs[io_address(a) + k] ELSE 0]

regs_write(a, n, v) ==
    [x \in RegByte |-> IF x - io_address(a) \in RegLanes(a, n) THEN v[x - io_address(a)] ELSE regs[x]]

regs_reset == [x \in RegByte |-> 0]

\* io_read: a port gives its lanes of a word, reg32_read8 and reg32_read16.
io_read(a, n, word) ==
    IF PortOf(a) # NULL THEN [k \in Lanes(n) |-> word[(io_address(a) % 4) + k]] ELSE regs_read(a, n)

\* io_write, as far as it is registers.
io_write(a, n, v) == regs' = IF PortOf(a) # NULL THEN regs ELSE regs_write(a, n, v)

\* What a port is given: reg32_write8 and reg32_write16 on a register of zeros.
PortWord(a, n, v) ==
    [k \in Lanes(4) |-> LET lane == k - (io_address(a) % 4) IN IF lane \in Lanes(n) THEN v[lane] ELSE 0]

-----------------------------------------------------------------------------
(* Accesses.  The CPU and the loader align them.                             *)

Aligned(a, n) == a \in Addr /\ n \in Size /\ a % n = 0

\* What bus_read8, 16 and 32 return, with a word for the case that a port answers.
ValueAt(a, n, word) ==
    LET ptr == read_pages[get_page_index(a)]
    IN  IF ptr # NULL THEN [k \in Lanes(n) |-> mem[ptr + Offset(a) + k]] ELSE io_read(a, n, word)

\* Memory with a value stored through the table for writes.
StoreIn(m, a, n, v) ==
    LET cell == write_pages[get_page_index(a)] + Offset(a)
    IN  [c \in DOMAIN m |-> IF c - cell \in Lanes(n) THEN v[c - cell] ELSE m[c]]

Access(op, a, v) == [op |-> op, addr |-> a, val |-> v]
Quiet(op) == Access(op, 0, <<>>)

bus_read(a, n, word) ==
    /\ Aligned(a, n)
    /\ last' = Access("read", a, ValueAt(a, n, word))
    /\ UNCHANGED <<mem, regs, fetch_page, fetch_page_ptr>>

bus_write(a, n, v) ==
    /\ Aligned(a, n)
    /\ \/ /\ write_pages[get_page_index(a)] # NULL
          /\ mem' = StoreIn(mem, a, n, v)
          /\ UNCHANGED regs
       \/ /\ write_pages[get_page_index(a)] = NULL
          /\ io_write(a, n, v)
          /\ UNCHANGED mem
    /\ last' = Access("write", a, v)
    /\ UNCHANGED <<fetch_page, fetch_page_ptr>>

\* Where the page of an address is.  (A slip: less the offset, which is added later.)
PagePtr_biased(a) == read_pages[get_page_index(a)] - Offset(a)
PagePtr(a) == read_pages[get_page_index(a)]

\* The page of the last fetch is looked up again only when it changes.
fetch_instruction(a, word) ==
    /\ Aligned(a, 4)
    /\ fetch_page' = get_page_index(a)
    /\ fetch_page_ptr' = IF fetch_page = fetch_page' THEN fetch_page_ptr ELSE PagePtr(a)
    /\ last' = Access("read", a,
                  IF fetch_page_ptr' = NULL THEN ValueAt(a, 4, word)
                  ELSE [k \in Lanes(4) |-> mem[fetch_page_ptr' + Offset(a) + k]])
    /\ UNCHANGED <<mem, regs>>

-----------------------------------------------------------------------------
(* Resets and loaders.                                                       *)

\* load_bios_trampolines and clear_bios_trampolines: two instructions at each.
Trampolined(m, inst) ==
    [c \in DOMAIN m |->
        IF \E t \in Trampolines : c - t \in Lanes(8)
        THEN LET t == CHOOSE t \in Trampolines : c - t \in Lanes(8)
             IN  IF c - t < 4 THEN inst[c - t] ELSE 0
        ELSE m[c]]

Blank == [c \in 0 .. Arena - 1 |-> 0]
ZeroWord == [k \in Lanes(4) |-> 0]

\* cpu_reset's part: no page is PageCount.  (A slip: what memset leaves.)
InvalidateFetch_zeroed == fetch_page' = 0 /\ fetch_page_ptr' = NULL
InvalidateFetch == fetch_page' = PageCount /\ fetch_page_ptr' = NULL

psx_reset ==
    /\ InvalidateFetch
    /\ mem' = Trampolined(Blank, JR_RA)
    /\ regs' = regs_reset
    /\ last' = Quiet("reset")

load_bios(image) ==
    /\ mem' = Trampolined([c \in DOMAIN mem |-> IF c >= Bios THEN image[c - Bios] ELSE mem[c]], ZeroWord)
    /\ last' = Quiet("load")
    /\ UNCHANGED <<regs, fetch_page, fetch_page_ptr>>

\* load_exe: the zeros first, then the data.
load_exe(exe) ==
    /\ mem' = [c \in DOMAIN mem |->
                  IF c - exe.dest \in Lanes(exe.size) THEN exe.data[c - exe.dest]
                  ELSE IF c - exe.memfill_start \in Lanes(exe.memfill_size) THEN 0 ELSE mem[c]]
    /\ last' = Quiet("load")
    /\ UNCHANGED <<regs, fetch_page, fetch_page_ptr>>

-----------------------------------------------------------------------------
(* Safety.                                                                   *)

\* The cached page is a page of an array, all of it inside struct Bus.
BusTypeOK ==
    /\ mem \in [0 .. Arena - 1 -> Byte]
    /\ regs \in [RegByte -> Byte]
    /\ fetch_page \in 0 .. PageCount
    /\ fetch_page_ptr \in {NULL} \cup 0 .. Arena - PageSize

\* The page that instructions are fetched from without a look at the tables is the
\* one the tables have, through resets, which clear the structure it is kept in,
\* and after fetches from addresses that are not mapped.
FetchCacheCoherent == fetch_page \in Page => fetch_page_ptr = read_pages[fetch_page]

\* The bus implements FlatMemory.  Where a byte is, by the ranges of physical
\* addresses in bus.h instead of pages: reads and writes differ in the BIOS only, and
\* the rest of the page of the scratchpad is the beginning of the BIOS.
In(a, page, pages) ==
    page * PageSize <= physical_address(a) /\ physical_address(a) < (page + pages) * PageSize
From(a, page) == physical_address(a) - page * PageSize

CellOf(a, writing) ==
    IF In(a, 0, RamPages) THEN Ram + From(a, 0)
    ELSE IF In(a, Exp1Page, Exp1Pages) THEN Exp1 + From(a, Exp1Page)
    ELSE IF In(a, ScratchpadPage, 1) THEN Scratchpad + From(a, ScratchpadPage)
    ELSE IF In(a, BiosPage, BiosPages) /\ ~writing THEN Bios + From(a, BiosPage)
    ELSE IF io_address(a) \in RegByte THEN Arena + io_address(a) ELSE NULL

Cells == 0 .. Arena - 1 \cup {Arena + x : x \in RegByte}
ReadMap == [a \in Addr |-> CellOf(a, FALSE)]
WriteMap == [a \in Addr |-> CellOf(a, TRUE)]

Flat == INSTANCE FlatMemory WITH
            Cell <- Cells, Image <- 0 .. Arena - 1, Ports <- {a \in Addr : PortOf(a) # NULL},
            cells <- [c \in Cells |-> IF c < Arena THEN mem[c] ELSE regs[c - Arena]]
ImplementsFlatMemory == Flat!Spec

\* No store of a program changes the BIOS: it is mapped read-only at bus.c:38, and
\* tests/test_bus.c:151 reads zeros after stores to it.  (A store to the scratchpad's
\* page, behind the 1 KB that bus.h:16 gives it, does.)
BiosReadOnly ==
    [][last'.op = "write" => \A c \in Bios .. Arena - 1 : mem'[c] = mem[c]]_bus_vars

\* How far that goes: of the BIOS only the beginning that shares a page with the
\* scratchpad changes, by stores to that page, whatever their width and segment.
\* The rest is as read-only as bus.c:38 means all of it to be.
BiosChangesBehindScratchpad ==
    [][last'.op = "write" =>
          \A c \in Bios .. Arena - 1 : mem'[c] # mem[c] =>
              /\ get_page_index(last'.addr) = ScratchpadPage
              /\ c < Scratchpad + PageSize]_bus_vars
==============================================================================
