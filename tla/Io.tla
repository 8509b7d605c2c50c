---------------------------------- MODULE Io ----------------------------------
(* Programs, the bus and the GPU together: a load or a store at one of the      *)
(* ports, of any width and in any segment, is a word for the GPU, and a reset    *)
(* of the machine resets the memory, the registers and the GPU.                *)
EXTENDS Bus, GpuDisplay

CONSTANTS
    Programs,   \* one of these programs runs
    Loads,      \* the loads of each program: size and address
    Stores,     \* its stores: size, address and value
    Fetches,    \* the addresses it runs at
    Timers,     \* the registers that psx_create resets
    Garbage     \* what memory from malloc may hold in every byte of the others

\* A word as the bus has it, and as Gpu has it.
Halves(w) == [hi |-> w[2] + CmdUnit * w[3], lo |-> w[0] + CmdUnit * w[1]]

\* The widths are those of the code, and the words a program stores are words of Gpu.
ASSUME WidthAssumption == Byte = 0 .. 255 /\ CmdUnit = 256 /\ HalfMod = 65536
ASSUME ProgramAssumption ==
    /\ \A p \in Programs :
          /\ \A l \in Loads[p] : Aligned(l.addr, l.size)
          /\ \A s \in Stores[p] :
                /\ Aligned(s.addr, s.size) /\ s.val \in WordOf(s.size)
                /\ Halves(PortWord(s.addr, s.size, s.val)) \in Words \cap Pixels
          /\ \A a \in Fetches[p] : Aligned(a, 4)
    /\ Directions = 0 .. 3
    /\ Timers \subseteq Reg /\ Garbage \subseteq Byte

VARIABLE program

io_vars == <<bus_vars, gvars, dvars, program>>

LanesOf(v) == [k \in Lanes(4) |->
                  LET half == IF k < 2 THEN v.lo ELSE v.hi
                  IN  IF k % 2 = 0 THEN half % CmdUnit ELSE half \div CmdUnit]
StatusLanes ==
    [k \in Lanes(4) |-> LET bit(i, weight) == IF 8 * k + i \in StatusBits THEN weight ELSE 0
                        IN  bit(0, 1) + bit(1, 2) + bit(2, 4) + bit(3, 8)
                                + bit(4, 16) + bit(5, 32) + bit(6, 64) + bit(7, 128)]

GP0 == IO_GPU_START
GP1 == IO_GPU_START + 4
PortLanes(a) == IF PortOf(a) = GP0 THEN LanesOf(Gp0Word) ELSE StatusLanes

\* An address where no memory answers, so that a port can.
Reaches(table, a, port) == table[get_page_index(a)] = NULL /\ PortOf(a) = port

\* psx_create: the reset of the devices, but for the interrupt controller and the
\* memory control registers.  What gpu_reset leaves alone starts as zeros (see Gpu).
IoInit ==
    /\ mem = Trampolined(Blank, JR_RA)
    /\ \E g \in Garbage :
          regs = [x \in RegByte |-> IF \E b \in Timers : x \in {b, b + 1} THEN 0 ELSE g]
    /\ fetch_page = PageCount /\ fetch_page_ptr = NULL
    /\ last = Quiet("reset")
    /\ GpuInit /\ DisplayInit
    /\ program \in Programs

\* What a read does to the GPU: every read of GP0 takes a word, narrow ones too.
GpuSeesRead(a) ==
    IF Reaches(read_pages, a, GP0) THEN ReadGp0 ELSE UNCHANGED <<gvars, dvars>>

IoRead(l) == bus_read(l.addr, l.size, PortLanes(l.addr)) /\ GpuSeesRead(l.addr)

IoFetch(a) == fetch_instruction(a, PortLanes(a)) /\ GpuSeesRead(a)

IoWrite(s) ==
    /\ bus_write(s.addr, s.size, s.val)
    /\ LET word == Halves(PortWord(s.addr, s.size, s.val))
       IN  IF Reaches(write_pages, s.addr, GP0) THEN gp0_write(word)
           ELSE IF Reaches(write_pages, s.addr, GP1) THEN gp1_write(word)
           ELSE UNCHANGED <<gvars, dvars>>

IoReset == psx_reset /\ gpu_reset /\ ResetDisplay

IoLoad ==
    /\ (\E image \in BiosImages : load_bios(image)) \/ (\E exe \in Exes : load_exe(exe))
    /\ UNCHANGED <<gvars, dvars>>

IoNext ==
    /\ \/ \E l \in Loads[program] : IoRead(l)
       \/ \E a \in Fetches[program] : IoFetch(a)
       \/ \E s \in Stores[program] : IoWrite(s)
       \/ IoReset
       \/ IoLoad
    /\ UNCHANGED program

IoSpec == IoInit /\ [][IoNext]_io_vars
==============================================================================
