--------------------------------- MODULE MCIo ---------------------------------
(* Values for the constants of Io: pages of eight bytes, ten of them, in two      *)
(* segments.  RAM has two pages, expansion 1 and the BIOS one each, the           *)
(* scratchpad half of one, and the devices four.                                *)
EXTENDS Io

MCByte == 0 .. 255
MCHalf == 0 .. 65535
MCDecode == [b \in MCByte |-> CASE b = 160 -> "vram_write" [] b = 192 -> "vram_read" [] OTHER -> "none"]
MCJrRa == [k \in Lanes(4) |-> <<8, 0, 224, 3>>[k + 1]]

\* Interrupts, a timer, memory control: two registers, one and one.
MCWindows ==
    {[first |-> 40, last |-> 47, regs |-> {40, 44}], [first |-> 48, last |-> 55, regs |-> {48}],
     [first |-> 56, last |-> 59, regs |-> {56}]}

MCBiosImages == {[k \in Lanes(BIOS_SIZE) |-> IF k = 0 THEN 9 ELSE 0]}
MCExes == {[dest |-> 12, size |-> 2, data |-> [k \in Lanes(2) |-> 7],
            memfill_start |-> 8, memfill_size |-> 8]}

Value(n, b) == [k \in Lanes(n) |-> IF k = n - 1 THEN b ELSE k]
Load(n, a) == [size |-> n, addr |-> a]
Store(n, a, v) == [size |-> n, addr |-> a, val |-> v]
Command(b0, b1, b2, b3) == [k \in Lanes(4) |-> <<b0, b1, b2, b3>>[k + 1]]

MCPrograms == {"memory", "display", "transfer"}

\* Every memory, device and hole, each width, and the mirror of the second segment.
MCLoads == [
    memory |-> {Load(4, 4), Load(2, 90), Load(1, 9), Load(4, 28), Load(2, 64), Load(2, 152), Load(4, 40),
                Load(1, 121), Load(2, 42), Load(4, 72)},
    display |-> {Load(4, 36), Load(1, 119), Load(1, 32)},
    transfer |-> {Load(4, 32), Load(1, 113)}]

\* The memories and two registers; then draw mode, display modes, ranges, the
\* display on and off, and bytes and halves of commands; then transfers of one pixel.
MCStores == [
    memory |-> {Store(4, 4, Value(4, 5)), Store(2, 90, Value(2, 6)), Store(4, 28, Value(4, 5)),
                Store(4, 64, Value(4, 5)), Store(4, 40, Value(4, 5)), Store(1, 121, Value(1, 6)),
                Store(2, 152, Value(2, 5))},
    display |-> {Store(4, 32, Command(0, 64, 0, 225)), Store(4, 36, Command(200, 2, 0, 8)),
                 Store(4, 116, Command(33, 0, 0, 8)), Store(4, 36, Command(4, 32, 0, 6)),
                 Store(4, 36, Command(5, 8, 0, 7)), Store(1, 36, Value(1, 1)),
                 Store(4, 36, Command(1, 0, 0, 3)), Store(1, 39, Value(1, 3)), Store(2, 38, Value(2, 4)),
                 Store(4, 36, Command(0, 0, 0, 1)), Store(4, 36, Command(7, 0, 0, 16)),
                 Store(4, 36, Command(0, 0, 0, 5))},
    transfer |-> {Store(4, 32, Command(0, 0, 0, 192)), Store(4, 112, Command(0, 0, 0, 160)),
                  Store(4, 32, Command(1, 0, 1, 0))}]

MCFetches == [memory |-> {4, 40, 68}, display |-> {32}, transfer |-> {}]
MCWords == {Halves(PortWord(s.addr, s.size, s.val)) : s \in UNION {MCStores[p] : p \in MCPrograms}}
==============================================================================
