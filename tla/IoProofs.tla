------------------------------- MODULE IoProofs -------------------------------
(* Programs on the bus with the GPU behind it, for every layout, program and     *)
(* size of video memory: the invariants of Bus and GpuDisplay, that what happens  *)
(* at the ports is a behaviour of Gpu, and that the bus implements FlatMemory.   *)
EXTENDS Io, BusProofs, GpuProofs

DisplayInv == DisplayTypeOK /\ OutputSizeFollows /\ StatusMirrorsMode
IoInv == BusInv /\ GpuInv /\ DisplayInv /\ program \in Programs

LEMMA Widths ==
    /\ CmdUnit \in Nat \ {0} /\ HalfMod \in Nat \ {0} /\ HalfMod = CmdUnit * CmdUnit
    /\ Byte = 0 .. CmdUnit - 1 /\ Half \subseteq 0 .. HalfMod - 1
<1>1. CmdUnit = 256 /\ HalfMod = 65536 /\ Byte = 0 .. 255
    BY WidthAssumption, SMT
<1>2. 256 * 256 = 65536 /\ 256 - 1 = 255
    BY SMT
<1>3. HalfMod = CmdUnit * CmdUnit
    BY <1>1, <1>2, SMT
<1>4. CmdUnit \in Nat \ {0} /\ HalfMod \in Nat \ {0} /\ CmdUnit - 1 = 255
    BY <1>1, SMT
<1>5. Byte = 0 .. CmdUnit - 1
    BY <1>1, <1>4, SMT
<1> QED BY <1>3, <1>4, <1>5, HalfAssumption, SMT

LEMMA IntRemainder == \A x \in Int, m \in Nat \ {0} : x % m \in 0 .. m - 1 /\ x % m \in Nat
BY SMT

\* The two bytes of a half.
LEMMA Bytes == \A x \in Half : x % CmdUnit \in Byte /\ x \div CmdUnit \in Byte
<1> TAKE x \in Half
<1> DEFINE q == x \div CmdUnit
           r == x % CmdUnit
<1>1. x \in Nat /\ x < CmdUnit * CmdUnit /\ CmdUnit \in Nat \ {0}
    BY Widths, SMT
<1>2. q \in Nat /\ r \in 0 .. CmdUnit - 1 /\ x = q * CmdUnit + r
    BY <1>1, Division
<1> HIDE DEF q, r
<1>3. q < CmdUnit
    <2> SUFFICES ASSUME CmdUnit <= q PROVE FALSE
        BY <1>1, <1>2, SMT
    <2>1. CmdUnit < q => CmdUnit * CmdUnit + CmdUnit <= q * CmdUnit
        BY <1>1, <1>2, Monotone
    <2>2. CmdUnit * CmdUnit <= q * CmdUnit
        BY <1>1, <1>2, <2>1, SMT
    <2>3. q * CmdUnit \in Nat /\ CmdUnit * CmdUnit \in Nat
        BY <1>1, <1>2, SMT
    <2> QED BY <1>1, <1>2, <2>2, <2>3, SMT
<1>4. r \in Byte /\ q \in Byte
    BY <1>1, <1>2, <1>3, Widths, SMT
<1> QED BY <1>4 DEF q, r

-----------------------------------------------------------------------------
(* The display.                                                              *)

LEMMA ParamNat ==
    ASSUME NEW v \in Word
    PROVE  Param(v) \in Nat
<1> DEFINE r == v.hi % CmdUnit
<1>1. v.hi \in Nat /\ v.lo \in Nat /\ CmdUnit \in Nat \ {0} /\ HalfMod \in Nat
    BY Widths, VramAssumption DEF Word
<1>2. r \in Nat
    BY <1>1, IntRemainder
<1> HIDE DEF r
<1>3. r * HalfMod + v.lo \in Nat
    BY <1>1, <1>2, SMT
<1> QED BY <1>3 DEF Param, r

LEMMA ModeShownType == \A mode \in SUBSET ModeBits : ModeShown(mode) \subseteq {14} \cup 16 .. 22
<1>1. \A i \in ModeBits : StatBit[i] \in {14} \cup 16 .. 22
    BY SMT DEF StatBit, ModeBits
<1> QED BY <1>1 DEF ModeShown

LEMMA DisplayStart == DisplayInit => DisplayInv
<1> SUFFICES ASSUME DisplayInit PROVE DisplayInv
    OBVIOUS
<1>1. (0 - 0) % HalfMod = 0 /\ 0 \in 0 .. HalfMod - 1
    <2>1. 0 \in 0 .. HalfMod - 1 /\ 0 - 0 = 0
        BY Widths, SMT
    <2> QED BY <2>1, Widths, Small
<1>2. DisplayTypeOK
    <2>1. ResetShown \subseteq 12 .. 23 /\ 0 \in Nat
        BY SMT DEF ResetShown
    <2> QED BY <1>1, <2>1 DEF DisplayInit, DisplayTypeOK
<1>3. OutputSizeFollows
    BY <1>1 DEF DisplayInit, OutputSizeFollows
<1>4. StatusMirrorsMode
    <2>1. ResetShown \cap 16 .. 22 = {} /\ ResetShown \cap {12, 13, 15} = {13} /\ 14 \notin ResetShown
        BY SMT DEF ResetShown
    <2> QED BY <2>1 DEF DisplayInit, StatusMirrorsMode
<1> QED BY <1>2, <1>3, <1>4 DEF DisplayInv

\* The size is computed from the range that has just been set.
LEMMA SizeSound ==
    ASSUME DisplayInv,
           display' \in [h_start : Nat, h_end : Nat, v_start : Nat, v_end : Nat, mode : SUBSET ModeBits],
           gp1_update_display_size(display'),
           UNCHANGED <<display_disabled, draw_mode, shown>>, display'.mode = display.mode
    PROVE  DisplayInv'
<1>1. \A x \in Nat, y \in Nat : (x - y) % HalfMod \in 0 .. HalfMod - 1
    <2>1. \A x \in Nat, y \in Nat : x - y \in Int
        BY SMT
    <2> QED BY <2>1, Widths, IntRemainder
<1>2. output_w' \in 0 .. HalfMod - 1 /\ output_h' \in 0 .. HalfMod - 1
    BY <1>1 DEF gp1_update_display_size
<1>3. DisplayTypeOK'
    BY <1>2 DEF DisplayInv, DisplayTypeOK
<1>4. OutputSizeFollows'
    BY DEF OutputSizeFollows, gp1_update_display_size
<1>5. StatusMirrorsMode'
    BY DEF DisplayInv, StatusMirrorsMode
<1> QED BY <1>3, <1>4, <1>5 DEF DisplayInv

LEMMA DisplayH ==
    ASSUME DisplayInv, NEW v \in Word, gp1_display_h(v)
    PROVE  DisplayInv'
<1> DEFINE h_start == Param(v) % 4096
           h_end == (Param(v) \div 4096) % 4096
<1>1. h_start \in Nat /\ h_end \in Nat
    <2>1. \A x \in Nat : x % 4096 \in Nat /\ (x \div 4096) % 4096 \in Nat
        BY SMT
    <2> QED BY <2>1, ParamNat
<1> HIDE DEF h_start, h_end
<1>2. display' = [display EXCEPT !.h_start = h_start, !.h_end = h_end]
    BY DEF gp1_display_h, h_start, h_end
<1>3. /\ display' \in [h_start : Nat, h_end : Nat, v_start : Nat, v_end : Nat, mode : SUBSET ModeBits]
      /\ display'.mode = display.mode
    BY <1>1, <1>2 DEF DisplayInv, DisplayTypeOK
<1> QED BY <1>3, SizeSound DEF gp1_display_h

LEMMA DisplayV ==
    ASSUME DisplayInv, NEW v \in Word, gp1_display_v(v)
    PROVE  DisplayInv'
<1> DEFINE v_start == Param(v) % 1024
           v_end == (Param(v) \div 1024) % 1024
<1>1. v_start \in Nat /\ v_end \in Nat
    <2>1. \A x \in Nat : x % 1024 \in Nat /\ (x \div 1024) % 1024 \in Nat
        BY SMT
    <2> QED BY <2>1, ParamNat
<1> HIDE DEF v_start, v_end
<1>2. display' = [display EXCEPT !.v_start = v_start, !.v_end = v_end]
    BY DEF gp1_display_v, v_start, v_end
<1>3. /\ display' \in [h_start : Nat, h_end : Nat, v_start : Nat, v_end : Nat, mode : SUBSET ModeBits]
      /\ display'.mode = display.mode
    BY <1>1, <1>2 DEF DisplayInv, DisplayTypeOK
<1> QED BY <1>3, SizeSound DEF gp1_display_v

\* What the status register shows of one mode is not touched when the other is set,
\* but for bit 14.
LEMMA DrawMode ==
    ASSUME DisplayInv, NEW v, gp0_draw_mode(v)
    PROVE  DisplayInv'
<1>1. draw_mode' \subseteq DrawModeBits /\ shown' = (shown \ DrawModeBits) \cup draw_mode'
      /\ UNCHANGED <<display, display_disabled, output_w, output_h>>
    BY DEF gp0_draw_mode, Bits
<1>2. \A i : i \in DrawModeBits <=> i \in {12, 13, 14, 15}
    BY SMT DEF DrawModeBits
<1>3. \A i \in 16 .. 22 : i \notin DrawModeBits
    BY SMT DEF DrawModeBits
<1>4. DisplayTypeOK'
    <2>1. DrawModeBits \subseteq 12 .. 23
        BY SMT DEF DrawModeBits
    <2> QED BY <1>1, <2>1 DEF DisplayInv, DisplayTypeOK
<1>5. shown' \cap 16 .. 22 = shown \cap 16 .. 22
    BY <1>1, <1>3
<1>6. shown' \cap {12, 13, 15} = draw_mode' \ {14}
    <2>1. \A i : i \in shown' \cap {12, 13, 15} <=> i \in draw_mode' \ {14}
        BY <1>1, <1>2, SMT
    <2> QED BY <2>1
<1>7. 14 \in shown' => 14 \in draw_mode'
    BY <1>1, <1>2
<1>8. StatusMirrorsMode'
    BY <1>1, <1>5, <1>6, <1>7 DEF DisplayInv, StatusMirrorsMode
<1>9. OutputSizeFollows'
    BY <1>1 DEF DisplayInv, OutputSizeFollows
<1> QED BY <1>4, <1>8, <1>9 DEF DisplayInv

LEMMA DisplayMode ==
    ASSUME DisplayInv, NEW v, gp1_display_mode(v)
    PROVE  DisplayInv'
<1> DEFINE mode == Bits(Param(v), ModeBits)
           m == ModeShown(mode)
<1>1. mode \in SUBSET ModeBits
    BY DEF Bits
<1>2. m \subseteq {14} \cup 16 .. 22
    BY <1>1, ModeShownType
<1>3. /\ display' = [display EXCEPT !.mode = mode] /\ shown' = (shown \ DISPLAY_MODE_MASK) \cup m
      /\ UNCHANGED <<display_disabled, output_w, output_h, draw_mode>>
    <2>1. display' = [display EXCEPT !.mode = mode] /\ shown' = (shown \ DISPLAY_MODE_MASK) \cup ModeShown(display'.mode)
        BY DEF gp1_display_mode
    <2>2. display'.mode = mode
        BY <2>1 DEF DisplayInv, DisplayTypeOK
    <2> QED BY <2>1, <2>2 DEF gp1_display_mode
<1>4. /\ display' \in [h_start : Nat, h_end : Nat, v_start : Nat, v_end : Nat, mode : SUBSET ModeBits]
      /\ display'.mode = mode
      /\ display'.h_start = display.h_start /\ display'.h_end = display.h_end
      /\ display'.v_start = display.v_start /\ display'.v_end = display.v_end
    BY <1>1, <1>3 DEF DisplayInv, DisplayTypeOK
<1> HIDE DEF mode
<1>5. OutputSizeFollows'
    BY <1>3, <1>4 DEF DisplayInv, OutputSizeFollows
<1>6. \A i : i \in DISPLAY_MODE_MASK <=> i = 14 \/ i \in 16 .. 23
    BY DEF DISPLAY_MODE_MASK
<1> DEFINE n == ModeShown(mode)
<1> HIDE DEF n
<1>7. n \subseteq {14} \cup 16 .. 22 /\ shown' = (shown \ DISPLAY_MODE_MASK) \cup n
    BY <1>2, <1>3 DEF n, m
<1>8. DisplayTypeOK'
    <2>1. {14} \cup 16 .. 22 \subseteq 12 .. 23
        BY SMT
    <2> QED BY <1>3, <1>4, <1>7, <2>1 DEF DisplayInv, DisplayTypeOK
<1>9. \A i \in 16 .. 22 : i \in 16 .. 23 /\ i # 14
    BY SMT
<1>10. \A i \in {12, 13, 15} : i \notin 16 .. 23 /\ i # 14 /\ i \notin 16 .. 22
    BY SMT
<1>11. shown' \cap 16 .. 22 = n \ {14}
    BY <1>6, <1>7, <1>9
<1>12. shown' \cap {12, 13, 15} = shown \cap {12, 13, 15}
    BY <1>6, <1>7, <1>10
<1>13. 14 \in shown' => 14 \in n
    BY <1>6, <1>7
<1>14. StatusMirrorsMode'
    BY <1>3, <1>4, <1>11, <1>12, <1>13 DEF DisplayInv, StatusMirrorsMode, n
<1> QED BY <1>5, <1>8, <1>14 DEF DisplayInv

LEMMA ToggleDisplay ==
    ASSUME DisplayInv, NEW v, gp1_toggle_display(v)
    PROVE  DisplayInv'
<1>1. /\ shown' = shown \ {23} \/ shown' = shown \cup {23}
      /\ display_disabled' \in BOOLEAN
      /\ UNCHANGED <<display, output_w, output_h, draw_mode>>
    BY DEF gp1_toggle_display, DISPLAY_DISABLED_BIT
<1>2. 23 \in 12 .. 23 /\ 23 \notin 16 .. 22 /\ 23 \notin {12, 13, 15} /\ 23 # 14
    BY SMT
<1>3. shown' \cap 16 .. 22 = shown \cap 16 .. 22
    BY <1>1, <1>2
<1>4. shown' \cap {12, 13, 15} = shown \cap {12, 13, 15}
    BY <1>1, <1>2
<1>5. 14 \in shown' => 14 \in shown
    BY <1>1, <1>2
<1>6. shown' \subseteq 12 .. 23
    BY <1>1, <1>2 DEF DisplayInv, DisplayTypeOK
<1> QED BY <1>1, <1>3, <1>4, <1>5, <1>6
        DEF DisplayInv, DisplayTypeOK, OutputSizeFollows, StatusMirrorsMode

LEMMA DisplayReset ==
    ASSUME DisplayInv, ResetDisplay
    PROVE  DisplayInv'
<1>1. /\ ResetShown \cap 16 .. 22 = {} /\ ResetShown \cap {12, 13, 15} = {13} /\ 14 \notin ResetShown
      /\ ResetShown \subseteq 12 .. 23
    BY SMT DEF ResetShown
<1> QED BY <1>1 DEF ResetDisplay, DisplayInv, DisplayTypeOK, OutputSizeFollows, StatusMirrorsMode

LEMMA DisplaySame == DisplayInv /\ UNCHANGED dvars => DisplayInv'
BY DEF dvars, DisplayInv, DisplayTypeOK, OutputSizeFollows, StatusMirrorsMode

-----------------------------------------------------------------------------
(* The ports.                                                                *)

\* A word written to a port is one operation of Gpu, or none, and the display
\* registers follow.
LEMMA Gp0Write ==
    ASSUME DisplayInv, NEW v \in Words \cap Pixels, gp0_write(v)
    PROVE  [GpuNext]_gvars /\ DisplayInv'
<1>1. CASE gp0_write_vram_data(v) /\ UNCHANGED dvars
    BY <1>1, DisplaySame DEF GpuNext
<1>2. CASE gp0_write_command(v) /\ gp0_draw_mode(v)
    BY <1>2, DrawMode DEF GpuNext
<1>3. CASE gp0_write_command(v) /\ UNCHANGED dvars
    BY <1>3, DisplaySame DEF GpuNext
<1> QED BY <1>1, <1>2, <1>3 DEF gp0_write

LEMMA Gp1Write ==
    ASSUME DisplayInv, NEW v \in Words \cap Pixels, gp1_write(v)
    PROVE  [GpuNext]_gvars /\ DisplayInv'
<1>1. v \in Word
    BY CommandAssumption
<1>2. CASE gp1_reset /\ ResetDisplay
    BY <1>2, DisplayReset DEF GpuNext
<1>3. CASE gp0_clear_fifo /\ UNCHANGED dvars
    BY <1>3, DisplaySame DEF GpuNext
<1>4. CASE gp1_toggle_display(v) /\ UNCHANGED gvars
    BY <1>4, ToggleDisplay
<1>5. CASE gp1_dma_direction(Param(v) % 4) /\ UNCHANGED dvars
    <2>1. \A x \in Nat : x % 4 \in 0 .. 3
        BY SMT
    <2>2. Param(v) % 4 \in Directions
        BY <1>1, <2>1, ParamNat, ProgramAssumption
    <2> QED BY <1>5, <2>2, DisplaySame DEF GpuNext
<1>6. CASE gp1_display_h(v) /\ UNCHANGED gvars
    BY <1>1, <1>6, DisplayH
<1>7. CASE gp1_display_v(v) /\ UNCHANGED gvars
    BY <1>1, <1>7, DisplayV
<1>8. CASE gp1_display_mode(v) /\ UNCHANGED gvars
    BY <1>8, DisplayMode
<1>9. CASE gp1_set_gpu_read /\ UNCHANGED dvars
    BY <1>9, DisplaySame DEF GpuNext
<1>10. CASE UNCHANGED <<gvars, dvars>>
    BY <1>10, DisplaySame
<1> QED BY <1>2, <1>3, <1>4, <1>5, <1>6, <1>7, <1>8, <1>9, <1>10 DEF gp1_write

LEMMA SeesRead ==
    ASSUME DisplayInv, NEW a, GpuSeesRead(a)
    PROVE  [GpuNext]_gvars /\ DisplayInv'
<1>1. CASE gp0_read /\ UNCHANGED dvars
    BY <1>1, DisplaySame DEF GpuNext
<1>2. CASE UNCHANGED <<gvars, dvars>>
    BY <1>2, DisplaySame
<1> QED BY <1>1, <1>2 DEF GpuSeesRead, ReadGp0

\* What a port answers is four bytes.
LEMMA PortType ==
    ASSUME GpuInv, NEW a
    PROVE  PortLanes(a) \in WordOf(4)
<1>1. ASSUME NEW v \in Word PROVE LanesOf(v) \in WordOf(4)
    <2>1. v.lo \in Half /\ v.hi \in Half
        BY DEF Word
    <2> QED BY <2>1, Bytes DEF LanesOf, WordOf
<1>2. Gp0Word \in Word
    BY PackType DEF Gp0Word, GpuInv, GpuTypeOK
<1>3. StatusLanes \in WordOf(4)
    <2> DEFINE bit(k, i, weight) == IF 8 * k + i \in StatusBits THEN weight ELSE 0
               sum(k) == bit(k, 0, 1) + bit(k, 1, 2) + bit(k, 2, 4) + bit(k, 3, 8)
                           + bit(k, 4, 16) + bit(k, 5, 32) + bit(k, 6, 64) + bit(k, 7, 128)
    <2>1. StatusLanes = [k \in Lanes(4) |-> sum(k)]
        BY DEF StatusLanes
    <2>2. \A k, i, w : bit(k, i, w) \in {0, w}
        OBVIOUS
    <2> HIDE DEF bit
    <2>3. ASSUME NEW k \in Lanes(4) PROVE sum(k) \in Byte
        <3>1. /\ bit(k, 0, 1) \in {0, 1} /\ bit(k, 1, 2) \in {0, 2} /\ bit(k, 2, 4) \in {0, 4}
              /\ bit(k, 3, 8) \in {0, 8} /\ bit(k, 4, 16) \in {0, 16} /\ bit(k, 5, 32) \in {0, 32}
              /\ bit(k, 6, 64) \in {0, 64} /\ bit(k, 7, 128) \in {0, 128}
            BY <2>2
        <3>2. sum(k) \in 0 .. 255
            BY <3>1, SMT
        <3> QED BY <3>2, WidthAssumption, SMT
    <2> HIDE DEF sum
    <2> QED BY <2>1, <2>3 DEF WordOf
<1> QED BY <1>1, <1>2, <1>3 DEF PortLanes

-----------------------------------------------------------------------------
(* The whole.                                                                *)

\* An operation of a program or of the machine: what it is for the bus, for the GPU
\* and for the display.
FlatNext == Flat!Read \/ Flat!Ask \/ Flat!Write \/ Flat!Load \/ Flat!Reset

LEMMA IoStep ==
    ASSUME IoInv, IoNext
    PROVE  BusInv' /\ FlatNext /\ [GpuNext]_gvars /\ DisplayInv' /\ program' \in Programs
<1>1. BusInv /\ GpuInv /\ DisplayInv /\ program \in Programs /\ program' = program
    BY DEF IoInv, IoNext
<1>2. ASSUME NEW l \in Loads[program], IoRead(l)
      PROVE  BusInv' /\ FlatNext /\ [GpuNext]_gvars /\ DisplayInv'
    <2>1. PortLanes(l.addr) \in WordOf(4)
        BY <1>1, PortType
    <2>2. BusInv' /\ (Flat!Read \/ Flat!Ask)
        BY <1>1, <1>2, <2>1, ReadStep DEF IoRead
    <2>3. [GpuNext]_gvars /\ DisplayInv'
        BY <1>1, <1>2, SeesRead DEF IoRead
    <2> QED BY <2>2, <2>3 DEF FlatNext
<1>3. ASSUME NEW a \in Fetches[program], IoFetch(a)
      PROVE  BusInv' /\ FlatNext /\ [GpuNext]_gvars /\ DisplayInv'
    <2>1. PortLanes(a) \in WordOf(4)
        BY <1>1, PortType
    <2>2. BusInv' /\ (Flat!Read \/ Flat!Ask)
        BY <1>1, <1>3, <2>1, FetchStep DEF IoFetch
    <2>3. [GpuNext]_gvars /\ DisplayInv'
        BY <1>1, <1>3, SeesRead DEF IoFetch
    <2> QED BY <2>2, <2>3 DEF FlatNext
<1>4. ASSUME NEW s \in Stores[program], IoWrite(s)
      PROVE  BusInv' /\ FlatNext /\ [GpuNext]_gvars /\ DisplayInv'
    <2> DEFINE word == Halves(PortWord(s.addr, s.size, s.val))
    <2>1. s.val \in WordOf(s.size) /\ word \in Words \cap Pixels
        BY <1>1, ProgramAssumption
    <2>2. BusInv' /\ Flat!Write
        BY <1>1, <1>4, <2>1, WriteStep DEF IoWrite
    <2>3. gp0_write(word) \/ gp1_write(word) \/ UNCHANGED <<gvars, dvars>>
        BY <1>4 DEF IoWrite
    <2> HIDE DEF word
    <2>4. [GpuNext]_gvars /\ DisplayInv'
        BY <1>1, <2>1, <2>3, Gp0Write, Gp1Write, DisplaySame
    <2> QED BY <2>2, <2>4 DEF FlatNext
<1>5. CASE IoReset
    BY <1>1, <1>5, ResetStep, DisplayReset DEF IoReset, GpuNext, FlatNext
<1>6. CASE IoLoad
    <2>1. BusInv' /\ Flat!Load
        BY <1>1, <1>6, BiosStep, ExeStep DEF IoLoad
    <2>2. UNCHANGED <<gvars, dvars>>
        BY <1>6 DEF IoLoad
    <2> QED BY <1>1, <2>1, <2>2, DisplaySame DEF FlatNext
<1> QED BY <1>1, <1>2, <1>3, <1>4, <1>5, <1>6 DEF IoNext

LEMMA IoStart == IoInit => IoInv /\ Flat!Init
<1> SUFFICES ASSUME IoInit PROVE IoInv /\ Flat!Init
    OBVIOUS
<1>1. regs \in [RegByte -> Byte]
    BY ProgramAssumption, DeviceAssumption DEF IoInit
<1>2. BusInv
    BY <1>1, Started DEF IoInit
<1>3. FlatCells \in [Cells -> Byte]
    BY <1>1, <1>2, FlatType DEF BusInv, BusTypeOK
<1>4. last = Flat!Quiet("reset")
    BY DEF IoInit, Flat!Quiet, Quiet, Access
<1>5. Flat!Init
    BY <1>3, <1>4 DEF Flat!Init, FlatCells
<1> QED BY <1>2, <1>5, InitInv, DisplayStart DEF IoInv, IoInit

LEMMA IoKeeps == IoInv /\ [IoNext]_io_vars => IoInv'
<1>1. ASSUME IoInv, IoNext PROVE IoInv'
    BY <1>1, IoStep, StepInv DEF IoInv
<1>2. ASSUME IoInv, UNCHANGED io_vars PROVE IoInv'
    <2>1. UNCHANGED bus_vars /\ UNCHANGED gvars /\ UNCHANGED dvars /\ program' = program
        BY <1>2 DEF io_vars
    <2>2. BusInv'
        BY <1>2, <2>1 DEF IoInv, bus_vars, BusInv, BusTypeOK, FetchCacheCoherent
    <2> QED BY <1>2, <2>1, <2>2, StepInv, DisplaySame DEF IoInv
<1> QED BY <1>1, <1>2

\* The invariant of the composition: no program, no reset and no loader breaks it.
THEOREM IoInvariance == IoSpec => []IoInv
BY IoStart, IoKeeps, PTL DEF IoSpec

\* The page cached by the instruction fetch (cpu.c) is always the one of bus.c's
\* tables, whatever was fetched, loaded and reset in between.
THEOREM FetchCacheSafe == IoSpec => []FetchCacheCoherent
BY IoInvariance, PTL DEF IoInv, BusInv

\* Memory, registers and the cached pointer keep inside struct Bus (bus.h).
THEOREM BusTypeCorrect == IoSpec => []BusTypeOK
BY IoInvariance, PTL DEF IoInv, BusInv

LEMMA IoDamage ==
    ASSUME IoInv, IoNext, last'.op = "write", NEW c \in Bios .. Arena - 1, mem'[c] # mem[c]
    PROVE  get_page_index(last'.addr) = ScratchpadPage /\ c < Scratchpad + PageSize
<1>1. ASSUME NEW s \in Stores[program], IoWrite(s)
      PROVE  get_page_index(last'.addr) = ScratchpadPage /\ c < Scratchpad + PageSize
    <2>1. BusInv /\ bus_write(s.addr, s.size, s.val)
        BY <1>1 DEF IoInv, IoWrite
    <2>2. last'.addr = s.addr
        BY <2>1 DEF bus_write, Access
    <2>3. get_page_index(s.addr) = ScratchpadPage /\ c < Scratchpad + PageSize
        BY <2>1, DamageBehind
    <2> QED BY <2>2, <2>3
<1>2. ASSUME NEW l \in Loads[program], IoRead(l) PROVE FALSE
    BY <1>2 DEF IoRead, bus_read
<1>3. ASSUME NEW a \in Fetches[program], IoFetch(a) PROVE FALSE
    BY <1>3 DEF IoFetch, fetch_instruction
<1>4. ~IoReset
    BY DEF IoReset, psx_reset, Quiet, Access
<1>5. ~IoLoad
    <2>1. IoLoad => last' = Quiet("load")
        BY DEF IoLoad, load_bios, load_exe
    <2>2. Quiet("load").op = "load"
        BY DEF Quiet, Access
    <2> QED BY <2>1, <2>2
<1> QED BY <1>1, <1>2, <1>3, <1>4, <1>5 DEF IoNext

\* No store of any program changes the BIOS but where bus.c:37 maps the page of the
\* scratchpad over it: the damage that bios_rom shows goes no further.
THEOREM BiosDamageBounded == IoSpec => BiosChangesBehindScratchpad
<1> DEFINE Bounded ==
        last'.op = "write" =>
            \A c \in Bios .. Arena - 1 : mem'[c] # mem[c] =>
                /\ get_page_index(last'.addr) = ScratchpadPage
                /\ c < Scratchpad + PageSize
<1>1. IoInv /\ [IoNext]_io_vars => [Bounded]_bus_vars
    <2>1. ASSUME IoInv, IoNext PROVE Bounded
        BY <2>1, IoDamage
    <2>2. UNCHANGED io_vars => UNCHANGED bus_vars
        BY DEF io_vars
    <2> QED BY <2>1, <2>2
<1> QED BY <1>1, IoInvariance, PTL DEF IoSpec, BiosChangesBehindScratchpad

\* The display registers of gp1.c keep their ranges and the status register its bits.
THEOREM DisplayTypeCorrect == IoSpec => []DisplayTypeOK
BY IoInvariance, PTL DEF IoInv, DisplayInv

\* The size kept by gp1_update_display_size is that of the displayed range.
THEOREM OutputSizeSafe == IoSpec => []OutputSizeFollows
BY IoInvariance, PTL DEF IoInv, DisplayInv

\* The mode bits of the status register are those of the last commands or of the
\* last reset (gp0.c, gp1.c, gpu_reset).
THEOREM StatusMirrorSafe == IoSpec => []StatusMirrorsMode
BY IoInvariance, PTL DEF IoInv, DisplayInv

\* Every step of the whole is one operation of the GPU, or none.
LEMMA IoGpu == IoInv /\ [IoNext]_io_vars => [GpuNext]_gvars
<1>1. ASSUME IoInv, IoNext PROVE [GpuNext]_gvars
    BY <1>1, IoStep
<1>2. ASSUME UNCHANGED io_vars PROVE UNCHANGED gvars
    BY <1>2 DEF io_vars
<1> QED BY <1>1, <1>2

\* What programs do to the GPU through bus.h's accesses, of any width, is a
\* behaviour of Gpu: its invariants hold behind the ports.
THEOREM PortsDriveGpu == IoSpec => GpuSpec
<1>1. IoInit => GpuInit
    BY DEF IoInit
<1> QED BY <1>1, IoInvariance, IoGpu, PTL DEF IoSpec, GpuSpec

\* The loads and stores of programs, of any width and in any segment, transfer
\* rectangles as Transfers promises: the ports of bus.h lose nothing of what gp0.c does.
THEOREM PortsTransfer == IoSpec => ImplementsTransfers
BY PortsDriveGpu, TransferRefinement, PTL

LEMMA IoFlat == IoInv /\ [IoNext]_io_vars => [Flat!Next]_(Flat!fvars)
<1>1. ASSUME IoInv, IoNext PROVE Flat!Next
    BY <1>1, IoStep DEF FlatNext, Flat!Next
<1>2. ASSUME UNCHANGED io_vars PROVE UNCHANGED <<FlatCells, last>>
    BY <1>2 DEF io_vars, bus_vars, FlatCells
<1> QED BY <1>1, <1>2 DEF Flat!fvars, FlatCells

\* The bus, with its tables by pages, its decoders and its fetch cache, implements
\* the memory that programs are promised: bytes at addresses, read as last written.
THEOREM BusRefinement == IoSpec => ImplementsFlatMemory
<1>1. IoSpec => Flat!Spec
    BY IoStart, IoFlat, IoInvariance, PTL DEF IoSpec, Flat!Spec
<1> QED BY <1>1 DEF ImplementsFlatMemory
=============================================================================
