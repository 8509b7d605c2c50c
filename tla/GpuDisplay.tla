------------------------------ MODULE GpuDisplay ------------------------------
(* The whole of the GPU's two ports: what Gpu leaves out, which are the display *)
(* registers (gp1.c), the draw mode (gp0.c) and their copies in the status     *)
(* register, and the words that arrive at the ports sorted into commands.  Of  *)
(* the registers, those that nothing reads back are left out: the position of  *)
(* the display in video memory, the size of that memory and the mask setting.  *)
EXTENDS Gpu

CONSTANT HalfMod    \* halves of a word are below this, 2^16 in the code

ASSUME HalfAssumption == HalfMod \in Nat \ {0} /\ Half \subseteq 0 .. HalfMod - 1

VARIABLES
    display,            \* the displayed range, and the mode as the bits of the command
    display_disabled,
    output_w, output_h, \* the size of the range, kept apart
    draw_mode,          \* bits 12 to 15 of draw_mode_raw
    shown               \* bits 12 to 23 of gpu_stat

dvars == <<display, display_disabled, output_w, output_h, draw_mode, shown>>

DrawModeBits == 12 .. 15
DISPLAY_DISABLED_BIT == 23
DISPLAY_MODE_MASK == {14} \cup 16 .. 23
ModeBits == 0 .. 9
Bits(v, range) == {i \in range : (v \div 2^i) % 2 = 1}

\* The bits of the status register for the bits of a display mode: horizontal
\* resolution (0 and 1), vertical resolution (2 and 3), 368 pixels (4), video mode
\* (5 and 6), color depth (7), interlaced (8), reverse (9).  Shifted into place,
\* two pairs of them fall together.
StatBit == [i \in ModeBits |-> <<17, 18, 19, 20, 16, 20, 21, 21, 22, 14>>[i + 1]]
ModeShown(mode) == {StatBit[i] : i \in mode}
ResetShown == {13, 23}

DisplayTypeOK ==
    /\ display \in [h_start : Nat, h_end : Nat, v_start : Nat, v_end : Nat, mode : SUBSET ModeBits]
    /\ display_disabled \in BOOLEAN
    /\ output_w \in 0 .. HalfMod - 1 /\ output_h \in 0 .. HalfMod - 1
    /\ draw_mode \subseteq DrawModeBits
    /\ shown \subseteq 12 .. 23

DisplayInit ==
    /\ display = [h_start |-> 0, h_end |-> 0, v_start |-> 0, v_end |-> 0, mode |-> {}]
    /\ display_disabled = FALSE
    /\ output_w = 0 /\ output_h = 0
    /\ draw_mode = {}
    /\ shown = ResetShown

-----------------------------------------------------------------------------
Param(v) == (v.hi % CmdUnit) * HalfMod + v.lo

\* GP0(E1h).  Its bit 14 is the reverse flag of the display mode as well.
gp0_draw_mode(v) ==
    /\ draw_mode' = Bits(Param(v), DrawModeBits)
    /\ shown' = (shown \ DrawModeBits) \cup draw_mode'
    /\ UNCHANGED <<display, display_disabled, output_w, output_h>>

\* GP1(03h): the bit is set while the display is not disabled.
gp1_toggle_display(v) ==
    /\ display_disabled' = (Param(v) % 2 = 1)
    /\ shown' = IF display_disabled' THEN shown \ {DISPLAY_DISABLED_BIT}
                                     ELSE shown \cup {DISPLAY_DISABLED_BIT}
    /\ UNCHANGED <<display, output_w, output_h, draw_mode>>

\* The sizes are kept in 16 bits.  (A slip: as they are.)
gp1_update_display_size_signed(d) ==
    /\ output_w' = d.h_end - d.h_start
    /\ output_h' = d.v_end - d.v_start

gp1_update_display_size(d) ==
    /\ output_w' = (d.h_end - d.h_start) % HalfMod
    /\ output_h' = (d.v_end - d.v_start) % HalfMod

\* GP1(06h) and GP1(07h).  (A slip: the vertical range leaves the size as it was.)
gp1_display_h(v) ==
    /\ display' = [display EXCEPT !.h_start = Param(v) % 4096, !.h_end = (Param(v) \div 4096) % 4096]
    /\ gp1_update_display_size(display')
    /\ UNCHANGED <<display_disabled, draw_mode, shown>>

gp1_display_v_only(v) ==
    /\ display' = [display EXCEPT !.v_start = Param(v) % 1024, !.v_end = (Param(v) \div 1024) % 1024]
    /\ UNCHANGED <<display_disabled, draw_mode, shown, output_w, output_h>>

gp1_display_v(v) ==
    /\ display' = [display EXCEPT !.v_start = Param(v) % 1024, !.v_end = (Param(v) \div 1024) % 1024]
    /\ gp1_update_display_size(display')
    /\ UNCHANGED <<display_disabled, draw_mode, shown>>

\* GP1(08h): the mask covers the bit of GP1(03h) too.  (A slip: the bits of the
\* mode before stay.)
gp1_display_mode_added(v) ==
    /\ display' = [display EXCEPT !.mode = Bits(Param(v), ModeBits)]
    /\ shown' = shown \cup ModeShown(display'.mode)
    /\ UNCHANGED <<display_disabled, output_w, output_h, draw_mode>>

gp1_display_mode(v) ==
    /\ display' = [display EXCEPT !.mode = Bits(Param(v), ModeBits)]
    /\ shown' = (shown \ DISPLAY_MODE_MASK) \cup ModeShown(display'.mode)
    /\ UNCHANGED <<display_disabled, output_w, output_h, draw_mode>>

ResetDisplay == shown' = ResetShown /\ UNCHANGED <<display, display_disabled, output_w, output_h, draw_mode>>

-----------------------------------------------------------------------------
(* The ports.                                                                *)

Gp1Code(v) == v.hi \div CmdUnit
DRAW_MODE == 225                \* 0xE1
Latched == {2, 3, 4, 5, 7, 8}   \* what GP1(10h) can latch for GP0 to answer

\* gp1_write.  GP1(02h) clears a bit that is never set; the commands that write
\* what is left out, and unknown ones, change nothing here.
gp1_write(v) ==
    \/ Gp1Code(v) = 0 /\ gp1_reset /\ ResetDisplay
    \/ Gp1Code(v) = 1 /\ gp0_clear_fifo /\ UNCHANGED dvars
    \/ Gp1Code(v) = 3 /\ gp1_toggle_display(v) /\ UNCHANGED gvars
    \/ Gp1Code(v) = 4 /\ gp1_dma_direction(Param(v) % 4) /\ UNCHANGED dvars
    \/ Gp1Code(v) = 6 /\ gp1_display_h(v) /\ UNCHANGED gvars
    \/ Gp1Code(v) = 7 /\ gp1_display_v(v) /\ UNCHANGED gvars
    \/ Gp1Code(v) = 8 /\ gp1_display_mode(v) /\ UNCHANGED gvars
    \/ Gp1Code(v) = 16 /\ Param(v) % 16 \in Latched /\ gp1_set_gpu_read /\ UNCHANGED dvars
    \/ /\ Gp1Code(v) \notin {0, 1, 3, 4, 6, 7, 8} /\ ~(Gp1Code(v) = 16 /\ Param(v) % 16 \in Latched)
       /\ UNCHANGED <<gvars, dvars>>

\* gp0_write.
gp0_write(v) ==
    \/ gp0_write_vram_data(v) /\ UNCHANGED dvars
    \/ /\ gp0_write_command(v)
       /\ \/ gp0_buffer = <<>> /\ Gp1Code(v) = DRAW_MODE /\ gp0_draw_mode(v)
          \/ ~(gp0_buffer = <<>> /\ Gp1Code(v) = DRAW_MODE) /\ UNCHANGED dvars

\* A read of GP0: the word, and what the read does.
Gp0Word == IF vram_read.active THEN Pack(vram_read) ELSE gpu_read
ReadGp0 ==
    \/ gp0_read /\ UNCHANGED dvars
    \/ ~vram_read.active /\ UNCHANGED <<gvars, dvars>>

\* A read of GP1.  Two bits never change after a reset: 26 and 28.
StatusBits ==
    shown \cup {26, 28} \cup {i \in {25} : gpu_stat.drq} \cup {i \in {27} : gpu_stat.read_ready}
          \cup {i + 29 : i \in Bits(gpu_stat.dma, {0, 1})}

-----------------------------------------------------------------------------
(* Safety.                                                                   *)

\* The size of the output is always that of the displayed range, though two
\* commands and no reset change the range, and the size is computed apart.
OutputSizeFollows ==
    /\ output_w = (display.h_end - display.h_start) % HalfMod
    /\ output_h = (display.v_end - display.v_start) % HalfMod

\* What the status register shows of the display mode and of the draw mode is either
\* what the last command set or what a reset of the status register left, never a
\* mixture with an earlier mode.  Bit 14 belongs to both.
StatusMirrorsMode ==
    /\ shown \cap 16 .. 22 \in {{}, ModeShown(display.mode) \ {14}}
    /\ shown \cap {12, 13, 15} \in {{13}, draw_mode \ {14}}
    /\ 14 \in shown => 14 \in draw_mode \cup ModeShown(display.mode)
==============================================================================
