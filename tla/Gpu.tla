--------------------------------- MODULE Gpu ---------------------------------
(* The GPU as far as it goes: the GP0 command buffer and the transfers between *)
(* the program and video memory (gp0.c), the GP1 commands that touch them     *)
(* (gp1.c) and the DMA request bit (gpu.c).  It draws nothing yet.  The display *)
(* registers, the draw mode and the mask setting, which nothing reads, and     *)
(* their copies in the status register are left out; so are the bits of it    *)
(* that no command changes (FIFO empty, interrupt).                           *)
EXTENDS Integers, Sequences

CONSTANTS
    VramW, VramH,   \* pixels of video memory, 1024 by 512 in the code
    Half,           \* the halves of a word, numbers below 2^16 in the code
    CmdUnit,        \* the upper half holds the command times this (2^8), and 8 bits
    CountMod,       \* counters are numbers below CountMod (2^32 in the code)
    Decode,         \* the GP0 command a command byte stands for
    Words,          \* the words a program writes to GP0
    Pixels,         \* the words it writes while a transfer takes them
    Directions      \* the DMA directions it sets: two bits in the code

Attr == {"tex_window", "draw_tl", "draw_br", "draw_offset"}
Gp0Cmd == Attr \cup {"none", "fill", "vram_write", "vram_read"}
Word == [hi : Half, lo : Half]
Zero == [hi |-> 0, lo |-> 0]
Place == (0 .. VramW - 1) \X (0 .. VramH - 1)

ASSUME VramAssumption ==
    /\ VramW \in Nat \ {0} /\ VramH \in Nat \ {0} /\ CmdUnit \in Nat \ {0}
    /\ Half \subseteq Nat /\ 0 \in Half /\ 2 \in Half
    /\ \A h \in Half : h % CmdUnit \in Half
    /\ CountMod \in Nat /\ CountMod > (VramW - 1) * (VramH - 1)
ASSUME CommandAssumption ==
    /\ Decode \in [{h \div CmdUnit : h \in Half} -> Gp0Cmd]
    /\ Words \subseteq Word /\ Pixels \subseteq Word /\ Directions \subseteq 0 .. 3

VARIABLES
    vram,
    gp0_buffer,     \* the words of a command that is not complete; gp0_count is its length
    gp0_expected,   \* how many words the command has
    vram_read, vram_write,
    gpu_read,       \* the word that GP0 answers outside a transfer
    render_attr,    \* what GP0(E2h..E5h) set
    dma_direction,
    gpu_stat        \* ready to send (bit 27), DMA request (25) and direction (29, 30)

gvars == <<vram, gp0_buffer, gp0_expected, vram_read, vram_write, gpu_read, render_attr,
           dma_direction, gpu_stat>>

Transfer == [active : BOOLEAN,
             x : 0 .. VramW - 1, y : 0 .. VramH - 1,
             w : 0 .. VramW - 1, h : 0 .. VramH - 1,
             cur_x : 0 .. VramW - 1, cur_y : 0 .. VramH,
             pixels_left : 0 .. CountMod - 1, words_left : 0 .. CountMod - 1]
GpuStat == [read_ready : BOOLEAN, drq : BOOLEAN, dma : 0 .. 3]

GpuTypeOK ==
    /\ vram \in [Place -> Half]
    /\ gp0_buffer \in Seq(Words) /\ gp0_expected \in {0, 1, 3}
    /\ vram_read \in Transfer /\ vram_write \in Transfer
    /\ gpu_read \in Word /\ render_attr \in [Attr -> Word]
    /\ dma_direction \in 0 .. 3
    /\ gpu_stat \in GpuStat

\* psx_create takes the structure from malloc, psx_reset clears video memory and
\* the status register; the rest starts as the zeros of fresh pages (the
\* structure is several megabytes).
Idle == [active |-> FALSE, x |-> 0, y |-> 0, w |-> 0, h |-> 0, cur_x |-> 0, cur_y |-> 0,
         pixels_left |-> 0, words_left |-> 0]
ResetStat == [read_ready |-> FALSE, drq |-> FALSE, dma |-> 0]

GpuInit ==
    /\ vram = [p \in Place |-> 0]
    /\ gp0_buffer = <<>> /\ gp0_expected = 0
    /\ vram_read = Idle /\ vram_write = Idle
    /\ gpu_read = Zero /\ render_attr = [a \in Attr |-> Zero]
    /\ dma_direction = 0
    /\ gpu_stat = ResetStat

-----------------------------------------------------------------------------
\* The pixel a transfer stands at, and the transfer one pixel on.  (A slip: the
\* cursor leaves the rectangle by one before it turns.)
At(t) == <<(t.x + t.cur_x) % VramW, (t.y + t.cur_y) % VramH>>

Advance_past_edge(t) ==
    LET moved == [t EXCEPT !.cur_x = @ + 1, !.pixels_left = @ - 1]
    IN  IF moved.cur_x > t.w THEN [moved EXCEPT !.cur_x = 0, !.cur_y = @ + 1] ELSE moved

Advance(t) ==
    LET moved == [t EXCEPT !.cur_x = @ + 1, !.pixels_left = @ - 1]
    IN  IF moved.cur_x >= t.w THEN [moved EXCEPT !.cur_x = 0, !.cur_y = @ + 1] ELSE moved

\* A transfer of the rectangle that two words name.  (A slip: the last pixel of an
\* odd number gets no word.)
StartOf_rounding_down(coords, size) ==
    LET w == size.hi % VramW
        h == size.lo % VramH
    IN  [active |-> TRUE, x |-> coords.hi % VramW, y |-> coords.lo % VramH, w |-> w, h |-> h,
         cur_x |-> 0, cur_y |-> 0,
         pixels_left |-> w * h, words_left |-> (w * h) \div 2]

StartOf(coords, size) ==
    LET w == size.hi % VramW
        h == size.lo % VramH
    IN  [active |-> TRUE, x |-> coords.hi % VramW, y |-> coords.lo % VramH, w |-> w, h |-> h,
         cur_x |-> 0, cur_y |-> 0,
         pixels_left |-> w * h, words_left |-> (w * h + 1) \div 2]

\* What the DMA request bit should be with these registers.
Drq(dir, count, rd) ==
    \/ dir = 1 /\ count > 0
    \/ dir = 2 /\ rd.active /\ rd.words_left > 0

-----------------------------------------------------------------------------
\* The transfer after a word was read.  words_left counts words, and below zero
\* when the rectangle was empty.  (A slip: it counts pixels.)
ReadOn_by_pixels(t) ==
    LET one == IF t.pixels_left > 0 THEN Advance(t) ELSE t
        two == IF one.pixels_left > 0 THEN Advance(one) ELSE one
        left == (t.words_left - 2) % CountMod
    IN  [two EXCEPT !.words_left = left, !.active = left # 0]

ReadOn(t) ==
    LET one == IF t.pixels_left > 0 THEN Advance(t) ELSE t
        two == IF one.pixels_left > 0 THEN Advance(one) ELSE one
        left == (t.words_left - 1) % CountMod
    IN  [two EXCEPT !.words_left = left, !.active = left # 0]

\* The word that two pixels make, or one, or none.
Pack(t) ==
    [lo |-> IF t.pixels_left > 0 THEN vram[At(t)] ELSE 0,
     hi |-> IF t.pixels_left > 1 THEN vram[At(Advance(t))] ELSE 0]

\* A read of GP0, of any width: a word of the transfer, or the latch.
gp0_read ==
    /\ vram_read.active
    /\ vram_read' = ReadOn(vram_read)
    /\ gpu_read' = Pack(vram_read)
    /\ gpu_stat' = [gpu_stat EXCEPT
                        !.read_ready = @ /\ vram_read'.active,
                        !.drq = Drq(dma_direction, Len(gp0_buffer), vram_read')]
    /\ UNCHANGED <<vram, gp0_buffer, gp0_expected, vram_write, render_attr, dma_direction>>

\* (A slip: it does not look whether there are pixels left.)
WritePixel_unguarded(s, p) ==
    [mem |-> [s.mem EXCEPT ![At(s.t)] = p],
     t |-> [Advance(s.t) EXCEPT !.words_left = IF @ > 0 THEN @ - 1 ELSE 0]]

\* One pixel written: the memory and the transfer after it.  Here words_left
\* counts down with every pixel.
WritePixel(s, p) ==
    IF s.t.pixels_left = 0 THEN s
    ELSE [mem |-> [s.mem EXCEPT ![At(s.t)] = p],
          t |-> [Advance(s.t) EXCEPT !.words_left = IF @ > 0 THEN @ - 1 ELSE 0]]

\* gp0_write while a transfer takes the words.
gp0_write_vram_data(v) ==
    /\ vram_write.active
    /\ LET s == WritePixel(WritePixel([mem |-> vram, t |-> vram_write], v.lo), v.hi)
       IN  /\ vram' = s.mem
           /\ vram_write' = [s.t EXCEPT !.active = @ /\ s.t.words_left # 0]
    /\ UNCHANGED <<gp0_buffer, gp0_expected, vram_read, gpu_read, render_attr, dma_direction,
                   gpu_stat>>

gp0_word_count(cmd) == IF cmd \in {"fill", "vram_write", "vram_read"} THEN 3 ELSE 1

CmdOf(v) == Decode[v.hi \div CmdUnit]
ParamOf(v) == [v EXCEPT !.hi = @ % CmdUnit]

\* Executes the complete command in buf, which may be one that does nothing.
gp0_execute(buf) ==
    LET cmd == CmdOf(buf[1])
    IN  /\ vram_write' = IF cmd = "vram_write" THEN StartOf(buf[2], buf[3]) ELSE vram_write
        /\ vram_read' = IF cmd = "vram_read" THEN StartOf(buf[2], buf[3]) ELSE vram_read
        /\ gpu_stat' = [gpu_stat EXCEPT !.read_ready = @ \/ cmd = "vram_read"]
        /\ render_attr' = IF cmd \in Attr THEN [render_attr EXCEPT ![cmd] = ParamOf(buf[1])]
                                          ELSE render_attr

\* gp0_write otherwise: the word joins the buffer, and the last one executes it.
gp0_write_command(v) ==
    /\ ~vram_write.active
    /\ LET buf == Append(gp0_buffer, v)
           expected == IF gp0_buffer = <<>> THEN gp0_word_count(CmdOf(v)) ELSE gp0_expected
       IN  /\ gp0_expected' = expected
           /\ \/ /\ Len(buf) >= expected
                 /\ gp0_buffer' = <<>>
                 /\ gp0_execute(buf)
              \/ /\ Len(buf) < expected
                 /\ gp0_buffer' = buf
                 /\ UNCHANGED <<vram_read, vram_write, gpu_stat, render_attr>>
    /\ UNCHANGED <<vram, gpu_read, dma_direction>>

-----------------------------------------------------------------------------
\* GP1(00h) rewrites the status register and nothing else: the transfers, the
\* buffer and the DMA direction stay.
gp1_reset ==
    /\ gpu_stat' = ResetStat
    /\ UNCHANGED <<vram, gp0_buffer, gp0_expected, vram_read, vram_write, gpu_read, render_attr,
                   dma_direction>>

\* GP1(01h).  (A slip: the words that are there already stay.)
gp0_clear_fifo_keeping_count ==
    /\ gp0_expected' = 0
    /\ UNCHANGED <<vram, gp0_buffer, vram_read, vram_write, gpu_read, render_attr, dma_direction,
                   gpu_stat>>

gp0_clear_fifo ==
    /\ gp0_buffer' = <<>> /\ gp0_expected' = 0
    /\ UNCHANGED <<vram, vram_read, vram_write, gpu_read, render_attr, dma_direction, gpu_stat>>

\* GP1(04h): the status register shows the direction too.  (A slip: only the
\* status register.)
gp1_dma_direction_shown_only(d) ==
    /\ gpu_stat' = [gpu_stat EXCEPT !.dma = d]
    /\ UNCHANGED <<vram, gp0_buffer, gp0_expected, vram_read, vram_write, gpu_read, render_attr,
                   dma_direction>>

gp1_dma_direction(d) ==
    /\ dma_direction' = d
    /\ gpu_stat' = [gpu_stat EXCEPT !.dma = d]
    /\ UNCHANGED <<vram, gp0_buffer, gp0_expected, vram_read, vram_write, gpu_read, render_attr>>

\* GP1(10h): latch an attribute, or one of two constants, for GP0 to answer.
gp1_set_gpu_read ==
    /\ gpu_read' \in {render_attr[a] : a \in Attr} \cup {Zero, [hi |-> 0, lo |-> 2]}
    /\ UNCHANGED <<vram, gp0_buffer, gp0_expected, vram_read, vram_write, render_attr,
                   dma_direction, gpu_stat>>

\* psx_reset resets the GPU under a program that runs: see main.c.
gpu_reset ==
    /\ vram' = [p \in Place |-> 0]
    /\ gpu_stat' = ResetStat
    /\ UNCHANGED <<gp0_buffer, gp0_expected, vram_read, vram_write, gpu_read, render_attr,
                   dma_direction>>

GpuNext ==
    \/ gp0_read
    \/ \E v \in Pixels : gp0_write_vram_data(v)
    \/ \E v \in Words : gp0_write_command(v)
    \/ gp1_reset
    \/ gp0_clear_fifo
    \/ \E d \in Directions : gp1_dma_direction(d)
    \/ gp1_set_gpu_read
    \/ gpu_reset

GpuSpec == GpuInit /\ [][GpuNext]_gvars

-----------------------------------------------------------------------------
(* Safety.                                                                   *)

\* The command buffer of 16 words is never overrun, and a command that executes has
\* all its words: whatever GP1 clears in the middle of one, what waits in the buffer
\* is less than the command in front of it needs.
BufferBounded ==
    gp0_buffer # <<>> =>
        /\ gp0_expected = gp0_word_count(CmdOf(gp0_buffer[1]))
        /\ Len(gp0_buffer) < gp0_expected

\* The status register never promises what the registers behind it do not have:
\* "ready to send" means that a transfer is active, and a DMA direction that it
\* shows is the one in use, through resets of the one and not of the other.
StatusSound ==
    /\ gpu_stat.read_ready => vram_read.active
    /\ gpu_stat.dma \in {0, dma_direction}

\* words_left and pixels_left of a read, which are counted down apart, agree:
\* the transfer ends with the last pixel and not before.  An empty rectangle is
\* the exception: its words are counted below zero.
ReadCountsAgree ==
    vram_read.active =>
        \/ vram_read.words_left = (vram_read.pixels_left + 1) \div 2 /\ vram_read.words_left > 0
        \/ vram_read.w * vram_read.h = 0

\* The transfers implement Transfers: the cursor only encodes which pixels of the
\* rectangle are left, in row order, each once, wrapping at the edges, also when
\* commands, clears and resets come in between.
Left(t) ==
    IF t.active /\ t.pixels_left > 0
    THEN [x |-> t.x, y |-> t.y, w |-> t.w, h |-> t.h, left |-> t.pixels_left]
    ELSE [x |-> 0, y |-> 0, w |-> 0, h |-> 0, left |-> 0]

TR == INSTANCE Transfers WITH Pixel <- Half, reading <- Left(vram_read),
                              writing <- Left(vram_write)
ImplementsTransfers == TR!Spec

-----------------------------------------------------------------------------
\* gpu.h:14 and :15 count the pixels and the words that are left of a write: it ends
\* when there are none.  (words_left starts as the number of words and goes down with
\* every pixel, so that the transfer ends half way.)
WriteEndsComplete ==
    [][vram_write.active /\ ~vram_write'.active => vram_write'.pixels_left = 0]_gvars

\* What a write does instead, whatever commands, clears and resets come in between:
\* half of the rectangle, or one pixel less, is left when it ends.
WriteEndsHalfWay ==
    [][vram_write.active /\ ~vram_write'.active =>
          LET half == (vram_write.w * vram_write.h) \div 2
          IN  vram_write'.pixels_left \in {half - 1, half}]_gvars
==============================================================================
