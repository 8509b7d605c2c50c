-------------------------------- MODULE MCGpu --------------------------------
(* Values for the constants of Gpu: a video memory of four by four pixels, and   *)
(* a command, its coordinates and its size from the same few words.              *)
EXTENDS Gpu

Commands == <<"none", "vram_write", "vram_read", "fill", "tex_window">>
MCHalf == 0 .. 19
MCDecode == [b \in 0 .. 4 |-> Commands[b + 1]]

W(cmd, x, y) == [hi |-> 4 * cmd + x, lo |-> y]

\* As coordinates and sizes: a block of nine pixels that wraps at both edges (five
\* words to write it, of which the code takes three), one that wraps at one, and
\* one without rows.
MCWords == {W(1, 3, 3), W(2, 3, 3), W(4, 3, 0)}
MCPixels == {[hi |-> 1, lo |-> 2]}
==============================================================================
