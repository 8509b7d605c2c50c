------------------------------ MODULE Transfers ------------------------------
(* What the GPU promises about transfers between the program and video memory, *)
(* without its cursors: a transfer is a rectangle and how many of its pixels   *)
(* are left, and takes them row by row, two with every word.                   *)
EXTENDS Integers

CONSTANTS VramW, VramH, Pixel

VARIABLES vram, reading, writing, gpu_read

tvars == <<vram, reading, writing, gpu_read>>

Column == 0 .. VramW - 1
Row == 0 .. VramH - 1
Block == [x : Column, y : Row, w : Column, h : Row, left : Nat]
Nothing == [x |-> 0, y |-> 0, w |-> 0, h |-> 0, left |-> 0]
Whole == {b \in Block : b.left = b.w * b.h} \cup {Nothing}

\* The k-th of the pixels that are left, from 0; a rectangle wraps at the edges
\* of the memory.
Pick(b, k) ==
    LET n == b.w * b.h - b.left + k
    IN  <<(b.x + (n % b.w)) % VramW, (b.y + (n \div b.w)) % VramH>>

\* What is left after a word.
After(b) == IF b.left > 2 THEN [b EXCEPT !.left = @ - 2] ELSE Nothing

Blank == [p \in Column \X Row |-> 0]

Init == vram = Blank /\ reading = Nothing /\ writing = Nothing /\ gpu_read = [hi |-> 0, lo |-> 0]

StartRead == reading' \in Whole /\ UNCHANGED <<vram, writing, gpu_read>>
StartWrite == writing.left = 0 /\ writing' \in Whole /\ UNCHANGED <<vram, reading, gpu_read>>

\* A word read holds the next two pixels, the first in its low half.
ReadWord ==
    /\ reading.left > 0
    /\ gpu_read' = [lo |-> vram[Pick(reading, 0)],
                    hi |-> IF reading.left > 1 THEN vram[Pick(reading, 1)] ELSE 0]
    /\ reading' = After(reading)
    /\ UNCHANGED <<vram, writing>>

\* A word written fills the next two pixels and touches no other.  The machine
\* may give up the rest.
WriteWord ==
    /\ writing.left > 0
    /\ vram' \in [Column \X Row -> Pixel]
    /\ \A p \in Column \X Row :
          vram'[p] # vram[p] =>
              p = Pick(writing, 0) \/ (writing.left > 1 /\ p = Pick(writing, 1))
    /\ writing' \in {After(writing), Nothing}
    /\ UNCHANGED <<reading, gpu_read>>

\* The program asks for something else, or reads an empty rectangle.
Answer == gpu_read' \in [hi : Pixel, lo : Pixel] /\ UNCHANGED <<vram, reading, writing>>

Reset == vram' = Blank /\ UNCHANGED <<reading, writing, gpu_read>>

Next == StartRead \/ StartWrite \/ ReadWord \/ WriteWord \/ Answer \/ Reset

Spec == Init /\ [][Next]_tvars
==============================================================================
