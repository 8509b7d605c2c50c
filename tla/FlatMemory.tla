------------------------------ MODULE FlatMemory ------------------------------
(* What the bus promises to the programs that use it: memory and registers are *)
(* bytes, every address names one byte or none, and an access of several bytes *)
(* is an access to each of them.  Pages, caches and widths of registers are    *)
(* not part of it.                                                             *)
EXTENDS Integers

CONSTANTS
    Cell, Byte,     \* the bytes that are stored, and their values
    ReadMap,        \* the cell an address reads, or none
    WriteMap,       \* the cell it writes: none for a ROM
    Ports,          \* addresses behind which a device answers
    Image           \* the cells that a loader may fill

VARIABLES cells, last

fvars == <<cells, last>>

Addr == DOMAIN ReadMap
Quiet(op) == [op |-> op, addr |-> 0, val |-> <<>>]

Init == cells \in [Cell -> Byte] /\ last = Quiet("reset")

\* An access of a program: last has its address, and the value read or written.
Accessed(op) ==
    \E n \in {1, 2, 4} : last' \in [op : {op}, addr : Addr, val : [0 .. n - 1 -> Byte]]
Lanes(access) == DOMAIN access.val

\* Bytes that no cell stores read as zero.
Read ==
    /\ Accessed("read")
    /\ \A k \in Lanes(last') :
          LET c == ReadMap[last'.addr + k]
          IN  last'.val[k] = IF c \in Cell THEN cells[c] ELSE 0
    /\ UNCHANGED cells

\* A device answers what it likes.
Ask == Accessed("read") /\ last'.addr \in Ports /\ UNCHANGED cells

\* A byte written is in its cell, and no other cell changes.
Write ==
    /\ Accessed("write")
    /\ cells' \in [Cell -> Byte]
    /\ \A c \in Cell :
          LET hit == {k \in Lanes(last') : WriteMap[last'.addr + k] = c}
          IN  \/ hit = {} /\ cells'[c] = cells[c]
              \/ \E k \in hit : cells'[c] = last'.val[k]

Load ==
    /\ last' = Quiet("load")
    /\ cells' \in [Cell -> Byte]
    /\ \A c \in Cell \ Image : cells'[c] = cells[c]

Reset == last' = Quiet("reset") /\ cells' \in [Cell -> Byte]

Next == Read \/ Write \/ Ask \/ Load \/ Reset

Spec == Init /\ [][Next]_fvars
==============================================================================
