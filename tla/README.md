# TLA+ models of psxy

psxy is a PlayStation emulator in C: an interpreter for the R3000A CPU, its
coprocessor 0, an interrupt controller, a bus, a GPU that moves pixels but does not
draw yet, and a few devices that are registers or stubs. This directory holds TLA+
modules translated from that code, TLC configurations that check them on small
instances, and theorems about them that the TLA+ proof system checks for every value of
the constants. Paths below are relative to the repository (`src/cpu/cpu.c`), operators
keep the names of the C functions where they stand for one.

Contents: [1 The system](#1-the-system) · [2 The models](#2-the-models) ·
[3 The runs](#3-the-runs) · [4 Bounds](#4-bounds-and-why-they-are-enough) ·
[5 Fairness](#5-fairness) · [6 Proofs](#6-proofs) ·
[7 Disagreements](#7-where-the-code-and-its-comments-disagree) ·
[8 Abstractions](#8-abstractions) · [9 Not modelled](#9-not-modelled) ·
[10 Plan](#10-plan)

## 1 The system

One thread runs everything. `main.c` creates a machine, and ten times over resets it,
loads a BIOS image, runs the kernel for a fixed number of cycles, loads an executable
over whatever the kernel was doing and runs that. `cpu_run` fetches, dispatches and
finishes one instruction per iteration; devices act only inside the load or store that
reaches them. There are no threads, no files written during a run and no messages. What
makes the code hard is *state that outlives the instruction that made it*: a load that
commits one instruction later, a branch that is taken one instruction later, an
interrupt that is latched by one instruction and raised by the next, flags that cache
register bits, a transfer that a program feeds over many stores and that other commands
may interrupt.

| Component | State | Operations | Talks to | Correct when |
|---|---|---|---|---|
| CPU interpreter (`cpu/cpu.c`) | `pc`, `next_pc`, registers, `hi`, `lo`, `load_reg`, `load_value`, `branch_state`, `branch_target`, `next_exc_code` | `cpu_reset`, `cpu_run`, the instruction handlers | bus (reads, writes), coprocessor 0 (exceptions, `mfc0`, `mtc0`, `rfe`) | delay slots behave as the architecture's; faults are precise; interrupts are taken in the end |
| Coprocessor 0 (`cpu/cop0.c`) | status, cause, epc, tar, badAddr; cached `cache_isolated`, `pending_interrupts` | `cop0_reset`, `cop0_raise_exception`, `cop0_rfe`, `cop0_read`, `cop0_write`, `cop0_update_interrupts` | CPU, interrupt controller | cached flags agree with the registers; what an exception saves is enough to return |
| Interrupt controller (`devices/irq.c`) | `I_STAT`, `I_MASK` | `irq_raise`, register reads and writes of 8, 16, 32 bits | coprocessor 0, bus | a raised, unmasked line reaches the CPU; an acknowledged one goes away |
| Machine life cycle (`main.c`, `core/psx.c`, `support/loader.c`) | where the machine is in its life | `psx_create`, `psx_reset`, `psx_run`, `load_exe`, `load_bios` | all | nothing of an earlier life leaks into a later one |
| GPU (`devices/gpu/*.c`) | video memory, command buffer, two transfers, latched attributes, display registers, draw mode, status register, DMA direction | GP0 reads and writes, GP1 commands, `gpu_reset` | bus | transfers touch exactly their rectangle; the buffer never overruns; the status register and the output size follow the registers they are copied from |
| Bus (`memory/bus.c`, `bus.h`, `core/common.h`, the fetch in `cpu.c`) | page tables, RAM, expansion 1, scratchpad, BIOS; the page of the last fetch | `bus_init`, reads and writes of 8, 16, 32 bits, the fetch, the dispatch to devices | CPU, devices | each address reaches one byte or none, from every segment and in every width; the BIOS is read-only; the remembered page is the table's |
| Memory control, timers (`memory/memctrl.c`, `devices/timers.c`) | registers | register reads and writes | bus | a register reads back what was written, in the 16 bits that the macros give it |
| SPU, expansion 2, TTY, timing, tests | none that matters | stubs and helpers | – | – |

The hazards behind the properties, each with its line, are in `PROJECT.json`; the main
ones are

* the load delay slot: a load is cancelled by a write to its register and by another
  load to it, is read through by `lwl`/`lwr`, and must survive an exception;
* branches in delay slots of branches, exceptions and interrupts in either;
* the interrupt latch, which is set after one instruction and raised after the next,
  with status, mask and controller free to change in between;
* flags cached from registers that several paths rewrite;
* handlers that fault half way;
* an executable loaded under a CPU with a branch or a load in flight;
* the page that `fetch_instruction` remembers, through resets and unmapped addresses;
* registers that are decoded at their base only but reached by three widths, some in two
  ways (`memctrl`), and ports that take any width as a word;
* copies: the output size of the displayed range, the mode bits of the status register,
  of which two commands share one;
* counters of a GPU transfer that are counted down apart, at the edges of the rectangle,
  of video memory and of a word; commands cut in two by clears and resets.

## 2 The models

```
R3000 ── Cop0 ── Cpu ─┬─ CpuTrace        (history variable: what ran before)
   │               │  └─ Psx             (create, reset, run, load, run, reset ...)
   └── DelaySlots ─┘  Cpu implements DelaySlots
Transfers ── Gpu ── GpuDisplay ─┐         Gpu implements Transfers
FlatMemory ── Bus ──────────────┴─ Io     (programs at the bus, the GPU behind it)
                                          Io implements FlatMemory and Gpu
MCCpu, MCCpuTrace, MCPsx, MCGpu, MCIo     constants for TLC
R3000Proofs ── CpuProofs ─┬─ RefinementProofs ── PsxProofs
                          └─ TraceProofs
GpuProofs, BusProofs ── IoProofs
```

**R3000** holds the instructions as pure operators: what register an instruction
writes (`WriteOf`), what load it schedules (`LoadOf`), what branch it leaves for its
delay slot (`BranchOf`), what it asks to be raised (`FaultOf`), which bytes it stores
(`LanesOf`). An instruction is a record of its class and operands. Address arithmetic,
branch conditions, alignment and overflow are computed at the word's width, modulo
`WordMod`, because control depends on them; the results of the plain ALU instructions,
of multiplication and division and of the byte merges of `lwl` and `lwr` are constants
that may be any functions (`Alu`, `MulDiv`, `LoadMerge`).

**Cop0** has coprocessor 0 and the interrupt controller as operators from records to
records. The three ways in which the code computes `pending_interrupts` are three
definitions, as they are in the code.

**Cpu** is `cpu_run`. One iteration is one action (`cpu_step`), a disjunction over the
handlers; every handler ends in `finish_step`, as in the code, which commits the load,
raises the exception or moves on, and looks for interrupts. The other action is
`IrqRaise`, between two iterations. `out` is what a step showed to the outside: the
exception it raised and the bytes it wrote; the properties need it, the code has no
variable for it.

| `Cpu` | `cpu.c` |
|---|---|
| `pc`, `next_pc`, `r`, `hi`, `lo` | fields of the same names |
| `load` | `load_reg`, `load_value` |
| `branch_state`, `branch_target`, `next_exc_code` | fields of the same names |
| `get_next_pc` | `get_next_pc` |
| `commit_load(w, new)` | `commit_load` together with the cancelling in `reg_write` and in the scheduling of a load: `w` and `new` are what the handler wrote and scheduled |
| `check_interrupts`, `EnterHandler`, `finish_step` | the end of an iteration |
| `Compute`, `MoveHiLo`, `TrapArith`, `BranchOrJump`, `LoadWord`, `Store`, `Mfc0`, `Mtc0`, `Rfe`, `Trap` | the handlers, by what they have in common |
| `FetchFault` | the alignment check before the fetch |

**DelaySlots** is the abstract specification of the above: a machine with two addresses
(this instruction, the one in its delay slot) and two register files (what this
instruction reads, what the next one reads if this one writes nothing). It knows no
`load_reg`, no branch state, no latch. Cpu implements it under `npc <- get_next_pc`,
`now <- r`, `nxt <- Put(r, load)`. It says nothing of coprocessor 0, so an interrupt is
a diversion that may happen after any instruction; the exact conditions are properties
of Cpu.

**CpuTrace** adds the address of the previous instruction as a history variable, which
one needs to say which instruction `epc` should name.

**Psx** puts the life of the machine around Cpu: `psx_create` resets the CPU over memory
that held anything (`Leftovers`: coprocessor 0 and the interrupt controller are not
reset), `psx_run` is any number of steps, `load_exe` replaces the program counters and
two registers and nothing else of the CPU, `psx_reset` puts CPU, coprocessor 0 and
interrupt controller back.

**Bus** is memory as the bus has it: `bus_init` fills the two page tables with
`map_buffer`, an access looks its page up and otherwise goes to a device, and a device
reaches a 16-bit register through the macros of `common.h`, by byte, half or word.
Memory is one array with the four of `struct Bus` behind each other, because the
scratchpad's page runs into the next of them. `fetch_instruction` remembers the page it
fetched from. `load_exe`, `load_bios` with its trampolines and `psx_reset` are here as
what they do to memory. `Windows` has the interrupt controller, the timers and memory
control: the first and last address of each and the addresses of its registers.

| `Bus` | code |
|---|---|
| `mem` | `ram`, `exp1`, `scratchpad`, `bios` of `struct Bus`, in that order |
| `read_pages`, `write_pages`, `map_buffer` | the same names in `bus.c` |
| `regs`, by byte | the registers of `irq.c`, `timers.c`, `memctrl.c` |
| `SelectedReg`, `RegLanes`, `regs_read`, `regs_write`, `PortWord` | the register macros of `common.h` with the switches that use them |
| `bus_read`, `bus_write` | `bus_read8/16/32`, `bus_write8/16/32` |
| `fetch_page`, `fetch_page_ptr`, `fetch_instruction` | the fields of `struct CPU` and the function |
| `last` | not in the code: the last access, which FlatMemory speaks about |

**FlatMemory** is its abstract specification: bytes at addresses. An access of several
bytes is an access to each; what is written is what the next read returns, wherever the
same byte is mapped; no page, no cache and no width of a register is visible. Two maps
from addresses to cells, one for reads and one for writes, say where bytes are, and a
device with ports may answer what it likes. `ReadMap` and `WriteMap` of Bus are computed
from the ranges of physical addresses in `bus.h`, not from the page tables, so that the
refinement says that the tables are right.

**Gpu** is `gp0.c`, the part of `gp1.c` and `gpu.c` that the transfers depend on:
a command word joins the buffer or completes a command (`gp0_write_command`), a data
word goes to video memory while a transfer takes words (`gp0_write_vram_data`), a read
advances the other transfer (`gp0_read`), GP1 resets, clears, sets the DMA direction or
latches an attribute. The two transfers keep their counters exactly as the code does:
`words_left` of a read counts words and wraps below zero, `words_left` of a write counts
pixels.

**Transfers** is its abstract specification: a transfer is a rectangle and how many of
its pixels are left; a word is the next two of them in row order, wrapping at the edges
of video memory; a write touches no other place. Gpu implements it, with `Left` as the
mapping; the abstract machine may give up the rest of a write, because the code does
(section 7).

**GpuDisplay** adds the rest of the two ports: the draw mode, the display range and mode,
the display switch, the size kept apart, bits 12 to 23 of the status register, and
`gp0_write` and `gp1_write` as they sort words into commands. Bit 23 is named
`GPUSTAT_DISPLAY_DISABLED_BIT` and is set while the display is *enabled*, and
`gp1_display_mode` clears it with its mask; the fields for vertical resolution, video
mode and color depth overlap once shifted into place. The model has them so.

**Io** runs programs against bus and GPU together: a load, store or fetch at a port is
what the GPU sees, whatever its width (a narrow store is a word padded with zeros, a
narrow load of GP0 takes two pixels), and a reset of the machine resets memory, registers
and GPU in one action. A program is a set of loads, stores and fetches that come in any
order; one of several is chosen at the start.

**Slips.** Next to some definitions stands a second one whose comment starts "A slip".
It is the definition as a plausible mistake in the C code would make it (a guard left
out, a flag not refreshed, a counter counting the wrong thing). No action uses it.
`PROJECT.json` names, for each property of each passing run, the slip that makes TLC
refute the property: so each property is known to depend on the code it is about.

## 3 The runs

Run one with `tlc -config X.cfg M` in this directory.

| Run | Module | Checks | Shows |
|---|---|---|---|
| `delay_slots` | MCCpu | `ImplementsDelaySlots` | loads to the register that other instructions write, read, merge and jump on, branches in delay slots, links in delay slots, interrupts anywhere: the registers and addresses are the abstract machine's |
| `interrupts` | MCCpuTrace | `InterruptFlagSound`, `LatchedOnlyWhenEnabled`, `RfeUndoesException`, `InterruptLatency`, `InterruptServed`, `EpcNamesRestart`, `TarNamesTarget` | with masks, acknowledgements, `mtc0`, `rfe`, system calls and branches, taken or not, in every order and in each other's delay slots: the cached flag never claims what status and cause do not say, the latch is not outdated by `irq_raise`, one `rfe` gives back what an exception pushed, `epc`, `tar` and the bits in cause name where to restart, and a pending interrupt is latched by the first instruction that ends and taken in the end |
| `faults` | MCCpu | `TypeOK`, `IsolationCached`, `ImplementsDelaySlots`, `IsolatedStoresDropped`, `FaultsArePrecise` | overflow, misaligned loads, stores, jumps, reserved instructions, in delay slots and around `hi`/`lo`: an instruction that faults leaves no trace, the load before it still commits, and a store with the cache isolated neither writes nor faults |
| `lifecycle` | MCPsx | `PsxTypeOK`, `LatchedOnlyWhenEnabled`, `NextPcFollows`, `ResetSettles`, `RunsAreDelaySlots` | the same invariants over creation, resets and executables loaded over a kernel that was left anywhere; nothing that `malloc` left in coprocessor 0 reaches a program; between resets and executables every step is one of the delay slot machine, whatever was in flight |
| `bus` | MCIo | `BusTypeOK`, `FetchCacheCoherent`, `DisplayTypeOK`, `OutputSizeFollows`, `StatusMirrorsMode`, `ImplementsFlatMemory`, `BiosChangesBehindScratchpad` | loads and stores of every width over every memory, device and hole, from both segments, with fetches, loaders and resets in between: bytes are where the memory map says, the remembered page is the table's, nothing leaves `struct Bus`, no store changes the BIOS beyond the scratchpad's page, and the GPU's copies follow its registers |
| `gpu` | MCGpu | `GpuTypeOK`, `BufferBounded`, `StatusSound`, `ReadCountsAgree`, `ImplementsTransfers`, `WriteEndsHalfWay` | transfers visit their rectangle in row order, each pixel once; the counters agree; the status register promises nothing false; the buffer holds less than the command in front of it needs; a write ends with half of its pixels, or one less, left |
| `int_precise`, `int_cause`, `bad_addr` | MCCpu | one property each | violated: section 7 |
| `exe_entry` | MCPsx | `ExeEntersClean` | violated: section 7 |
| `gpu_write` | MCGpu | `WriteEndsComplete` | violated: section 7 |
| `bios_rom` | MCIo | `BiosReadOnly` | violated: section 7 |

No run turns the deadlock check off: neither the loop of `cpu_run` nor the GPU ever
stops. The largest runs, `interrupts` and `bus`, take two to three minutes on two cores.

## 4 Bounds and why they are enough

* **Words** are numbers below 16 (`WordMod`), regions of `j` below 8. Sixteen is the
  smallest size with aligned and misaligned addresses, a reset vector, a handler,
  positive and negative numbers, overflow and wrap-around, and few enough addresses that
  loops close. No handler distinguishes words otherwise; the theorems remove the bound.
* **Registers** are `$zero`, one that is loaded, and `$ra` (also used as a second
  ordinary register): cancelling and merging concern two loads or a load and a write
  to the same or to different registers.
* **Instructions** are given per run as a small set, because each handler class behaves
  alike for all operands: `DelayInsts` has loads to both registers, a merge, a write,
  a conditional link, a jump through the loaded register, `mfc0` and what lets
  interrupts in; `TraceInsts` a branch that is taken and one that is not, and everything
  that touches status, cause and the controller; `FaultInsts` one instruction per way to fault and per kind of effect that
  a fault must not leave. A fetch may return *any* of
  the set at any address, so all programs over the set are covered, self-modifying ones
  included.
* **Interrupt lines**: one. The controller only tests whether the intersection of two
  sets is empty; acknowledging and masking need no second line. The addresses of
  `I_STAT` and `I_MASK` are 4 and 12. `faults` has none, where interrupts are not the
  question.
* **Memory answers** (`MemVals`) are one or two words, chosen to be an aligned address,
  a misaligned one, or both; **status inputs** are the values that matter to the run
  (in `interrupts` enabled and unmasked, or disabled and masked with those before
  enabled, which `rfe` turns into a mask without its enable bit; isolating the cache).
* **GPU**: video memory of 4 by 4 pixels; a command word, its coordinates and its size
  come from the same three words, which as rectangles are 3 by 3 at (3, 3) (it wraps at
  both edges, and its nine pixels are an odd number) and 3 by 0 (empty). `CountMod` is
  10, the smallest size of a counter that holds nine pixels, so that counting below zero
  wraps where it is seen. The data word has two different halves, none of them the
  colour of cleared memory. The DMA direction is 0 or 2, the one that concerns reads.
* **Bus**: pages of 8 bytes, ten of them, in two segments, so 160 addresses: two pages of
  RAM (the smallest in which a page can be mistaken for another), one of expansion 1 and
  of the BIOS, a scratchpad of half a page (so that the rest of its page is the BIOS, as
  in the code), four pages for devices, one of which has both ports. `Segments` is 2, so
  that there is one mirror; memory control's upper register is the last address of all
  that is cut neither to a mirror nor to a page. Bytes are 0 to 255, of which programs
  store few: values differ in every lane so that a lane in the wrong place shows.
* **Programs of `bus`**: `memory` touches every memory and hole, aligned in each width and
  through the mirror, and registers at their base and, by byte, behind it; `display` has
  each command of the display and of the draw mode, two modes apart in every field that
  overlaps, a displayed range that ends before it begins, the switch, and bytes and
  halves of commands; `transfer` has both transfers over a video memory of 2 by 2. A
  program is one of the three, since what they touch is disjoint but for resets.

There are no state constraints and no symmetry.

## 5 Fairness

`Spec` of Cpu has weak fairness of `cpu_step` and of nothing else. `cpu_run` loops
without a condition except its cycle count, every fetch returns some instruction, and
`main.c` calls it with millions of cycles; a device that raises interrupts for ever must
not keep the CPU from running, which the sequential loop guarantees. No fairness is
assumed about which instruction is fetched, so `InterruptServed` holds for any program:
a pending interrupt leads to a state with interrupts disabled (the handler, or the
program's doing), masked, or not asserted by the controller. `CpuTrace` has the same.
Psx, Gpu and Io state safety only: whether `main.c` goes on is no question, and the GPU does
what the program asks when it asks.

## 6 Proofs

`tlapm M.tla` checks a module. All proofs are complete down to the last leaf.

| Theorem | Module | Says |
|---|---|---|
| `AddTrapsOnOverflow`, `SubTrapsOnOverflow` | R3000Proofs | `add`, `addi`, `sub` trap exactly when the signed result is no word |
| `StoresKeepToAWord` | R3000Proofs | a store that does not fault writes inside one aligned word |
| `UnalignedStorePair` | R3000Proofs | `swl` and `swr` together write a word at any address |
| `Invariance` | CpuProofs | `Spec => []CpuInv` |
| `TypeCorrect` | CpuProofs | `Spec => []TypeOK` |
| `ProgramCounters` | CpuProofs | `Spec => []NextPcFollows` |
| `PendingSound` | CpuProofs | `Spec => []InterruptFlagSound` |
| `LatchSound` | CpuProofs | `Spec => []LatchedOnlyWhenEnabled` |
| `IsolationSound` | CpuProofs | `Spec => []IsolationCached` |
| `FaultPrecision` | CpuProofs | `Spec => FaultsArePrecise` |
| `ExceptionReturn` | CpuProofs | `Spec => RfeUndoesException` |
| `IsolationDrops` | CpuProofs | `Spec => IsolatedStoresDropped` |
| `LatencyBounded` | CpuProofs | `Spec => InterruptLatency` |
| `Refinement` | RefinementProofs | `Spec => ImplementsDelaySlots` |
| `GpuInvariance` | GpuProofs | `GpuSpec => []GpuInv` |
| `GpuTypeCorrect` | GpuProofs | `GpuSpec => []GpuTypeOK` |
| `BufferSafe` | GpuProofs | `GpuSpec => []BufferBounded` |
| `StatusSafe` | GpuProofs | `GpuSpec => []StatusSound` |
| `ReadCounts` | GpuProofs | `GpuSpec => []ReadCountsAgree` |
| `WriteEnds` | GpuProofs | `GpuSpec => WriteEndsHalfWay` |
| `TransferRefinement` | GpuProofs | `GpuSpec => ImplementsTransfers` |
| `ExceptionRestart` | TraceProofs | `TraceSpec => EpcNamesRestart` |
| `ExceptionTarget` | TraceProofs | `TraceSpec => TarNamesTarget` |
| `Lifecycle` | PsxProofs | `PsxSpec => []PsxInv` |
| `LifecycleTypes` | PsxProofs | `PsxSpec => []PsxTypeOK` |
| `ResetReaches` | PsxProofs | `PsxSpec => []ResetSettles` |
| `LifecycleLatch` | PsxProofs | `PsxSpec => []LatchedOnlyWhenEnabled` |
| `LifecycleCounters` | PsxProofs | `PsxSpec => []NextPcFollows` |
| `LifecycleRuns` | PsxProofs | `PsxSpec => RunsAreDelaySlots` |
| `LifecycleFaults` | PsxProofs | `PsxSpec => FaultsArePrecise` |
| `LifecycleReturn` | PsxProofs | `PsxSpec => RfeUndoesException` |
| `LifecycleIsolation` | PsxProofs | `PsxSpec => IsolatedStoresDropped` |
| `IoInvariance` | IoProofs | `IoSpec => []IoInv` |
| `BusRefinement` | IoProofs | `IoSpec => ImplementsFlatMemory` |
| `FetchCacheSafe` | IoProofs | `IoSpec => []FetchCacheCoherent` |
| `BusTypeCorrect` | IoProofs | `IoSpec => []BusTypeOK` |
| `BiosDamageBounded` | IoProofs | `IoSpec => BiosChangesBehindScratchpad` |
| `DisplayTypeCorrect` | IoProofs | `IoSpec => []DisplayTypeOK` |
| `OutputSizeSafe` | IoProofs | `IoSpec => []OutputSizeFollows` |
| `StatusMirrorSafe` | IoProofs | `IoSpec => []StatusMirrorsMode` |
| `PortsDriveGpu` | IoProofs | `IoSpec => GpuSpec` |
| `PortsTransfer` | IoProofs | `IoSpec => ImplementsTransfers` |

They hold for every word size that is a multiple of four, every number of registers,
every instruction set, every arithmetic, every set of interrupt lines, every size of
video memory and every decoding of commands that satisfies the assumptions in the
modules that declare the constants: `WordAssumption`, `RegAssumption`, `SegAssumption`
(a jump inside a region stays a word), `AluAssumption`, `IrqAssumption`,
`InputAssumption`, `VectorAssumption`, `VramAssumption` (a counter can hold the pixels
of the largest rectangle), `CommandAssumption`, `ExeAssumption`, `LeftoverAssumption`,
`PageAssumption` (memories are whole pages, in this order, apart; the scratchpad is at
most a page), `DeviceAssumption` (devices keep apart from the ports, registers are at
multiples of four), `LoaderAssumption` (what a file header asks for is inside RAM),
`HalfAssumption`, `WidthAssumption` (a byte is 0 to 255) and `ProgramAssumption`
(programs align their accesses, as the CPU makes them). TLC evaluates them in every run.

**The operators** (R3000Proofs). The overflow tests of `cpu.c` look at three signs;
`AddTrapsOnOverflow` and `SubTrapsOnOverflow` say what they mean, in terms of the signed
numbers that words stand for (`Signed`): they are true exactly when the result leaves
`SignedRange`, and otherwise the word written stands for the result. The argument removes
the modulus first (`Wrapped`) and then splits on the signs. `StoresKeepToAWord` is why one
access to the bus is one access to one page and one register, and `UnalignedStorePair` is
what the two merging stores are for.

**The CPU's invariant.** `CpuInv` is `TypeOK`, `NextPcFollows`,
`LatchedOnlyWhenEnabled` and `FlagsCohere(cop0)`. None of the properties is inductive on
its own. `LatchedOnlyWhenEnabled` needs to know, when `finish_step` copies
`pending_interrupts` into the latch, that the flag implies the enable bit, which is
`FlagsCohere`; that in turn says both cached flags agree with the registers and is kept
by each of the six operators of Cop0 that rebuild them (R3000Proofs). The types are what makes
the arithmetic well defined, and `NextPcFollows` is what the refinement needs for the
address after an untaken branch. The argument for a step goes through one lemma,
`FinishKeepsInv`: any call of `finish_step` with a well-typed write, load, branch,
exception and a coherent coprocessor 0 keeps the invariant; then there is one short step
per handler that shows that it calls `finish_step` so.

**Latency.** `InterruptLatency` is the safety half of `InterruptServed`: while an interrupt
is pending and the program lets it be, the next instruction that ends latches it, with no
other one latched before, and neither `mtc0` and `rfe`, which compute the flag again from
status and cause, nor `irq_raise`, which computes it without the mask, loses it. `Ends` is
what every way to end an instruction has in common, with `c` for coprocessor 0 as the
handler left it; `Settled(c)` says that the flag outlives the handler, which needs
`FlagsCohere` (a pending flag has its bit in cause) for the two that write status. An
instruction that ends in an exception disables interrupts (`RaiseDisables`), so the
interrupt does not wait then. The liveness half needs fairness and stays with TLC.

**The refinement.** `StepRefines` shows for every handler that, under `CpuInv`, its step
is a step of DelaySlots. The heart is `CommitIsPair`: writing a register, scheduling a
load and committing the previous one, with both ways to cancel it, is exactly the shift of
the abstract machine's two register files. `RaiseRefines` is the stutter.

**The GPU's invariant.** `GpuInv` adds `Cursor` to the invariants that TLC checks: the
cursor of either transfer stands inside its rectangle while there are pixels left, and
the pixels left are those from the cursor to the end. Without it neither the row's
type (`cur_y` could grow for ever) nor the counter's is inductive. `BufferBounded`
implies that the buffer of 16 words never overruns, for every decoding of commands.
`WriteCounts` adds what a write's two counters say of each other: every pixel takes one
off both, so that they stay half a rectangle apart, and `WriteEnds` follows: the transfer
of section 7 always loses half of its pixels, however it is interrupted.

**Transfers** (GpuProofs). The abstract machine counts pixels left, the code moves a cursor.
`Cursor` ties them: the pixels that are not left are `cur_y * w + cur_x`, so that dividing
by the width gives back row and column (`RowAndColumn`) and the abstract machine's next
pixel is the one under the cursor (`CursorPicks`), and after `Advance`, with its turn at the
edge, the one after it (`NextPicks`). A word is one or two of these steps, for a write
(`WordWritten`, `WriteRefines`) and for a read (`ReadRefines`). The step of a write that
ends with pixels left is the abstract machine giving up the rest; that this happens at the
half and nowhere else is `WriteEnds`.

**What ran before** (TraceProofs). `EpcNamesRestart` and `TarNamesTarget` speak of the
previous instruction; `TraceInv` ties the branch state to it: in a delay slot the program
counter follows the history variable's address, unless the branch stood itself in the slot
of a taken branch. What a step does to the addresses is again `Ends`.

**The life of the machine** (PsxProofs). Until the first reset the cached flags may
disagree with the registers, which hold anything; `PsxInv` therefore claims `FlagsCohere`
from then on, and the rest of `CpuInv` always. Every step of `psx_run` is one of Cpu's, so
what CpuProofs and RefinementProofs show of a step carries over to resets and to
executables loaded anywhere: faults are precise, `rfe` undoes an exception, isolated stores
are dropped, and between resets and executables the machine is that of DelaySlots, though
it may start in the middle of a delay slot. `PsxSpec` does not imply `Spec`: a reset and a
load are no steps of Cpu.

**The bus** (BusProofs). The refinement needs that tables filled page by page agree with
ranges of bytes. The lemmas go from division (`Unique`: a quotient and a remainder are
the only ones) over what one `map_buffer` does to a page (`MapBuffer`) to the tables
(`Tables`), then show that an aligned access keeps to its page, its register and its port
(`Lane`, `Decoded`, `PortApart`), and that the cell that the tables name is the one the
map of ranges names (`CellPlace`). `Decoded` is the heart of the registers: a switch that
decodes only the base of a register, reached with three widths, touches exactly the bytes
of registers that the access covers. Then there is one lemma per operation. The
invariant is `BusTypeOK` with `FetchCacheCoherent`; the fetch needs both, because what it
returns is read through a remembered pointer. `BiosDamageBounded` rests on the same
lemmas: every page of the table for writes ends before the scratchpad begins, but for the
scratchpad's own (`WritableBelow`), so that a store which reaches the BIOS went through
that one (`DamageBehind`).

**The composition** (IoProofs). `IoInv` joins the invariants of the bus, of Gpu and of the
display. They need each other in one place: the bus stores bytes, so what a port answers
must be four bytes (`PortType`), which follows from the types of the GPU. Since every
step is one of Gpu's or none (`PortsDriveGpu`), its theorems hold behind the bus; for
the transfers that is `PortsTransfer`.

**Only model-checked.** `InterruptServed` (liveness under fairness, which the prover does
not do). Nothing proves that DelaySlots, Transfers and FlatMemory are what a reader expects
of a machine, a transfer and a memory; they are short to be read.

## 7 Where the code and its comments disagree

Each is a run that TLC refutes; the finding in `PROJECT.json` quotes the line.

1. **`int_precise`** – `cpu.c:714` takes interrupts "after instruction execution". The
   code latches the interrupt there and raises it after *another* instruction has run,
   with `epc` at that one: it runs twice.
2. **`int_cause`** – stores to `I_STAT` and `I_MASK` never update cause: an acknowledged
   interrupt stays pending for `mfc0` and for the next exception return.
3. **`bad_addr`** – `badAddr` is always the program counter, also when the address of a
   load or a store was bad.
4. **`exe_entry`** – `load_exe` leaves a branch and a load in flight: the executable's
   second instruction is the kernel's branch target, or its `gp` or `sp` is overwritten.
5. **`gpu_write`** – `words_left` of a write starts as a number of words and is counted
   down per pixel: transfers end half way, and the rest of the image is run as commands.
   `WriteEndsHalfWay` says exactly where, and is proved.
6. **`bios_rom`** – `bus.c:37` maps the 1 KB of the scratchpad to its whole page of 4 KB;
   from 1 KB on a store changes the BIOS image, which the next line maps read-only.
   `BiosChangesBehindScratchpad` says that it goes no further, and is proved.

Three more were met and have no run. The late latch of `int_precise` has a second
consequence: `cop0.c:12` clears pending interrupts "if interrupts are disabled" and the
latch is not cleared, so that an interrupt is raised right after the `mtc0` or `rfe` that
disabled interrupts. `cop0_update_interrupts` sets the pending flag from
the enable bit and cause but not from the interrupt mask of status, which the other two
ways respect; `InterruptFlagSound` is therefore stated without the mask. `cop0.c:39`
says that epc gets "the instruction in the delay slot"; the code stores the branch before it, as the architecture does,
and `EpcNamesRestart` holds.

`irq_raise` has no caller at this commit: no device raises an interrupt. The models call
it, since `irq.h` offers it to devices; what they show of interrupts is what the
first device to call it will meet.

## 8 Abstractions

* Memory is outside Cpu: a load returns any of `MemVals`, a fetch any of `Insts`, a store
  is an output (and a change of the interrupt controller when it hits its registers).
  Where bytes are, and the page that the fetch remembers, is Bus; `BusRefinement` says
  that the fetch returns what the bus would, so that Cpu may leave the page out.
* `branch_target` is zero when no branch is in flight. The code leaves the old value,
  which nothing reads then.
* Status keeps the enable stack, one mask bit and the isolation bit; the user mode bits
  move along and nothing reads them. `mtc0` writes any of `StatusInputs`, whatever is in
  the register. `mfc0` returns epc, tar and badAddr as they are and anything for the
  rest. The coprocessor number in cause is left out.
* Gpu leaves the display registers, the draw mode and their copies in the status register
  to GpuDisplay, because no transfer depends on them. In both, registers that nothing
  reads back are left out: the position of the display in video memory, the size of that
  memory (GP1(09h)), the mask setting; so are the FIFO-empty and interrupt bits. The
  latched attributes stay, because GP1(10h) answers with them.
* Io has no CPU: its programs are loads and stores in any order, with the addresses and
  values that their constants list, aligned as the CPU aligns them. Cpu has no bus. They
  meet in the interface that both abstract: aligned accesses in, bytes out.
* Registers of memory control are declared with 32 bits and reached through the macros for
  16: the upper halves stay zero, so the model keeps 16 bits of each.
* In `IoInit` memory control and the interrupt controller hold any of `Garbage`, which
  `psx_create` leaves in them; the GPU starts as zeros (next item).
* The machine's structure comes from `malloc` and is several megabytes, hence fresh pages
  of zeros: GPU registers that no reset sets start as zero.
* Logging is left out.

## 9 Not modelled

* **The rest of the GPU**: three registers that nothing reads, and `gpu_dump_vram`, which
  writes an image file.
* **TTY**: its call in `cpu_run` (`cpu.c:745`) is commented out. **Opening and reading
  files** in the loader: what is read is any of a set, and a file that does not open ends
  the program. **Timing helper, tests**: no state of the machine.
* **Counting timers, DMA, sound, drawing**: not in the code at this commit. The SPU and
  expansion 2 answer zero and keep nothing, which is how Bus treats every address without
  memory or registers.

## 10 Plan

Done: R3000, Cop0, Cpu and DelaySlots, CpuTrace, Psx with `psx_create`, Gpu and Transfers,
Bus and FlatMemory, GpuDisplay, Io. Every property of a passing run is proved but
`InterruptServed`.

Left: theorems across the interface that Cpu and Io share (an access that the CPU makes is
one that `ProgramAssumption` allows, of which `StoresKeepToAWord` is the half for stores),
and what an executable is promised after `load_exe` when nothing is in flight.
