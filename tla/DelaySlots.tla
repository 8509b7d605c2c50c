------------------------------ MODULE DelaySlots ------------------------------
(* What cpu.c promises a program: a machine with an architectural delay of    *)
(* one instruction after every branch and every load, described without the   *)
(* interpreter's bookkeeping.  The machine holds the address of this          *)
(* instruction and of the next one, and two register files: the one this      *)
(* instruction reads and the one the next instruction will read if this one   *)
(* writes nothing.  An instruction completes, faults without effect, or       *)
(* completes and is then diverted to the handler by an interrupt.             *)
EXTENDS R3000

CONSTANTS Insts, RESET_VECTOR, EXC_VECTOR

VARIABLES
    pc, npc,    \* this instruction and the one in its delay slot
    now, nxt,   \* the registers of this instruction and of the next
    hi, lo

dvars == <<pc, npc, now, nxt, hi, lo>>

Init ==
    /\ pc = RESET_VECTOR /\ npc = Plus(RESET_VECTOR, 4)
    /\ now = [n \in Reg |-> 0] /\ nxt = now
    /\ hi = 0 /\ lo = 0

\* Control goes on to the delay slot, and after it to where the instruction
\* says; or to the handler.
Flow(i) ==
    \/ /\ pc' = npc
       /\ LET br == BranchOf(i, now, npc)
          IN  npc' = IF br.state = BRANCH_STATE_TAKEN THEN br.target ELSE Plus(npc, 4)
    \/ pc' = EXC_VECTOR /\ npc' = Plus(EXC_VECTOR, 4)

\* The instruction reads now (lwl and lwr merge into nxt), its write is seen by
\* the next instruction, its load by the one after that.
Complete(i, v) ==
    /\ FaultOf(i, now, TRUE) = EXC_NONE
    /\ LET w == WriteOf(i, now, hi, lo, npc)
           ld == LoadOf(i, v, nxt[i.rt])
       IN  /\ now' = Put([nxt EXCEPT ![ld.reg] = now[ld.reg]], w)
           /\ nxt' = Put(now', ld)
    /\ hi' = HiLoOf(i, now, hi, lo)[1]
    /\ lo' = HiLoOf(i, now, hi, lo)[2]
    /\ Flow(i)

\* The handler sees every write and load before the instruction that faults.
Fault ==
    /\ now' = nxt /\ nxt' = nxt
    /\ pc' = EXC_VECTOR /\ npc' = Plus(EXC_VECTOR, 4)
    /\ UNCHANGED <<hi, lo>>

CanFault ==
    \/ pc % 4 # 0
    \/ \E i \in Insts : FaultOf(i, now, FALSE) # EXC_NONE

Next ==
    \/ CanFault /\ Fault
    \/ pc % 4 = 0 /\ \E i \in Insts, v \in Word : Complete(i, v)

Spec == Init /\ [][Next]_dvars
===============================================================================
