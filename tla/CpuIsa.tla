------------------------------- MODULE CpuIsa -------------------------------
(***************************************************************************)
(* The cycles of Cpu beside the instructions of Isa.  The registers and    *)
(* the memory as they were at the last opcode fetch are recorded in        *)
(* retired; they may change only as Isa says.  The clock cycles since then *)
(* are counted, to be compared with the documented ones.                   *)
(*                                                                         *)
(* The machine is followed from any of the states in Starts: what the      *)
(* registers and the bytes of the program are after some program has run,  *)
(* with an opcode just fetched.  Every start bounds the instructions that  *)
(* are followed from it and the presses of the reset key among them.       *)
(***************************************************************************)
EXTENDS Cpu

CONSTANTS
  Starts         \* [r |-> registers, m |-> bytes written, left |-> instructions
                 \*  to follow, presses |-> presses allowed] at an opcode fetch

(* Registers and bytes that fit: nothing more is asked of a start. *)
ASSUME StartsAssumption ==
  \A s \in Starts :
    /\ s.r \in [A : Byte, X : Byte, Y : Byte, S : Byte, PC : Word, status : SUBSET Bit]
    /\ DOMAIN s.m \subseteq Word
    /\ \A a \in DOMAIN s.m : s.m[a] \in Byte

VARIABLES
  retired,       \* the machine of Isa
  cycles,        \* clock cycles of the present instruction so far
  left,          \* instructions still to follow, resets included
  presses        \* presses of the reset key still allowed

allVars == <<cpu, mem, phase, retired, cycles, left, presses>>

(* What a program can see of the processor. *)
Visible(c) == [A |-> c.A, X |-> c.X, Y |-> c.Y, S |-> c.S, PC |-> c.PC,
               status |-> c.status \ {BF, XF}]

(* The processor that has just fetched the opcode at r.PC. *)
AtFetch(r, m) ==
  [init_cpu EXCEPT !.A = r.A, !.X = r.X, !.Y = r.Y, !.S = r.S, !.PC = r.PC,
                   !.status = r.status, !.addr_bus = r.PC,
                   !.data_bus = Read(m, r.PC), !.RES = TRUE]

StartInit ==
  /\ phase = "sample"
  /\ \E s \in Starts :
       /\ cpu = AtFetch(s.r, s.m)
       /\ mem = s.m
       /\ retired = [r |-> Visible(cpu), m |-> s.m]
       /\ left = s.left
       /\ presses = s.presses
  /\ cycles = 0

(* The instruction that Execute ends, if it ends one. *)
Ends == phase = "execute" /\ cpu'.SYNC

FollowCycle ==
  /\ left > 0
  /\ Cycle
  /\ IF Ends
     THEN /\ retired' = [r |-> Visible(cpu'), m |-> mem']
          /\ left' = left - 1
          /\ cycles' = 0
     ELSE /\ cycles' = cycles + (IF phase = "execute" THEN 1 ELSE 0)
          /\ UNCHANGED <<retired, left>>
  /\ UNCHANGED presses

FollowPress ==
  /\ left > 0
  /\ presses > 0
  /\ PressReset
  /\ presses' = presses - 1
  /\ UNCHANGED <<retired, cycles, left>>

FollowNext == FollowCycle \/ FollowPress

FollowSpec == StartInit /\ [][FollowNext]_allVars

----------------------------------------------------------------------------
Program == INSTANCE Isa WITH machine <- retired

(***************************************************************************)
(* The cycles implement the instructions: between two opcode fetches the   *)
(* registers and the memory change as one instruction of Isa, or one       *)
(* reset, changes them.  A wrong entry of opcodes[], a wrong addressing    *)
(* mode, a byte pushed or pulled in the wrong order, a store to the dummy  *)
(* address all break it (the handlers of m6502_opcodes.c).                 *)
(***************************************************************************)
ImplementsIsa == Program!Spec

CrossesPage(base, index) == (base % 256) + index > 255

(* The documented clock cycles of the instruction at retired.r.PC. *)
DocumentedCycles(s) ==
  LET op      == Program!Here(s)[1]
      mode    == Program!Here(s)[2]
      next    == U16(s.r.PC + 2)
      target  == U16(next + Signed(Program!Argument(s, 1)))
      pointer == Program!ZeroPagePointer(s, Program!Argument(s, 1))
      crossed == \/ mode = "abs_x" /\ CrossesPage(Program!Address(s), s.r.X)
                 \/ mode = "abs_y" /\ CrossesPage(Program!Address(s), s.r.Y)
                 \/ mode = "ind_y" /\ CrossesPage(pointer, s.r.Y)
      fixed   == [imm |-> 2, zpg |-> 3, zpg_x |-> 4, zpg_y |-> 4, abs |-> 4,
                  abs_x |-> 4, abs_y |-> 4, x_ind |-> 6, ind_y |-> 5]
  IN  CASE op \in ReadOps             -> fixed[mode] + (IF crossed THEN 1 ELSE 0)
        [] op \in StoreOps            ->
             fixed[mode] + (IF mode \in {"abs_x", "abs_y", "ind_y"} THEN 1 ELSE 0)
        [] op \in ModifyOps           ->
             IF mode = "acc" THEN 2
             ELSE fixed[mode] + (IF mode = "abs_x" THEN 3 ELSE 2)
        [] op \in ImpliedOps          -> 2
        [] op \in BranchOps           ->
             IF ~Program!Condition(op, s.r.status) THEN 2
             ELSE IF High(target) = High(next) THEN 3 ELSE 4
        [] op \in {"PHA", "PHP"}      -> 3
        [] op \in {"PLA", "PLP"}      -> 4
        [] op = "BRK"                 -> 7
        [] op = "JMP"                 -> IF mode = "ind" THEN 5 ELSE 3
        [] OTHER                      -> 6                    \* JSR, RTS, RTI

IndirectRead(s) == Program!Here(s)[2] = "ind_y" /\ Program!Here(s)[1] \in ReadOps

(* The step ends an instruction of the program, not a reset. *)
EndsInstruction == Ends /\ left' # left /\ ~("RST" \in cpu.break_status)
                        /\ (Opcode(cpu') = 0 => Program!Here(retired)[1] = "BRK")

(***************************************************************************)
(* Every instruction takes its documented number of clock cycles, page     *)
(* crossings and taken branches included; only a read through (zpg),Y may  *)
(* take one more (get_arg_absolute_index, get_arg_indirect_index, branch). *)
(***************************************************************************)
CycleAccurate ==
  [][EndsInstruction =>
       \/ cycles + 1 = DocumentedCycles(retired)
       \/ IndirectRead(retired) /\ cycles = DocumentedCycles(retired)]_allVars
=============================================================================
