----------------------------- MODULE CpuSweepMC -----------------------------
(***************************************************************************)
(* Every opcode, from register and operand values chosen for the places    *)
(* where an instruction can go wrong: page crossings, the ends of page     *)
(* zero, of the stack and of the address space, carries, decimal mode.     *)
(***************************************************************************)
EXTENDS CpuIsa

(* Different bytes everywhere, so that a wrong address shows. *)
Pattern == [a \in Word |-> (a + 7 * (a \div 256) + 13) % 256]

Program3(pc, code, lo, hi) ==
  [a \in {pc, U16(pc + 1), U16(pc + 2)} |->
     IF a = pc THEN code ELSE IF a = U16(pc + 1) THEN lo ELSE hi]

Regs(a, x, y, s, pc, p) ==
  [A |-> a, X |-> x, Y |-> y, S |-> s, PC |-> pc, status |-> p]

(* Registers: low and high indexes, S at both ends, all flags each way. *)
Contexts(pc) ==
  { Regs(0, 0, 0, 255, pc, {}),
    Regs(255, 240, 15, 0, pc, {CF}),
    Regs(128, 1, 240, 1, pc, {ZF, NF, VF}),
    Regs(73, 255, 255, 254, pc, {CF, DF, IF_}),
    Regs(16, 16, 2, 128, pc, {CF, ZF, NF, VF}) }

(* Operands: page zero and not, low byte near the end of a page or not. *)
Operands == {16, 255, 128} \X {0, 2}

(* One instruction from r, without a reset. *)
Single(r, code, lo, hi) ==
  [r |-> r, m |-> Program3(r.PC, code, lo, hi), left |-> 1, presses |-> 0]

SweepStarts ==
  { Single(r, code, o[1], o[2]) :
      r \in Contexts(1024) \cup Contexts(1277), code \in Byte, o \in Operands }

WrapStarts ==
  { Single(r, code, 16, 2) : r \in Contexts(65534), code \in Byte }

(***************************************************************************)
(* With the reset key, pressed up to twice anywhere in three instructions: *)
(* one context, S near its end, an instruction of every shape.             *)
(***************************************************************************)
ResetStarts ==
  { [r |-> r, m |-> Program3(r.PC, code, 16, 2), left |-> 3, presses |-> 2] :
      r \in { Regs(73, 255, 255, 1, 1277, {CF}) },
      code \in {0, 6, 8, 10, 32, 40, 64, 96, 104, 105, 108, 117, 129, 141, 144, 145,
                152, 161, 176, 189, 222, 224, 241} }

Starts_All == SweepStarts \cup WrapStarts \cup ResetStarts
=============================================================================
