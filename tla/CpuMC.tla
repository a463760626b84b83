------------------------------- MODULE CpuMC -------------------------------
(***************************************************************************)
(* Two small programs for Cpu.  Both set the stack pointer first, as real  *)
(* ones do, so that a reset brings them back to known states.              *)
(***************************************************************************)
EXTENDS Cpu, Sequences

Origin == 512

(* A loop around a subroutine that keeps the flags on the stack.  A reset  *)
(* while the carry is set leads to an opcode that has no handler.          *)
Loop ==
  << 162, 255,          \* 0200  LDX #$FF
     154,               \* 0202  TXS
     176, 11,           \* 0203  BCS $0210
     56,                \* 0205  SEC
     32, 13, 2,         \* 0206  JSR $020D
     24,                \* 0209  CLC
     76, 5, 2,          \* 020A  JMP $0205
     8,                 \* 020D  PHP
     40,                \* 020E  PLP
     96,                \* 020F  RTS
     2 >>               \* 0210  unknown

(* A program that does nothing but enter its BRK handler, at $020A.        *)
Breaks ==
  << 162, 255,          \* 0200  LDX #$FF
     154,               \* 0202  TXS
     0, 234,            \* 0203  BRK
     76, 3, 2,          \* 0205  JMP $0203
     234, 234,          \* 0208  NOP NOP
     64 >>              \* 020A  RTI

InMemory(program, irq) ==
  [a \in Word |->
     CASE a \in Origin..(Origin + Len(program) - 1) -> program[a - Origin + 1]
       [] a = RESET_VECTOR_ADDR + 1                 -> 2
       [] a = IRQ_VECTOR_ADDR                       -> irq
       [] a = IRQ_VECTOR_ADDR + 1                   -> 2
       [] OTHER                                     -> 0]

LoopImage   == InMemory(Loop, 0)
BreaksImage == InMemory(Breaks, 10)
=============================================================================
