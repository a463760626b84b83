-------------------------------- MODULE Cpu --------------------------------
(***************************************************************************)
(* The processor and its 64K of RAM as the clock thread drives them when   *)
(* the emulator runs a binary (init_apple1_binary): clock_cpu calls        *)
(* cpu_cycle and then raises phi2, on which clock_mem performs the access  *)
(* that the processor put on the buses.                                    *)
(*                                                                         *)
(* The input thread shares one line with the processor: F8 lowers          *)
(* reset_line.  cpu_cycle reads it once, at its beginning, and the         *)
(* reset sequence raises it again.  A cycle is therefore two steps, Sample *)
(* and Execute, between which the key may be pressed.  The other lines     *)
(* (IRQ, NMI, RDY, SO) are tied high by init_apple1 and init_apple1_binary.*)
(***************************************************************************)
EXTENDS Microcode

CONSTANT Image       \* the memory when the machine is switched on

ASSUME ImageAssumption == Image \in [Word -> Byte]

VARIABLES
  cpu,      \* the registers, lines and buses
  mem,      \* the bytes written since: a function on some of the addresses
  phase     \* where the clock thread is in its cycle

vars == <<cpu, mem, phase>>

IRs == 0..2047       \* an opcode and one of its eight stages

(* Only a reset breaks into the program: the other lines are tied high. *)
CpuState ==
  [A : Byte, X : Byte, Y : Byte, S : Byte, PC : Word, status : SUBSET Bit,
   IR : IRs, AD : Word, break_status : SUBSET {"RST"},
   addr_bus : Word, data_bus : Byte,
   RW : BOOLEAN, SYNC : BOOLEAN, RES : BOOLEAN]

Read(m, a) == IF a \in DOMAIN m THEN m[a] ELSE Image[a]

Store(m, a, b) == [x \in DOMAIN m \cup {a} |-> IF x = a THEN b ELSE m[x]]

(* clock_mem, on the rising phi2: what the memory and the data bus become. *)
Written(m, c)  == IF c.RW THEN m ELSE Store(m, c.addr_bus, c.data_bus)
Answered(m, c) == IF c.RW THEN [c EXCEPT !.data_bus = Read(m, c.addr_bus)] ELSE c

----------------------------------------------------------------------------
(* init_cpu; the fields it does not set are zero from the start. *)
init_cpu ==
  [A |-> 0, X |-> 0, Y |-> 0, S |-> 255, PC |-> 0, status |-> {},
   IR |-> 0, AD |-> 0, break_status |-> {}, addr_bus |-> 0, data_bus |-> 0,
   RW |-> TRUE, SYNC |-> TRUE, RES |-> FALSE]

Init ==
  /\ cpu = init_cpu
  /\ mem = [a \in {} |-> 0]
  /\ phase = "sample"

(* The first half of cpu_cycle: the lines are looked at. *)
Sample ==
  /\ phase = "sample"
  /\ cpu' = IF cpu.RES THEN cpu ELSE [cpu EXCEPT !.break_status = @ \cup {"RST"}]
  /\ phase' = "execute"
  /\ UNCHANGED mem

(* A defect: a pending break is not looked at. *)
FetchedAlways(c) == [c EXCEPT !.IR = 8 * c.data_bus, !.PC = U16(@ + 1)]

(***************************************************************************)
(* After a cycle with SYNC, the byte on the data bus is the next opcode,   *)
(* unless a break is pending: then BRK takes its place and PC stays.       *)
(***************************************************************************)
Fetched(c) ==
  IF c.break_status # {} THEN [c EXCEPT !.IR = 0]
                         ELSE [c EXCEPT !.IR = 8 * c.data_bus, !.PC = U16(@ + 1)]

Begun(c) ==
  LET loaded == IF c.SYNC THEN Fetched(c) ELSE c
  IN  [loaded EXCEPT !.SYNC = FALSE, !.RW = TRUE]

Unknown(c) == Handler[Opcode(c)][1] = "XX"

(* A defect: the stage is not counted. *)
CycledInPlace(c) == run_opcode(c)

Cycled(c) == LET ran == run_opcode(c) IN [ran EXCEPT !.IR = U16(@ + 1)]

(* The rest of cpu_cycle, and the memory access that phi2 starts. *)
Execute ==
  /\ phase = "execute"
  /\ ~Unknown(Begun(cpu))
  /\ LET c == Cycled(Begun(cpu))
     IN  /\ cpu' = Answered(mem, c)
         /\ mem' = Written(mem, c)
  /\ phase' = "sample"

(***************************************************************************)
(* do_XX calls cpu_crash, which saves the state.  save_state waits until   *)
(* the processor is not active; it is, for this cycle: the thread stays.   *)
(***************************************************************************)
Crash ==
  /\ phase = "execute"
  /\ Unknown(Begun(cpu))
  /\ cpu' = Begun(cpu)
  /\ phase' = "crashed"
  /\ UNCHANGED mem

(* F8: process_emulator_input(EMULATOR_RESET), in the input thread. *)
PressReset ==
  /\ cpu' = [cpu EXCEPT !.RES = FALSE]
  /\ UNCHANGED <<mem, phase>>

Cycle == Sample \/ Execute \/ Crash

Next == Cycle \/ PressReset

Spec == Init /\ [][Next]_vars

(* The clock thread does not stop between two cycles. *)
FairSpec == Spec /\ WF_vars(Cycle)

----------------------------------------------------------------------------
(* The registers and buses within their widths: IR within 11 bits of 16. *)
TypeOK ==
  /\ cpu \in CpuState
  /\ DOMAIN mem \subseteq Word
  /\ \A a \in DOMAIN mem : mem[a] \in Byte
  /\ phase \in {"sample", "execute", "crashed"}

(* The stage in which the handler of an opcode calls fetch at the latest. *)
LastStage(op, mode) ==
  CASE op \in ReadOps \cup StoreOps     -> ArgStages(mode)
    [] op \in ModifyOps                 -> IF mode = "acc" THEN 1 ELSE ArgStages(mode) + 2
    [] op \in ImpliedOps                -> 1
    [] op \in {"PHA", "PHP"}            -> 2
    [] op \in {"PLA", "PLP"}            -> 3
    [] op \in BranchOps                 -> 3
    [] op \in {"JSR", "RTS", "RTI"}     -> 5
    [] op = "JMP"                       -> IF mode = "abs" THEN 2 ELSE 4
    [] op = "BRK"                       -> 6
    [] OTHER                            -> 0

(***************************************************************************)
(* A handler has called fetch before its stage counter runs past its last  *)
(* stage: IR++ never leaves the switch of a handler without a case, and    *)
(* never carries into the opcode (cpu_cycle, m6502.c:608).                 *)
(***************************************************************************)
StageBound ==
  \/ cpu.SYNC
  \/ Stage(cpu) <= LastStage(Handler[Opcode(cpu)][1], Handler[Opcode(cpu)][2])

(***************************************************************************)
(* When SYNC is up and no reset came in between, the bus shows a read at   *)
(* PC and the byte there is what memory holds: no handler calls fetch      *)
(* before PC has its final value or in a cycle that writes.                *)
(***************************************************************************)
FetchCoherent ==
  cpu.SYNC /\ cpu.RES /\ cpu.break_status = {} =>
    /\ cpu.addr_bus = cpu.PC
    /\ cpu.RW
    /\ cpu.data_bus = Read(mem, cpu.PC)

(***************************************************************************)
(* The reset sequence goes through the stack cycles of BRK but writes      *)
(* nothing (do_00, m6502_opcodes.c:48).                                    *)
(***************************************************************************)
ResetSequenceNeverWrites ==
  [][ ~cpu.SYNC /\ Opcode(cpu) = 0 /\ "RST" \in cpu.break_status
        => mem' = mem ]_vars

(***************************************************************************)
(* Every instruction ends: the next opcode fetch always comes, whatever    *)
(* the moment the reset key is pressed, unless an opcode without a handler *)
(* has stopped the clock thread (cpu_crash).                               *)
(***************************************************************************)
InstructionsEnd == []<>(cpu.SYNC \/ phase = "crashed")

ResetVector == Image[RESET_VECTOR_ADDR] + 256 * Image[RESET_VECTOR_ADDR + 1]

(***************************************************************************)
(* "F8: Reset" (print_greeting, apple1.c:278): once the key has lowered    *)
(* the reset line, the program starts again at the reset vector, if the    *)
(* clock thread still runs.                                                *)
(***************************************************************************)
ResetServed ==
  ~cpu.RES ~> \/ cpu.SYNC /\ cpu.PC = ResetVector
              \/ phase = "crashed"
=============================================================================
