----------------------------- MODULE Microcode -----------------------------
(***************************************************************************)
(* The cycles of every instruction (m6502.c, m6502_opcodes.c).             *)
(*                                                                         *)
(* The instruction register IR holds the opcode shifted left by three bits *)
(* and, in the three low bits, the stage of the instruction: cpu_cycle     *)
(* runs the handler of IR \div 8 once per clock cycle, the handler does    *)
(* what belongs to stage IR % 8, and cpu_cycle adds one to IR.  A handler  *)
(* ends its instruction by calling fetch, which raises SYNC.               *)
(*                                                                         *)
(* Every operator takes the processor, a record c with the fields of M6502 *)
(* and the two buses, and returns it with the fields the C function        *)
(* assigns changed.  A handler that writes only puts the address and the   *)
(* byte on the buses and lowers RW: the memory chip acts after the cycle.  *)
(***************************************************************************)
EXTENDS Alu, Opcodes

CONSTANT Handler    \* what opcodes[] gives for each opcode: <<operation, mode>>

ReadOps    == {"ORA", "AND", "EOR", "BIT", "ADC", "SBC", "LDA", "LDX", "LDY",
               "CMP", "CPX", "CPY"}
ModifyOps  == {"ASL", "ROL", "LSR", "ROR", "INC", "DEC"}
StoreOps   == {"STA", "STX", "STY"}
BranchOps  == {"BPL", "BMI", "BVC", "BVS", "BCC", "BCS", "BNE", "BEQ"}
FlagOps    == {"CLC", "SEC", "CLI", "SEI", "CLV", "CLD", "SED"}
RegOps     == {"DEX", "INX", "DEY", "INY", "TAX", "TXA", "TAY", "TYA", "TSX", "TXS"}
ImpliedOps == FlagOps \cup RegOps \cup {"NOP"}

MemModes   == {"zpg", "zpg_x", "zpg_y", "abs", "abs_x", "abs_y", "x_ind", "ind_y"}

(* The shapes that the handlers have. *)
Handlers ==
  (ReadOps \X (MemModes \cup {"imm"})) \cup (StoreOps \X MemModes)
    \cup (ModifyOps \X {"acc", "zpg", "zpg_x", "abs", "abs_x"})
    \cup (BranchOps \X {"rel"}) \cup (ImpliedOps \X {"impl"})
    \cup ({"PHA", "PHP", "PLA", "PLP", "RTS", "RTI", "BRK", "XX"} \X {"impl"})
    \cup {<<"JSR", "abs">>, <<"JMP", "abs">>, <<"JMP", "ind">>}

(***************************************************************************)
(* Reset and interrupts load IR with 0, so opcode 0 has to be BRK.         *)
(***************************************************************************)
ASSUME HandlerAssumption ==
  /\ Handler \in [Byte -> Handlers]
  /\ Handler[0] = <<"BRK", "impl">>

STACK_TOP_ADDR == 256
STACK_BASE_ADDR == 511
NMI_VECTOR_ADDR == 65530
RESET_VECTOR_ADDR == 65532
IRQ_VECTOR_ADDR == 65534

Opcode(c) == c.IR \div 8
Stage(c)  == c.IR % 8

Low(w)  == w % 256
High(w) == w \div 256

(* w | (b << 8), for a byte b. *)
OrHigh(w, b) == 256 * BitOr(High(w), b) + Low(w)

----------------------------------------------------------------------------
(* A defect: the address bus is left as it is. *)
fetch_Anywhere(c) == [c EXCEPT !.SYNC = TRUE]

fetch(c) == [c EXCEPT !.addr_bus = c.PC, !.SYNC = TRUE]

(* *addr_bus = PC++ *)
NextByte(c) == [c EXCEPT !.addr_bus = c.PC, !.PC = U16(@ + 1)]

(* *addr_bus = PC, the idle read of instructions without operand *)
IdleRead(c) == [c EXCEPT !.addr_bus = c.PC]

(* *addr_bus = STACK_TOP_ADDR | S++ *)
PopNext(c) == [c EXCEPT !.addr_bus = STACK_TOP_ADDR + c.S, !.S = U8(@ + 1)]

(* A defect: the stack pointer does not wrap. *)
push_stack_Unwrapped(c, b) ==
  [c EXCEPT !.addr_bus = STACK_TOP_ADDR + c.S, !.S = @ - 1,
            !.data_bus = b, !.RW = FALSE]

push_stack(c, b) ==
  [c EXCEPT !.addr_bus = STACK_TOP_ADDR + c.S, !.S = U8(@ - 1),
            !.data_bus = b, !.RW = FALSE]

get_arg_zero_page(c) ==
  CASE Stage(c) = 0 -> NextByte(c)
    [] Stage(c) = 1 -> [c EXCEPT !.AD = c.data_bus, !.addr_bus = c.data_bus]
    [] OTHER        -> c

get_arg_zero_page_index(c, index) ==
  IF Stage(c) < 2 THEN get_arg_zero_page(c)
                  ELSE [c EXCEPT !.addr_bus = Low(c.AD + index)]

(* Both bytes of an address that follows the opcode: stages 0 and 1. *)
AddressLow(c) ==
  IF Stage(c) = 0 THEN NextByte(c) ELSE [NextByte(c) EXCEPT !.AD = c.data_bus]

get_arg_absolute(c) ==
  CASE Stage(c) < 2 -> AddressLow(c)
    [] Stage(c) = 2 -> [c EXCEPT !.addr_bus = OrHigh(c.AD, c.data_bus)]
    [] OTHER        -> c

(* A defect: the stage is never left out. *)
SkipNothing(c, shortcut) == c.IR

(***************************************************************************)
(* The extra IR++ of the indexed modes: the next stage is left out.        *)
(***************************************************************************)
Skip(c, shortcut) ==
  IF shortcut /\ Handler[Opcode(c)][1] \notin WriteOps THEN c.IR + 1 ELSE c.IR

get_arg_absolute_index(c, index) ==
  LET ad == OrHigh(c.AD, c.data_bus)
  IN  CASE Stage(c) < 2 -> AddressLow(c)
        [] Stage(c) = 2 -> [c EXCEPT !.AD = ad, !.addr_bus = U16(ad + index),
                                     !.IR = Skip(c, Low(ad) + index < 256)]
        [] Stage(c) = 3 -> [c EXCEPT !.addr_bus = U16(c.AD + index)]
        [] OTHER        -> c

(***************************************************************************)
(* The shortcut of stage 3 compares the whole address with 0xFF, so it is  *)
(* taken in page zero only.                                                *)
(***************************************************************************)
get_arg_indirect_index(c) ==
  LET ad == OrHigh(c.AD, c.data_bus)
  IN  CASE Stage(c) < 2 -> get_arg_zero_page(c)
        [] Stage(c) = 2 -> [c EXCEPT !.addr_bus = Low(c.AD + 1), !.AD = c.data_bus]
        [] Stage(c) = 3 -> [c EXCEPT !.AD = ad,
                                     !.addr_bus = OrHigh(U16(ad + c.Y), High(ad)),
                                     !.IR = Skip(c, ad + c.Y <= 255)]
        [] Stage(c) = 4 -> [c EXCEPT !.addr_bus = U16(c.AD + c.Y)]
        [] OTHER        -> c

get_arg_index_indirect(c) ==
  LET pointer == Low(c.AD + c.X)
  IN  CASE Stage(c) < 2 -> get_arg_zero_page(c)
        [] Stage(c) = 2 -> [c EXCEPT !.AD = pointer, !.addr_bus = pointer]
        [] Stage(c) = 3 -> [c EXCEPT !.addr_bus = Low(c.AD + 1), !.AD = c.data_bus]
        [] Stage(c) = 4 -> [c EXCEPT !.addr_bus = OrHigh(c.AD, c.data_bus)]
        [] OTHER        -> c

(* The cycles that get_arg_* takes before the operand is on the data bus. *)
ArgStages(mode) ==
  CASE mode = "imm"                         -> 1
    [] mode = "zpg"                         -> 2
    [] mode \in {"zpg_x", "zpg_y", "abs"}   -> 3
    [] mode \in {"abs_x", "abs_y"}          -> 4
    [] OTHER                                -> 5

GetArg(c, mode) ==
  CASE mode = "imm"   -> NextByte(c)
    [] mode = "zpg"   -> get_arg_zero_page(c)
    [] mode = "zpg_x" -> get_arg_zero_page_index(c, c.X)
    [] mode = "zpg_y" -> get_arg_zero_page_index(c, c.Y)
    [] mode = "abs"   -> get_arg_absolute(c)
    [] mode = "abs_x" -> get_arg_absolute_index(c, c.X)
    [] mode = "abs_y" -> get_arg_absolute_index(c, c.Y)
    [] mode = "x_ind" -> get_arg_index_indirect(c)
    [] OTHER          -> get_arg_indirect_index(c)

----------------------------------------------------------------------------
(* What the instructions do with the operand on the data bus. *)

(* reg = value, followed by update_flags_register. *)
SetReg(c, reg, value) ==
  LET flagged == [c EXCEPT !.status = update_flags_register(@, value)]
  IN  CASE reg = "A" -> [flagged EXCEPT !.A = value]
        [] reg = "X" -> [flagged EXCEPT !.X = value]
        [] OTHER     -> [flagged EXCEPT !.Y = value]

do_LD_(c, reg) == SetReg(c, reg, c.data_bus)

ReadOperand(c, op) ==
  CASE op = "ORA" -> do_ORA(c)
    [] op = "AND" -> do_AND(c)
    [] op = "EOR" -> do_EOR(c)
    [] op = "BIT" -> do_BIT(c)
    [] op = "ADC" -> do_ADC(c)
    [] op = "SBC" -> do_SBC(c)
    [] op = "LDA" -> do_LD_(c, "A")
    [] op = "LDX" -> do_LD_(c, "X")
    [] op = "LDY" -> do_LD_(c, "Y")
    [] op = "CMP" -> do_CMP(c, c.A)
    [] op = "CPX" -> do_CMP(c, c.X)
    [] OTHER      -> do_CMP(c, c.Y)

(* AD++, AD-- of INC and DEC; the shifts leave AD alone. *)
Counted(op, ad) ==
  CASE op = "INC" -> U16(ad + 1) [] op = "DEC" -> U16(ad - 1) [] OTHER -> ad

(* INC and DEC of a byte. *)
Stepped(status, x, by) ==
  [res |-> U8(x + by), status |-> update_flags_register(status, U8(x + by))]

(* The new value of the byte x and the new status. *)
Modified(op, status, x) ==
  CASE op = "ASL" -> do_ASL(status, x)
    [] op = "ROL" -> do_ROL(status, x)
    [] op = "LSR" -> do_LSR(status, x)
    [] op = "ROR" -> do_ROR(status, x)
    [] op = "INC" -> Stepped(status, x, 1)
    [] OTHER      -> Stepped(status, x, -1)

Stored(c, op) == CASE op = "STA" -> c.A [] op = "STX" -> c.X [] OTHER -> c.Y

Taken(op, status) ==
  CASE op = "BPL" -> NF \notin status
    [] op = "BMI" -> NF \in status
    [] op = "BVC" -> VF \notin status
    [] op = "BVS" -> VF \in status
    [] op = "BCC" -> CF \notin status
    [] op = "BCS" -> CF \in status
    [] op = "BNE" -> ZF \notin status
    [] OTHER      -> ZF \in status

Implied(c, op) ==
  CASE op = "CLC" -> [c EXCEPT !.status = @ \ {CF}]
    [] op = "SEC" -> [c EXCEPT !.status = @ \cup {CF}]
    [] op = "CLI" -> [c EXCEPT !.status = @ \ {IF_}]
    [] op = "SEI" -> [c EXCEPT !.status = @ \cup {IF_}]
    [] op = "CLV" -> [c EXCEPT !.status = @ \ {VF}]
    [] op = "CLD" -> [c EXCEPT !.status = @ \ {DF}]
    [] op = "SED" -> [c EXCEPT !.status = @ \cup {DF}]
    [] op = "DEX" -> SetReg(c, "X", U8(c.X - 1))
    [] op = "INX" -> SetReg(c, "X", U8(c.X + 1))
    [] op = "DEY" -> SetReg(c, "Y", U8(c.Y - 1))
    [] op = "INY" -> SetReg(c, "Y", U8(c.Y + 1))
    [] op = "TAX" -> SetReg(c, "X", c.A)
    [] op = "TXA" -> SetReg(c, "A", c.X)
    [] op = "TAY" -> SetReg(c, "Y", c.A)
    [] op = "TYA" -> SetReg(c, "A", c.Y)
    [] op = "TSX" -> SetReg(c, "X", c.S)
    [] op = "TXS" -> [c EXCEPT !.S = c.X]
    [] OTHER      -> c                                         \* NOP

----------------------------------------------------------------------------
(* The shapes of the handlers. *)

do_read(c, op, mode) ==
  IF Stage(c) < ArgStages(mode) THEN GetArg(c, mode) ELSE fetch(ReadOperand(c, op))

(***************************************************************************)
(* The byte is read into AD, the two following cycles write: first the     *)
(* byte as it was, then the new value.  INC and DEC count in AD itself.    *)
(***************************************************************************)
do_modify(c, op, mode) ==
  LET n   == ArgStages(mode)
      new == Modified(op, c.status, Low(c.AD))
  IN  CASE Stage(c) < n     -> GetArg(c, mode)
        [] Stage(c) = n     -> [c EXCEPT !.AD = c.data_bus, !.RW = FALSE]
        [] Stage(c) = n + 1 -> [c EXCEPT !.AD = Counted(op, @), !.status = new.status,
                                         !.data_bus = new.res, !.RW = FALSE]
        [] Stage(c) = n + 2 -> fetch(c)
        [] OTHER            -> c

do_accumulator(c, op) ==
  LET new == Modified(op, c.status, c.A)
  IN  CASE Stage(c) = 0 -> IdleRead(c)
        [] Stage(c) = 1 -> fetch([c EXCEPT !.A = new.res, !.status = new.status])
        [] OTHER        -> c

do_store(c, op, mode) ==
  LET n == ArgStages(mode)
  IN  CASE Stage(c) < n - 1 -> GetArg(c, mode)
        [] Stage(c) = n - 1 -> [GetArg(c, mode) EXCEPT !.data_bus = Stored(c, op),
                                                       !.RW = FALSE]
        [] Stage(c) = n     -> fetch(c)
        [] OTHER            -> c

do_implied(c, op) ==
  CASE Stage(c) = 0 -> IdleRead(c)
    [] Stage(c) = 1 -> fetch(Implied(c, op))
    [] OTHER        -> c

branch(c, condition) ==
  LET target == [c EXCEPT !.PC = c.AD]
  IN  CASE Stage(c) = 0 -> NextByte(c)
        [] Stage(c) = 1 ->
             LET aimed == [c EXCEPT !.addr_bus = c.PC,
                                    !.AD = U16(c.PC + Signed(c.data_bus))]
             IN  IF condition THEN aimed ELSE fetch(aimed)
        [] Stage(c) = 2 ->
             IF High(c.AD) = High(c.PC)
             THEN fetch(target)
             ELSE [c EXCEPT !.addr_bus = 256 * High(c.PC) + Low(c.AD)]
        [] Stage(c) = 3 -> fetch(target)
        [] OTHER        -> c

do_push(c, b) ==
  CASE Stage(c) = 0 -> IdleRead(c)
    [] Stage(c) = 1 -> push_stack(c, b)
    [] Stage(c) = 2 -> fetch(c)
    [] OTHER        -> c

(* A defect: the last stage does not call fetch. *)
do_pull_Endless(c, pulled) ==
  CASE Stage(c) = 0 -> IdleRead(c)
    [] Stage(c) = 1 -> PopNext(c)
    [] Stage(c) = 2 -> [c EXCEPT !.addr_bus = STACK_TOP_ADDR + c.S]
    [] OTHER        -> pulled

do_pull(c, pulled) ==
  CASE Stage(c) = 0 -> IdleRead(c)
    [] Stage(c) = 1 -> PopNext(c)
    [] Stage(c) = 2 -> [c EXCEPT !.addr_bus = STACK_TOP_ADDR + c.S]
    [] Stage(c) = 3 -> fetch(pulled)
    [] OTHER        -> c

(* The status byte as it is pushed. *)
StatusByte(c) == ByteOf(c.status \cup {BF, XF})

(* A push of BRK.  During a reset RW is put back: the stack cycle reads. *)
PushUnlessReset(c, b) == [push_stack(c, b) EXCEPT !.RW = "RST" \in c.break_status]

(***************************************************************************)
(* BRK, which is also the reset and interrupt sequence.                    *)
(***************************************************************************)
do_00(c) ==
  LET skipped == IF c.break_status = {} THEN [c EXCEPT !.PC = U16(@ + 1)] ELSE c
      vector  == CASE "RST" \in c.break_status -> RESET_VECTOR_ADDR
                   [] "NMI" \in c.break_status -> NMI_VECTOR_ADDR
                   [] OTHER                    -> IRQ_VECTOR_ADDR
  IN  CASE Stage(c) = 0 -> IdleRead(c)
        [] Stage(c) = 1 -> PushUnlessReset(skipped, High(skipped.PC))
        [] Stage(c) = 2 -> PushUnlessReset(c, Low(c.PC))
        [] Stage(c) = 3 ->
             [PushUnlessReset(c, StatusByte(c)) EXCEPT !.AD = vector, !.RES = TRUE,
                                                       !.break_status = {}]
        [] Stage(c) = 4 -> [c EXCEPT !.addr_bus = c.AD, !.AD = U16(@ + 1),
                                     !.status = @ \cup {IF_}]
        [] Stage(c) = 5 -> [c EXCEPT !.addr_bus = c.AD, !.AD = c.data_bus]
        [] Stage(c) = 6 -> fetch([c EXCEPT !.PC = OrHigh(c.AD, c.data_bus)])
        [] OTHER        -> c

(* JSR *)
do_20(c) ==
  CASE Stage(c) = 0 -> NextByte(c)
    [] Stage(c) = 1 -> [c EXCEPT !.AD = c.data_bus, !.addr_bus = STACK_BASE_ADDR]
    [] Stage(c) = 2 -> push_stack(c, High(c.PC))
    [] Stage(c) = 3 -> push_stack(c, Low(c.PC))
    [] Stage(c) = 4 -> IdleRead(c)
    [] Stage(c) = 5 -> fetch([c EXCEPT !.PC = OrHigh(c.AD, c.data_bus)])
    [] OTHER        -> c

(* RTI *)
do_40(c) ==
  CASE Stage(c) = 0 -> IdleRead(c)
    [] Stage(c) = 1 -> PopNext(c)
    [] Stage(c) = 2 -> PopNext(c)
    [] Stage(c) = 3 -> [PopNext(c) EXCEPT !.status = (Bits(c.data_bus) \cup {BF}) \ {XF}]
    [] Stage(c) = 4 -> [c EXCEPT !.addr_bus = STACK_TOP_ADDR + c.S,
                                 !.PC = 256 * High(@) + c.data_bus]
    [] Stage(c) = 5 -> fetch([c EXCEPT !.PC = 256 * c.data_bus + Low(@)])
    [] OTHER        -> c

(* JMP abs *)
do_4C(c) ==
  CASE Stage(c) < 2 -> AddressLow(c)
    [] Stage(c) = 2 -> fetch([c EXCEPT !.PC = OrHigh(c.AD, c.data_bus)])
    [] OTHER        -> c

(* RTS *)
do_60(c) ==
  CASE Stage(c) = 0 -> IdleRead(c)
    [] Stage(c) = 1 -> PopNext(c)
    [] Stage(c) = 2 -> PopNext(c)
    [] Stage(c) = 3 -> [c EXCEPT !.AD = c.data_bus, !.addr_bus = STACK_TOP_ADDR + c.S]
    [] Stage(c) = 4 -> NextByte([c EXCEPT !.PC = OrHigh(c.AD, c.data_bus)])
    [] Stage(c) = 5 -> fetch(c)
    [] OTHER        -> c

(* JMP ind: the high byte of the pointer's second address does not change. *)
do_6C(c) ==
  LET ad == OrHigh(c.AD, c.data_bus)
  IN  CASE Stage(c) < 2 -> AddressLow(c)
        [] Stage(c) = 2 -> [c EXCEPT !.AD = ad, !.addr_bus = ad]
        [] Stage(c) = 3 -> [c EXCEPT !.addr_bus = 256 * High(c.AD) + Low(c.AD + 1),
                                     !.AD = c.data_bus]
        [] Stage(c) = 4 -> fetch([c EXCEPT !.PC = OrHigh(c.AD, c.data_bus)])
        [] OTHER        -> c

(***************************************************************************)
(* XX is not here: do_XX does not come back from cpu_crash (see Cpu).      *)
(***************************************************************************)
run_opcode(c) ==
  LET op   == Handler[Opcode(c)][1]
      mode == Handler[Opcode(c)][2]
  IN  CASE op \in ReadOps    -> do_read(c, op, mode)
        [] op \in StoreOps   -> do_store(c, op, mode)
        [] op \in ModifyOps  -> IF mode = "acc" THEN do_accumulator(c, op)
                                                ELSE do_modify(c, op, mode)
        [] op \in ImpliedOps -> do_implied(c, op)
        [] op \in BranchOps  -> branch(c, Taken(op, c.status))
        [] op = "PHP"        -> do_push(c, StatusByte(c))
        [] op = "PHA"        -> do_push(c, c.A)
        [] op = "PLP"        -> do_pull(c, [c EXCEPT !.status = Bits(c.data_bus) \ {BF}])
        [] op = "PLA"        -> do_pull(c, SetReg(c, "A", c.data_bus))
        [] op = "JSR"        -> do_20(c)
        [] op = "RTS"        -> do_60(c)
        [] op = "RTI"        -> do_40(c)
        [] op = "JMP"        -> IF mode = "abs" THEN do_4C(c) ELSE do_6C(c)
        [] OTHER             -> do_00(c)
=============================================================================
